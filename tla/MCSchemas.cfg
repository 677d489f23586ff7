SPECIFICATION Spec
CONSTANTS
    order = order
    item = item
    narrow = narrow
    wide = wide
    function = function
    NoSchema = NoSchema
    Instances = {i1, i2}
    Types = {order, item}
    JSONSchemas = {narrow, wide}
    Unencodable = {function}
    Misfits <- OrderMisfits
    Inputs <- VersionInputs
INVARIANTS
    SuccessMeansRegistered
    PermanentMeansHopeless
PROPERTIES
    RegistrationsReturn
CHECK_DEADLOCK FALSE
