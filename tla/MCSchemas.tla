------------------------------ MODULE MCSchemas ------------------------------
(***************************************************************************)
(* Instances of Schemas for TLC: two versions of an application that       *)
(* agree on one event type and may differ on the other.                    *)
(***************************************************************************)
EXTENDS Schemas

CONSTANTS order, item, narrow, wide, function

S(t, s) == [type |-> t, schema |-> s]

VersionInputs ==
    {<<S(order, narrow), S(item, narrow)>>,
     <<S(item, narrow), S(order, narrow), S(item, narrow)>>,
     <<S(order, wide), S(item, narrow)>>,
     <<S(order, narrow), S(order, wide)>>,
     <<S(item, function)>>,
     <<S(item, NoSchema)>>,
     <<>>}

OrderMisfits == {<<order, narrow>>, <<order, wide>>}
=============================================================================
