----------------------------- MODULE StoreProofs -----------------------------
(***************************************************************************)
(* Proofs about Store, for every number of callers, stores, subjects,      *)
(* states, calls and retries, and that it implements SerialStore.          *)
(***************************************************************************)
EXTENDS Store, TLAPS

-----------------------------------------------------------------------------
(***************************************************************************)
(* What get and put keep true of a state cache: the list and the map hold  *)
(* the same keys, each once, no more than the maximum, and an entry only   *)
(* changes to the one that was put, never to one built from an earlier     *)
(* event.                                                                  *)
(***************************************************************************)
OrderOK(order, keys) ==
    /\ \A i \in DOMAIN order : order[i] \in keys
    /\ \A k \in keys : \E i \in DOMAIN order : order[i] = k
    /\ \A i, j \in DOMAIN order : order[i] = order[j] => i = j

LEMMA PushFrontOK ==
    ASSUME NEW S, NEW order \in Seq(S), NEW keys, OrderOK(order, keys),
           NEW k \in S, k \notin keys
    PROVE  OrderOK(PushFront(order, k), keys \cup {k})
<1> DEFINE new == PushFront(order, k)
<1>0. /\ DOMAIN new = 1 .. Len(order) + 1 /\ DOMAIN order = 1 .. Len(order)
      /\ Len(order) \in Nat
      /\ new[1] = k
      /\ \A i \in DOMAIN order : new[i + 1] = order[i]
      /\ \A i \in DOMAIN new : i # 1 => i - 1 \in DOMAIN order /\ new[i] = order[i - 1]
  BY DEF PushFront
<1> HIDE DEF new
<1>1. \A i \in DOMAIN new : new[i] \in keys \cup {k}
  BY <1>0 DEF OrderOK
<1>2. ASSUME NEW j \in keys \cup {k} PROVE \E i \in DOMAIN new : new[i] = j
  <2>1. CASE j = k
    BY <1>0, <2>1
  <2>2. CASE j \in keys
    <3>1. PICK i \in DOMAIN order : order[i] = j
      BY <2>2 DEF OrderOK
    <3>2. i + 1 \in DOMAIN new /\ new[i + 1] = j
      BY <1>0, <3>1
    <3> QED
      BY <3>2
  <2> QED
    BY <1>2, <2>1, <2>2
<1>3. ASSUME NEW i \in DOMAIN new, NEW j \in DOMAIN new, new[i] = new[j]
      PROVE  i = j
  BY <1>0, <1>3 DEF OrderOK
<1> QED
  BY <1>1, <1>2, <1>3 DEF OrderOK, new

LEMMA WithoutOK ==
    ASSUME NEW S, NEW order \in Seq(S), NEW keys, OrderOK(order, keys), NEW k \in keys
    PROVE  /\ Without(order, k) \in Seq(S)
           /\ Len(Without(order, k)) = Len(order) - 1
           /\ OrderOK(Without(order, k), keys \ {k})
<1> DEFINE p == PlaceOf(order, k)
           new == Without(order, k)
<1>1. p \in DOMAIN order /\ order[p] = k
  BY DEF PlaceOf, OrderOK
<1>2. Len(order) \in Nat /\ p \in 1 .. Len(order)
  BY <1>1
<1>3. /\ new \in Seq(S)
      /\ Len(new) = Len(order) - 1
      /\ \A i \in 1 .. Len(order) - 1 : new[i] = IF i < p THEN order[i] ELSE order[i + 1]
  BY <1>2 DEF Without
<1> HIDE DEF new, p
<1>4. \A i \in DOMAIN new : new[i] \in keys \ {k}
  BY <1>1, <1>2, <1>3 DEF OrderOK
<1>5. ASSUME NEW j \in keys \ {k} PROVE \E i \in DOMAIN new : new[i] = j
  <2>1. PICK i \in DOMAIN order : order[i] = j
    BY DEF OrderOK
  <2>2. CASE i < p
    <3>1. i \in DOMAIN new /\ new[i] = j
      BY <1>2, <1>3, <2>1, <2>2
    <3> QED BY <3>1
  <2>3. CASE i > p
    <3>1. i - 1 \in DOMAIN new /\ new[i - 1] = j
      BY <1>2, <1>3, <2>1, <2>3
    <3> QED BY <3>1
  <2> QED
    BY <1>1, <1>2, <2>1, <2>2, <2>3
<1>6. \A i, j \in DOMAIN new : new[i] = new[j] => i = j
  <2>1. DOMAIN new = 1 .. Len(order) - 1
    BY <1>3
  <2>2. \A m, n \in 1 .. Len(order) : order[m] = order[n] => m = n
    BY DEF OrderOK
  <2> QED
    BY <1>2, <1>3, <2>1, <2>2
<1>7. OrderOK(new, keys \ {k})
  BY <1>4, <1>5, <1>6 DEF OrderOK
<1> QED
  BY <1>3, <1>7 DEF new

LEMMA MoveToFrontOK ==
    ASSUME NEW S, NEW order \in Seq(S), NEW keys, OrderOK(order, keys),
           NEW k \in keys, k \in S
    PROVE  /\ MoveToFront(order, k) \in Seq(S)
           /\ Len(MoveToFront(order, k)) = Len(order)
           /\ OrderOK(MoveToFront(order, k), keys)
<1>0. /\ Without(order, k) \in Seq(S)
      /\ Len(Without(order, k)) = Len(order) - 1
      /\ OrderOK(Without(order, k), keys \ {k})
  BY WithoutOK
<1>1. OrderOK(PushFront(Without(order, k), k), (keys \ {k}) \cup {k})
  BY <1>0, PushFrontOK
<1>2. (keys \ {k}) \cup {k} = keys
  OBVIOUS
<1>3. /\ PushFront(Without(order, k), k) \in Seq(S)
      /\ Len(PushFront(Without(order, k), k)) = Len(order)
  BY <1>0 DEF PushFront
<1> QED
  BY <1>0, <1>1, <1>2, <1>3 DEF MoveToFront

-----------------------------------------------------------------------------
\* S are the keys, E the entries, which have the shape and the last event.
EntriesOf(S, E) == UNION {[K -> E] : K \in SUBSET S}

CacheOK(held, S, E, max) ==
    /\ held \in [entries : EntriesOf(S, E), order : Seq(S)]
    /\ OrderOK(held.order, DOMAIN held.entries)
    /\ Len(held.order) <= max

\* get changes the order alone, and keeps the list and the map in step.
LEMMA AfterGetOK ==
    ASSUME NEW S, NEW E, NEW max \in Nat, NEW held, CacheOK(held, S, E, max),
           NEW key \in S
    PROVE  /\ CacheOK(AfterGet(held, key), S, E, max)
           /\ AfterGet(held, key).entries = held.entries
<1>1. CASE ~IsCached(held, key)
  BY <1>1 DEF AfterGet
<1>2. CASE IsCached(held, key)
  <2>1. held.order \in Seq(S) /\ OrderOK(held.order, DOMAIN held.entries)
    BY DEF CacheOK
  <2>2. key \in DOMAIN held.entries
    BY <1>2 DEF IsCached
  <2>3. /\ MoveToFront(held.order, key) \in Seq(S)
        /\ Len(MoveToFront(held.order, key)) = Len(held.order)
        /\ OrderOK(MoveToFront(held.order, key), DOMAIN held.entries)
    BY <2>1, <2>2, MoveToFrontOK
  <2>4. AfterGet(held, key) = [entries |-> held.entries,
                                order |-> MoveToFront(held.order, key)]
    BY <1>2 DEF AfterGet, CacheOK
  <2> QED
    BY <2>3, <2>4 DEF CacheOK
<1> QED
  BY <1>1, <1>2

LEMMA WithType ==
    ASSUME NEW S, NEW E, NEW entries, entries \in EntriesOf(S, E),
           NEW key, key \in S, NEW entry, entry \in E
    PROVE  With(entries, key, entry) \in EntriesOf(S, E)
<1>1. PICK K \in SUBSET S : entries \in [K -> E]
  BY DEF EntriesOf
<1>2. With(entries, key, entry) \in [K \cup {key} -> E]
  BY <1>1 DEF With
<1> QED
  BY <1>1, <1>2 DEF With, EntriesOf

\* What put leaves of the entries.
PutEntries(new, old, key, entry) ==
    /\ DOMAIN new \subseteq DOMAIN old \cup {key}
    /\ \A k \in DOMAIN new :
          \/ k \in DOMAIN old /\ new[k] = old[k]
          \/ /\ k = key /\ new[k] = entry
             /\ key \in DOMAIN old => /\ entry.shape = old[key].shape
                                     /\ entry.lastEventID >= old[key].lastEventID

LEMMA ReplaceOK ==
    ASSUME NEW S, NEW E, NEW max \in Nat, NEW held, CacheOK(held, S, E, max),
           NEW key \in S, NEW entry \in E, IsCached(held, key)
    PROVE  /\ CacheOK(Replace(held, key, entry), S, E, max)
           /\ PutEntries(Replace(held, key, entry).entries, held.entries, key, entry)
<1>1. CASE held.entries[key].shape # entry.shape
  BY <1>1 DEF Replace, PutEntries
<1>2. CASE held.entries[key].shape = entry.shape
  <2>1. /\ held.order \in Seq(S) /\ OrderOK(held.order, DOMAIN held.entries)
        /\ held.entries \in EntriesOf(S, E)
        /\ key \in DOMAIN held.entries
    BY DEF CacheOK, IsCached
  <2>2. /\ MoveToFront(held.order, key) \in Seq(S)
        /\ Len(MoveToFront(held.order, key)) = Len(held.order)
        /\ OrderOK(MoveToFront(held.order, key), DOMAIN held.entries)
    BY <2>1, MoveToFrontOK
  <2> DEFINE new == Replace(held, key, entry)
             entries == IF entry.lastEventID >= held.entries[key].lastEventID
                        THEN With(held.entries, key, entry) ELSE held.entries
  <2>3. new = [entries |-> entries, order |-> MoveToFront(held.order, key)]
    BY <1>2 DEF Replace
  <2>4. /\ With(held.entries, key, entry) \in EntriesOf(S, E)
        /\ DOMAIN With(held.entries, key, entry) = DOMAIN held.entries
        /\ With(held.entries, key, entry)[key] = entry
        /\ \A k \in DOMAIN held.entries :
              k # key => With(held.entries, key, entry)[k] = held.entries[k]
    <3>1. DOMAIN held.entries \cup {key} = DOMAIN held.entries
      BY <2>1
    <3>2. With(held.entries, key, entry) \in EntriesOf(S, E)
      BY <2>1, WithType
    <3> QED
      BY <3>1, <3>2 DEF With
  <2>5. entries \in EntriesOf(S, E) /\ DOMAIN entries = DOMAIN held.entries
    BY <2>1, <2>4
  <2>6. PutEntries(entries, held.entries, key, entry)
    BY <1>2, <2>1, <2>4 DEF PutEntries
  <2> QED
    BY <2>2, <2>3, <2>5, <2>6 DEF CacheOK
<1> QED
  BY <1>1, <1>2

LEMMA InsertOK ==
    ASSUME NEW S, NEW E, NEW max \in Nat \ {0}, NEW held, CacheOK(held, S, E, max),
           NEW key \in S, NEW entry \in E, ~IsCached(held, key)
    PROVE  /\ CacheOK(Insert(held, key, entry, max), S, E, max)
           /\ PutEntries(Insert(held, key, entry, max).entries, held.entries, key, entry)
<1> DEFINE order == PushFront(held.order, key)
           entries == With(held.entries, key, entry)
           keys == DOMAIN held.entries \cup {key}
           oldest == order[Len(order)]
<1>1. /\ held.order \in Seq(S) /\ OrderOK(held.order, DOMAIN held.entries)
      /\ held.entries \in EntriesOf(S, E)
      /\ key \notin DOMAIN held.entries
      /\ Len(held.order) \in Nat /\ Len(held.order) <= max
  BY DEF CacheOK, IsCached
<1>2. /\ order \in Seq(S) /\ Len(order) = Len(held.order) + 1
      /\ OrderOK(order, keys)
  BY <1>1, PushFrontOK DEF PushFront
<1>3. /\ entries \in EntriesOf(S, E)
      /\ DOMAIN entries = keys
      /\ entries[key] = entry
      /\ \A k \in DOMAIN held.entries : k # key => entries[k] = held.entries[k]
  <2>1. entries \in EntriesOf(S, E)
    BY <1>1, WithType
  <2> QED
    BY <2>1 DEF With
<1> HIDE DEF order, entries
<1>4. CASE Len(order) <= max
  <2>1. Insert(held, key, entry, max) = [entries |-> entries, order |-> order]
    BY <1>1, <1>2, <1>4 DEF Insert, order, entries
  <2> QED
    BY <1>1, <1>2, <1>3, <1>4, <2>1 DEF CacheOK, PutEntries
<1>5. CASE Len(order) > max
  <2> DEFINE front == SubSeq(order, 1, Len(order) - 1)
             kept == [k \in keys \ {oldest} |-> entries[k]]
  <2>1. Insert(held, key, entry, max) = [entries |-> kept, order |-> front]
    BY <1>1, <1>2, <1>3, <1>5 DEF Insert, Back, order, entries
  <2>2. /\ front \in Seq(S) /\ Len(front) = Len(order) - 1
        /\ \A i \in 1 .. Len(order) - 1 : front[i] = order[i]
    BY <1>1, <1>2
  <2>3. OrderOK(front, keys \ {oldest})
    <3>1. /\ DOMAIN front = 1 .. Len(order) - 1 /\ DOMAIN order = 1 .. Len(order)
          /\ Len(order) \in Nat \ {0}
      BY <1>1, <1>2, <2>2
    <3>2. \A i, j \in 1 .. Len(order) : order[i] = order[j] => i = j
      BY <1>2, <3>1 DEF OrderOK
    <3> HIDE DEF front, oldest
    <3>3. \A i \in DOMAIN front : front[i] \in keys \ {oldest}
      BY <1>2, <2>2, <3>1, <3>2 DEF OrderOK, oldest
    <3>4. ASSUME NEW k \in keys \ {oldest} PROVE \E i \in DOMAIN front : front[i] = k
      <4>1. PICK i \in 1 .. Len(order) : order[i] = k
        BY <1>2, <3>1 DEF OrderOK
      <4>2. i # Len(order)
        BY <4>1 DEF oldest
      <4> QED
        BY <2>2, <3>1, <4>1, <4>2
    <3>5. \A i, j \in DOMAIN front : front[i] = front[j] => i = j
      BY <2>2, <3>1, <3>2
    <3> QED
      BY <3>3, <3>4, <3>5 DEF OrderOK
  <2>4. kept \in EntriesOf(S, E) /\ DOMAIN kept = keys \ {oldest}
    <3>1. PICK K \in SUBSET S : entries \in [K -> E]
      BY <1>3 DEF EntriesOf
    <3>2. kept \in [K \ {oldest} -> E]
      BY <1>3, <3>1
    <3> QED
      BY <3>2, <3>1 DEF EntriesOf
  <2>5. PutEntries(kept, held.entries, key, entry)
    BY <1>1, <1>3 DEF PutEntries
  <2> QED
    BY <1>1, <1>2, <2>1, <2>2, <2>3, <2>4, <2>5 DEF CacheOK
<1> QED
  BY <1>1, <1>2, <1>4, <1>5

\* put keeps the list and the map in step and within the maximum, and changes
\* at most the entry of its key, never back to an earlier event.
LEMMA AfterPutOK ==
    ASSUME NEW S, NEW E, NEW max \in Nat \ {0}, NEW held, CacheOK(held, S, E, max),
           NEW key \in S, NEW entry \in E
    PROVE  /\ CacheOK(AfterPut(held, key, entry, max), S, E, max)
           /\ PutEntries(AfterPut(held, key, entry, max).entries, held.entries, key, entry)
BY ReplaceOK, InsertOK DEF AfterPut

-----------------------------------------------------------------------------
(***************************************************************************)
(* The stores and their callers.                                           *)
(***************************************************************************)
\* new is log with events stored behind it.
Extends(new, lg) ==
    /\ Len(lg) <= Len(new)
    /\ \A e \in DOMAIN lg : new[e] = lg[e]

(***************************************************************************)
(* What the arguments of a call in progress are.                           *)
(***************************************************************************)
ReadsState(r) == r.kind \in {"Execute", "Load"} /\ r.subject \in Subjects /\ r.def \in Defs

CallOK(c, r) ==
    /\ r.pc \in {"fold", "read", "put", "folded"} => ReadsState(r)
    /\ r.pc \in {"write", "sent"} =>
          /\ r.kind \in {"Execute", "Write"}
          /\ r.events # <<>>
    /\ r.kind = "Execute" => ReadsState(r) /\ checkPreconditions(r.declared) = "none"
    /\ r.kind = "Write" => writePreconditions(r.declared) = "none" /\ r.attempt = 0
    /\ r.pc = "put" => r.last # NoEvent /\ MaxSubjects[StoreOf[c]] # 0

CallsOK == \A c \in Callers : CallOK(c, run[c])

CachesOK == \A st \in Stores : CacheOK(cache[st], Keys, Entry, MaxSubjects[st])

Cache == [entries : UNION {[K -> Entry] : K \in SUBSET Keys}, order : Seq(Keys)]

\* TypeOK, with the state caches as members of a set.
Typed ==
    /\ log \in Seq(StoredEvent)
    /\ requests \subseteq Request
    /\ cache \in [Stores -> Cache]
    /\ calls \in Nat
    /\ run \in [Callers -> Run]

TypeInv == Typed /\ CallsOK /\ CachesOK

LEMMA ReturnedOK ==
    ASSUME NEW c \in Callers, NEW id \in Nat, NEW result \in Results
    PROVE  Returned(id, result) \in Run /\ CallOK(c, Returned(id, result))
BY DEF Returned, Run, Results, None, NoEvent, NoReply, Reply, Phases, CallOK, ReadsState

\* What the checks of a declaration tell, and what it means to pass them.
LEMMA CheckedPreconditions ==
    ASSUME NEW declared
    PROVE  /\ checkPreconditions(declared) \in {"none", "permanent", "notARevision"}
           /\ writePreconditions(declared) \in {"none", "permanent", "notARevision"}
           /\ checkPreconditions(declared) = "none" =>
                /\ declared # <<>>
                /\ \A i \in DOMAIN declared :
                      /\ declared[i].kind \notin {"malformed", "notARevision"}
                      /\ declared[i].kind = "unconditionally" => Len(declared) = 1
           /\ writePreconditions(declared) = "none" =>
                checkPreconditions(declared) = "none" /\ ~DeclaresOnStateRead(declared)
BY DEF checkPreconditions, writePreconditions, IsHonored, checkEventIDs

LEMMA DatabasePreconditionsType ==
    ASSUME NEW declared \in Seq(DeclaredPrecondition), checkPreconditions(declared) = "none"
    PROVE  /\ databasePreconditions(declared) \in Seq(DeclaredPrecondition)
           /\ DOMAIN databasePreconditions(declared) \subseteq DOMAIN declared
           /\ \A i \in DOMAIN databasePreconditions(declared) :
                /\ databasePreconditions(declared)[i] = declared[i]
                /\ \/ IsOnStateRead(declared[i])
                   \/ declared[i] \in DatabasePrecondition
BY CheckedPreconditions
   DEF databasePreconditions, DeclaredPrecondition, IsOnStateRead, DatabasePrecondition

LEMMA ResolvedType ==
    ASSUME NEW declared \in Seq(DeclaredPrecondition), checkPreconditions(declared) = "none",
           NEW s \in Subjects, NEW l \in Nat
    PROVE  resolvePreconditions(s, declared, l) \in Seq(DatabasePrecondition)
<1>1. onStateRead(s, l) \in DatabasePrecondition
  BY DEF onStateRead, DatabasePrecondition, NoEvent
<1>2. PICK n \in Nat : DOMAIN databasePreconditions(declared) = 1 .. n
  BY DatabasePreconditionsType
<1> QED
  BY <1>1, <1>2, DatabasePreconditionsType DEF resolvePreconditions

LEMMA WriteResolvedType ==
    ASSUME NEW declared \in Seq(DeclaredPrecondition), writePreconditions(declared) = "none"
    PROVE  databasePreconditions(declared) \in Seq(DatabasePrecondition)
BY CheckedPreconditions, DatabasePreconditionsType DEF DeclaresOnStateRead, IsOnStateRead


-----------------------------------------------------------------------------
(***************************************************************************)
(* Type correctness.  A step of caller c changes run[c] alone; what it     *)
(* becomes is in Run and CallOK.                                           *)
(***************************************************************************)
LEMMA RunStep ==
    ASSUME Typed, CallsOK, NEW c \in Callers, NEW r \in Run, CallOK(c, r),
           run' = [run EXCEPT ![c] = r]
    PROVE  run' \in [Callers -> Run] /\ CallsOK'
BY DEF Typed, CallsOK

LEMMA ReturnStep ==
    ASSUME Typed, CallsOK, NEW c \in Callers, NEW result \in Results, Return(c, result)
    PROVE  run' \in [Callers -> Run] /\ CallsOK'
<1>1. run[c].id \in Nat
  BY DEF Typed, Run
<1>2. Returned(run[c].id, result) \in Run /\ CallOK(c, Returned(run[c].id, result))
  BY <1>1, ReturnedOK
<1> QED
  BY <1>2, RunStep DEF Return

LEMMA KeyType ==
    ASSUME Typed, CallsOK, NEW c \in Callers,
           run[c].pc \in {"fold", "read", "put", "folded"}
    PROVE  KeyOf(c) \in Keys
BY ConstantsAssumption DEF KeyOf, Key, Keys, CallsOK, CallOK, ReadsState

LEMMA TypeInit == Init => TypeInv
<1> SUFFICES ASSUME Init PROVE TypeInv
  OBVIOUS
<1>1. Returned(0, "none") \in Run
  BY DEF Returned, Run, Results, None, NoEvent, NoReply, Reply, Phases
<1>2. run \in [Callers -> Run]
  BY <1>1 DEF Init, Run, Phases
<1>3. CallsOK
  BY DEF Init, CallsOK, CallOK, Returned, None
<1>4. newStateCache \in Cache /\ newStateCache.order = <<>>
      /\ DOMAIN newStateCache.entries = {}
  <2>1. [k \in {} |-> k] \in [{} -> Entry]
    OBVIOUS
  <2> QED
    BY <2>1 DEF newStateCache, Cache
<1>5. CachesOK
  BY <1>4, ConstantsAssumption DEF Init, CachesOK, CacheOK, Cache, EntriesOf, OrderOK
<1> QED
  BY <1>2, <1>3, <1>4, <1>5 DEF Init, TypeInv, Typed

LEMMA BeginStep ==
    ASSUME TypeInv, NEW c \in Callers, NEW kind \in {"Execute", "Load", "Write"},
           NEW s \in Subjects \cup {None}, NEW d \in Defs \cup {None},
           NEW declared \in Seq(DeclaredPrecondition), NEW events \in Seq(Candidate),
           NEW phase \in {"fold", "write"}, NEW result \in Results,
           Begin(c, kind, s, d, declared, events, phase, result),
           result = "none" =>
              /\ phase = "fold" => kind \in {"Execute", "Load"} /\ s \in Subjects /\ d \in Defs
              /\ phase = "write" => kind = "Write" /\ events # <<>>
              /\ kind = "Execute" => checkPreconditions(declared) = "none" /\ phase = "fold"
              /\ kind = "Write" => writePreconditions(declared) = "none"
    PROVE  TypeInv'
<1> DEFINE r == [Returned(calls + 1, "none") EXCEPT
                   !.pc = phase, !.kind = kind, !.subject = s, !.def = d,
                   !.declared = declared, !.events = events]
<1>1. calls \in Nat /\ calls + 1 \in Nat
  BY DEF TypeInv, Typed
<1>2. Returned(calls + 1, "none") \in Run /\ Returned(calls + 1, result) \in Run
      /\ CallOK(c, Returned(calls + 1, result))
  BY <1>1, ReturnedOK DEF Results
<1>3. r \in Run
  BY <1>2 DEF Run, Phases
<1>4. result = "none" => CallOK(c, r)
  BY DEF CallOK, ReadsState, Returned
<1>5. \/ result # "none" /\ run' = [run EXCEPT ![c] = Returned(calls + 1, result)]
      \/ result = "none" /\ run' = [run EXCEPT ![c] = r]
  BY DEF Begin
<1> HIDE DEF r
<1>6. run' \in [Callers -> Run] /\ CallsOK'
  BY <1>2, <1>3, <1>4, <1>5, RunStep DEF TypeInv
<1> QED
  BY <1>1, <1>6 DEF Begin, TypeInv, Typed, CachesOK

LEMMA StartType ==
    ASSUME TypeInv, NEW c \in Callers, Start(c)
    PROVE  TypeInv'
<1> USE DEF Results
<1>1. ASSUME NEW s \in Subjects, NEW d \in DecidedOn, NEW declared \in Declarations,
             StartExecute(c, s, d, declared)
      PROVE  TypeInv'
  <2>1. declared \in Seq(DeclaredPrecondition) /\ d \in Defs /\ <<>> \in Seq(Candidate)
    BY ConstantsAssumption
  <2>2. checkPreconditions(declared) \in Results
    BY CheckedPreconditions
  <2> QED
    BY <1>1, <2>1, <2>2, BeginStep DEF StartExecute
<1>2. ASSUME NEW s \in Subjects, NEW d \in Defs, StartLoad(c, s, d)
      PROVE  TypeInv'
  <2>1. <<>> \in Seq(DeclaredPrecondition) /\ <<>> \in Seq(Candidate)
    OBVIOUS
  <2> QED
    BY <1>2, <2>1, BeginStep DEF StartLoad
<1>3. ASSUME NEW events \in Writes, NEW declared \in Declarations,
             StartWrite(c, events, declared)
      PROVE  TypeInv'
  <2>1. declared \in Seq(DeclaredPrecondition) /\ events \in Seq(Candidate)
    BY ConstantsAssumption
  <2>2. PICK result \in Results :
          /\ Begin(c, "Write", None, None, declared, events, "write", result)
          /\ result = "none" => writePreconditions(declared) = "none" /\ events # <<>>
    BY <1>3, CheckedPreconditions DEF StartWrite
  <2> QED
    BY <2>1, <2>2, BeginStep
<1> QED
  BY <1>1, <1>2, <1>3 DEF Start

LEMMA FoldType ==
    ASSUME TypeInv, NEW c \in Callers, Fold(c)
    PROVE  TypeInv'
<1> USE DEF TypeInv
<1>0. /\ run[c] \in Run /\ CallOK(c, run[c]) /\ StoreOf[c] \in Stores
      /\ MaxSubjects[StoreOf[c]] \in Nat /\ Len(log) \in Nat
      /\ CacheOK(cache[StoreOf[c]], Keys, Entry, MaxSubjects[StoreOf[c]])
  BY ConstantsAssumption DEF Typed, CallsOK, CachesOK
<1>1. CASE FoldGet(c)
  <2>1. KeyOf(c) \in Keys
    BY <1>1, KeyType DEF FoldGet
  <2>2. CacheOK(AfterGet(cache[StoreOf[c]], KeyOf(c)), Keys, Entry, MaxSubjects[StoreOf[c]])
    BY <1>0, <2>1, AfterGetOK
  <2>3. cache' \in [Stores -> Cache] /\ CachesOK'
    BY <1>0, <1>1, <2>2 DEF FoldGet, Typed, CachesOK, CacheOK, Cache, EntriesOf
  <2>4. CASE IsOtherShape(c)
    BY <1>1, <2>3, <2>4, ReturnStep DEF FoldGet, Results, Typed
  <2>5. CASE ~IsOtherShape(c)
    <3> DEFINE st == IF IsHit(c) THEN CachedEntry(c).state ELSE <<>>
               rl == IF IsHit(c) THEN CachedEntry(c).rules ELSE {run[c].def}
               l == IF IsHit(c) THEN CachedEntry(c).lastEventID ELSE NoEvent
               r == [run[c] EXCEPT !.pc = "read", !.state = st, !.rules = rl,
                                   !.last = l, !.reach = Len(log)]
    <3>1. IsHit(c) => CachedEntry(c) \in Entry
      BY <1>0 DEF IsHit, IsCached, CachedEntry, CacheOf, CacheOK, EntriesOf
    <3>2. st \in Seq(Nat) /\ l \in Nat /\ rl \in SUBSET Defs
      BY <1>0, <1>1, <3>1 DEF Entry, NoEvent, FoldGet, CallOK, ReadsState
    <3>3. r \in Run
      BY <1>0, <3>2 DEF Run, Phases
    <3>4. CallOK(c, r)
      BY <1>0, <1>1 DEF FoldGet, CallOK, ReadsState, Run
    <3>5. run' = [run EXCEPT ![c] = r]
      BY <1>1, <2>5 DEF FoldGet
    <3> HIDE DEF r
    <3>6. run' \in [Callers -> Run] /\ CallsOK'
      BY <3>3, <3>4, <3>5, RunStep
    <3> QED
      BY <1>1, <2>3, <3>6 DEF FoldGet, Typed
  <2> QED
    BY <2>4, <2>5
<1>2. CASE CopyFails(c)
  BY <1>2, ReturnStep DEF CopyFails, Results, Typed, CachesOK
<1>3. CASE ReadEvent(c)
  <2>1. PICK e \in DOMAIN log :
          run' = [run EXCEPT ![c].state = Evolved(@, e), ![c].last = e,
                             ![c].rules = EvolvedBy(@, run[c].def, e)]
    BY <1>3 DEF ReadEvent
  <2> DEFINE rl == EvolvedBy(run[c].rules, run[c].def, e)
             r == [run[c] EXCEPT !.state = Evolved(@, e), !.last = e, !.rules = rl]
  <2>2. e \in Nat
    BY DEF Typed
  <2>3. Evolved(run[c].state, e) \in Seq(Nat) /\ rl \in SUBSET Defs
    BY <1>0, <1>3, <2>2 DEF Evolved, EvolvedBy, Run, ReadEvent, CallOK, ReadsState
  <2>4. r \in Run
    BY <1>0, <2>2, <2>3 DEF Run
  <2>5. CallOK(c, r)
    BY <1>0, <1>3 DEF ReadEvent, CallOK, ReadsState, Run
  <2>6. run' = [run EXCEPT ![c] = r]
    BY <2>1
  <2> HIDE DEF r
  <2>7. run' \in [Callers -> Run] /\ CallsOK'
    BY <2>4, <2>5, <2>6, RunStep
  <2> QED
    BY <1>3, <2>7 DEF ReadEvent, Typed, CachesOK
<1>4. CASE ReadRefuses(c)
  BY <1>4, ReturnStep DEF ReadRefuses, Results, Typed, CachesOK
<1>5. CASE ReadFails(c)
  <2>1. PICK result \in Results : Return(c, result)
    BY <1>5 DEF ReadFails, Results
  <2> QED
    BY <1>5, <2>1, ReturnStep DEF ReadFails, Typed, CachesOK
<1>6. CASE ReadEnds(c)
  <2> DEFINE phase == IF UsesCache(c) /\ run[c].last # NoEvent THEN "put" ELSE "folded"
             r == [run[c] EXCEPT !.pc = phase]
  <2>1. r \in Run
    BY <1>0 DEF Run, Phases
  <2>2. CallOK(c, r)
    BY <1>0, <1>6 DEF ReadEnds, CallOK, ReadsState, Run, UsesCache
  <2>3. run' = [run EXCEPT ![c] = r]
    BY <1>6 DEF ReadEnds
  <2> HIDE DEF r
  <2>4. run' \in [Callers -> Run] /\ CallsOK'
    BY <2>1, <2>2, <2>3, RunStep
  <2> QED
    BY <1>6, <2>4 DEF ReadEnds, Typed, CachesOK
<1>7. CASE CachePut(c)
  <2>1. KeyOf(c) \in Keys
    BY <1>7, KeyType DEF CachePut
  <2>2. EntryOf(c) \in Entry /\ MaxSubjects[StoreOf[c]] # 0
    BY <1>0, <1>7 DEF CachePut, EntryOf, Entry, Run, CallOK, ReadsState
  <2>3. CacheOK(AfterPut(cache[StoreOf[c]], KeyOf(c), EntryOf(c), MaxSubjects[StoreOf[c]]),
                Keys, Entry, MaxSubjects[StoreOf[c]])
    BY <1>0, <2>1, <2>2, AfterPutOK
  <2>4. cache' \in [Stores -> Cache] /\ CachesOK'
    BY <1>0, <1>7, <2>3 DEF CachePut, Typed, CachesOK, CacheOK, Cache, EntriesOf
  <2> DEFINE r == [run[c] EXCEPT !.pc = "folded"]
  <2>5. r \in Run
    BY <1>0 DEF Run, Phases
  <2>6. CallOK(c, r)
    BY <1>0, <1>7 DEF CachePut, CallOK, ReadsState, Run
  <2>7. run' = [run EXCEPT ![c] = r]
    BY <1>7 DEF CachePut
  <2> HIDE DEF r
  <2>8. run' \in [Callers -> Run] /\ CallsOK'
    BY <2>5, <2>6, <2>7, RunStep
  <2> QED
    BY <1>7, <2>4, <2>8 DEF CachePut, Typed
<1> QED
  BY <1>1, <1>2, <1>3, <1>4, <1>5, <1>6, <1>7 DEF Fold

LEMMA RequestType ==
    ASSUME TypeInv, NEW c \in Callers, run[c].pc \in {"write", "sent"}
    PROVE  RequestOf(c) \in Request
<1>0. run[c] \in Run /\ CallOK(c, run[c])
  BY DEF TypeInv, Typed, CallsOK
<1>1. run[c].declared \in Seq(DeclaredPrecondition) /\ run[c].last \in Nat
  BY <1>0 DEF Run
<1> DEFINE preconditions == IF run[c].kind = "Execute"
              THEN resolvePreconditions(run[c].subject, run[c].declared, run[c].last)
              ELSE databasePreconditions(run[c].declared)
<1>2. CASE run[c].kind = "Execute"
  <2>1. run[c].subject \in Subjects /\ checkPreconditions(run[c].declared) = "none"
    BY <1>0, <1>2 DEF CallOK, ReadsState
  <2>2. preconditions \in Seq(DatabasePrecondition)
    BY <1>1, <1>2, <2>1, ResolvedType
  <2> QED
    BY <1>0, <2>2 DEF RequestOf, Request, Run, DeclaresOnStateRead
<1>3. CASE run[c].kind = "Write"
  <2>1. writePreconditions(run[c].declared) = "none"
    BY <1>0, <1>3 DEF CallOK
  <2>2. preconditions \in Seq(DatabasePrecondition)
    BY <1>1, <1>3, <2>1, WriteResolvedType
  <2> QED
    BY <1>0, <2>2 DEF RequestOf, Request, Run, DeclaresOnStateRead
<1> QED
  BY <1>0, <1>2, <1>3 DEF CallOK

LEMMA FinishType ==
    ASSUME TypeInv, NEW c \in Callers, Finish(c)
    PROVE  TypeInv'
<1> USE DEF TypeInv
<1>0. run[c] \in Run /\ CallOK(c, run[c])
  BY DEF Typed, CallsOK
<1>1. CASE LoadReturns(c)
  BY <1>1, ReturnStep DEF LoadReturns, Results, Typed, CachesOK
<1>2. CASE Decide(c)
  <2>1. ASSUME NEW result \in Results, Return(c, result)
        PROVE  run' \in [Callers -> Run] /\ CallsOK'
    BY <2>1, ReturnStep
  <2>2. ASSUME run' = [run EXCEPT ![c].pc = "fold", ![c].attempt = @ + 1]
        PROVE  run' \in [Callers -> Run] /\ CallsOK'
    <3> DEFINE r == [run[c] EXCEPT !.pc = "fold", !.attempt = @ + 1]
    <3>0. run[c].attempt + 1 \in Nat
      BY <1>0 DEF Run
    <3>1. r \in Run
      BY <1>0, <3>0 DEF Run, Phases
    <3>2. CallOK(c, r)
      BY <1>0, <1>2 DEF Decide, CallOK, ReadsState, Run
    <3>3. run' = [run EXCEPT ![c] = r]
      BY <2>2
    <3> HIDE DEF r
    <3> QED
      BY <3>1, <3>2, <3>3, RunStep
  <2>3. ASSUME NEW types \in Decisions,
               run' = [run EXCEPT
                  ![c].pc = "write",
                  ![c].events = [i \in DOMAIN types |->
                      [subject |-> run[c].subject, type |-> types[i]]]]
        PROVE  run' \in [Callers -> Run] /\ CallsOK'
    <3> DEFINE events == [i \in DOMAIN types |->
                            [subject |-> run[c].subject, type |-> types[i]]]
               r == [run[c] EXCEPT !.pc = "write", !.events = events]
    <3>1. types \in Seq(EventTypes) /\ types # <<>> /\ run[c].subject \in Subjects
      BY <1>0, <1>2, ConstantsAssumption DEF Decide, CallOK, ReadsState
    <3>2. events \in Seq(Candidate) /\ events # <<>>
      <4>1. /\ Len(types) \in Nat \ {0} /\ DOMAIN types = 1 .. Len(types)
            /\ \A i \in 1 .. Len(types) : types[i] \in EventTypes
        BY <3>1
      <4>2. events \in [1 .. Len(types) -> Candidate]
        BY <3>1, <4>1 DEF Candidate
      <4> HIDE DEF events
      <4> QED
        BY <4>1, <4>2
    <3>3. r \in Run
      BY <1>0, <3>2 DEF Run, Phases
    <3>4. CallOK(c, r)
      BY <1>0, <1>2, <3>2 DEF Decide, CallOK, ReadsState, Run
    <3>5. run' = [run EXCEPT ![c] = r]
      BY <2>3
    <3> HIDE DEF r
    <3> QED
      BY <3>3, <3>4, <3>5, RunStep
  <2> QED
    BY <1>2, <2>1, <2>2, <2>3 DEF Decide, Results, Typed, CachesOK
<1>3. CASE BeginWrite(c)
  <2>1. CASE run[c].ended
    BY <1>3, <2>1, ReturnStep DEF BeginWrite, Results, Typed, CachesOK
  <2>2. CASE ~run[c].ended
    <3> DEFINE r == [run[c] EXCEPT !.pc = "sent", !.reply = NoReply]
    <3>1. r \in Run
      BY <1>0 DEF Run, Phases, NoReply, Reply
    <3>2. CallOK(c, r)
      BY <1>0, <1>3 DEF BeginWrite, CallOK, ReadsState, Run
    <3>3. run' = [run EXCEPT ![c] = r]
      BY <1>3, <2>2 DEF BeginWrite
    <3>4. RequestOf(c) \in Request
      BY <1>3, RequestType DEF BeginWrite
    <3> HIDE DEF r
    <3>5. run' \in [Callers -> Run] /\ CallsOK'
      BY <3>1, <3>2, <3>3, RunStep
    <3> QED
      BY <1>3, <2>2, <3>4, <3>5 DEF BeginWrite, Typed, CachesOK
  <2> QED
    BY <2>1, <2>2
<1>4. CASE WriteSucceeds(c)
  BY <1>4, ReturnStep DEF WriteSucceeds, Results, Typed, CachesOK
<1>5. CASE WriteRefused(c)
  <2>1. PICK result \in Results : Return(c, result)
    BY <1>5 DEF WriteRefused, Results
  <2> QED
    BY <1>5, <2>1, ReturnStep DEF WriteRefused, Typed, CachesOK
<1>6. CASE WriteUnknown(c)
  BY <1>6, ReturnStep DEF WriteUnknown, Results, Typed, CachesOK
<1>7. CASE WriteConflicts(c)
  <2> DEFINE refuted == IF IsOnStateRead(ViolatedPrecondition(c))
                        THEN run[c].refuted \cup {run[c].last} ELSE run[c].refuted
             r == [run[c] EXCEPT !.pc = "fold", !.attempt = @ + 1, !.events = <<>>,
                                 !.refuted = refuted]
  <2>1. CASE Return(c, "conflict")
    BY <1>7, <2>1, ReturnStep DEF WriteConflicts, Results, Typed, CachesOK
  <2>2. CASE run' = [run EXCEPT ![c] = r] /\ \E isNamed \in BOOLEAN : DecidesAgain(c, isNamed)
    <3>1. refuted \in SUBSET Nat
      BY <1>0 DEF Run
    <3>2. r \in Run
      <4>1. run[c].attempt + 1 \in Nat /\ <<>> \in Seq(Candidate)
        BY <1>0 DEF Run
      <4> HIDE DEF refuted
      <4> QED
        BY <1>0, <3>1, <4>1 DEF Run, Phases
    <3>3. run[c].kind = "Execute"
      <4>1. run[c].kind \in {"Execute", "Write"}
        BY <1>0, <1>7 DEF WriteConflicts, CallOK
      <4>2. run[c].kind = "Write" => run[c].attempt = 0 /\ Retries(c) = 0
        BY <1>0, CheckedPreconditions DEF CallOK, Retries
      <4> QED
        BY <2>2, <4>1, <4>2 DEF DecidesAgain, MayDecideAgain
    <3>4. CallOK(c, r)
      BY <1>0, <1>7, <3>3 DEF WriteConflicts, CallOK, ReadsState, Run
    <3> HIDE DEF r
    <3>5. run' \in [Callers -> Run] /\ CallsOK'
      BY <2>2, <3>2, <3>4, RunStep
    <3> QED
      BY <1>7, <3>5 DEF WriteConflicts, Typed, CachesOK
  <2> QED
    BY <1>7, <2>1, <2>2 DEF WriteConflicts
<1> QED
  BY <1>1, <1>2, <1>3, <1>4, <1>5, <1>6, <1>7 DEF Finish

LEMMA EndContextType ==
    ASSUME TypeInv, NEW c \in Callers, EndContext(c)
    PROVE  TypeInv'
<1> DEFINE r == [run[c] EXCEPT !.ended = TRUE]
<1>0. run[c] \in Run /\ CallOK(c, run[c])
  BY DEF TypeInv, Typed, CallsOK
<1>1. r \in Run
  BY <1>0 DEF Run
<1>2. CallOK(c, r)
  BY <1>0 DEF CallOK, ReadsState, Run
<1>3. run' = [run EXCEPT ![c] = r]
  BY DEF EndContext
<1> HIDE DEF r
<1>4. run' \in [Callers -> Run] /\ CallsOK'
  BY <1>1, <1>2, <1>3, RunStep DEF TypeInv
<1> QED
  BY <1>4 DEF EndContext, TypeInv, Typed, CachesOK

LEMMA StoredType ==
    ASSUME TypeInv, NEW q \in requests
    PROVE  /\ Stored(q) \in Seq(StoredEvent)
           /\ Len(Stored(q)) = Len(q.events)
           /\ log \o Stored(q) \in Seq(StoredEvent)
           /\ Extends(log \o Stored(q), log)
<1>1. q \in Request /\ log \in Seq(StoredEvent)
  BY DEF TypeInv, Typed
<1>2. Stored(q) \in Seq(StoredEvent) /\ Len(Stored(q)) = Len(q.events)
  <2>1. /\ Len(q.events) \in Nat /\ DOMAIN q.events = 1 .. Len(q.events)
        /\ \A i \in 1 .. Len(q.events) : q.events[i] \in Candidate
        /\ Len(log) + 1 \in Nat
    BY <1>1 DEF Request
  <2>2. Stored(q) \in [1 .. Len(q.events) -> StoredEvent]
    BY <1>1, <2>1 DEF Stored, StoredEvent, Request, Candidate
  <2> QED
    BY <2>1, <2>2
<1> QED
  BY <1>1, <1>2 DEF Extends

LEMMA AnsweredType ==
    ASSUME TypeInv, NEW q \in requests, NEW kind \in {"stored", "violated"},
           NEW index \in Nat, run' = Answered(q, kind, index)
    PROVE  run' \in [Callers -> Run] /\ CallsOK'
<1> SUFFICES ASSUME NEW c \in Callers
             PROVE  run'[c] \in Run /\ CallOK(c, run'[c])
  BY DEF CallsOK, Answered
<1>0. run[c] \in Run /\ CallOK(c, run[c])
  BY DEF TypeInv, Typed, CallsOK
<1> DEFINE r == [run[c] EXCEPT !.reply = [kind |-> kind, index |-> index]]
<1>1. r \in Run
  BY <1>0 DEF Run, Reply
<1>2. CallOK(c, r)
  BY <1>0 DEF CallOK, ReadsState, Run
<1>3. run'[c] = r \/ run'[c] = run[c]
  BY DEF Answered
<1> QED
  BY <1>0, <1>1, <1>2, <1>3

LEMMA HandleWriteType ==
    ASSUME TypeInv, NEW q \in requests, HandleWrite(q)
    PROVE  TypeInv'
<1>1. PICK index \in Nat, kind \in {"stored", "violated"} : run' = Answered(q, kind, index)
  <2>1. q.preconditions \in Seq(DatabasePrecondition)
    BY DEF TypeInv, Typed, Request
  <2> QED
    BY <2>1 DEF HandleWrite, ViolatedOf
<1>2. run' \in [Callers -> Run] /\ CallsOK'
  BY <1>1, AnsweredType
<1>3. log' \in Seq(StoredEvent)
  BY StoredType DEF HandleWrite, TypeInv, Typed
<1> QED
  BY <1>2, <1>3 DEF HandleWrite, TypeInv, Typed, CachesOK

LEMMA TypeStep == TypeInv /\ [Next]_vars => TypeInv'
<1> SUFFICES ASSUME TypeInv, [Next]_vars PROVE TypeInv'
  OBVIOUS
<1>1. CASE UNCHANGED vars
  BY <1>1 DEF vars, TypeInv, Typed, CallsOK, CachesOK
<1>2. CASE Next
  BY <1>2, StartType, FoldType, FinishType, EndContextType, HandleWriteType DEF Next
<1> QED
  BY <1>1, <1>2

\* Every variable keeps its type: above all, only preconditions the database
\* can check are ever sent (resolvePreconditions, checkPreconditions).
THEOREM TypeCorrect == Spec => []TypeOK
<1>1. TypeInv => TypeOK
  BY DEF TypeInv, Typed, TypeOK, IsCache, Cache
<1> QED
  BY <1>1, TypeInit, TypeStep, PTL DEF Spec

\* The list and the map of every state cache hold the same keys, each once,
\* and never more than the store allows, for every maximum and every order of
\* gets and puts (stateCache.get, stateCache.put).
THEOREM CachesStayConsistent == Spec => []CacheConsistent
<1>1. TypeInv => CacheConsistent
  BY DEF TypeInv, CachesOK, CacheOK, OrderOK, CacheConsistent
<1> QED
  BY <1>1, TypeInit, TypeStep, PTL DEF Spec

\* A put never replaces a cached state by one built from fewer events, and a
\* get changes none, for every order in which concurrent folds come to put
\* (stateCache.put compares the revisions).
THEOREM CachesNeverGoBack == Spec => CacheNeverGoesBack
<1>1. TypeInv /\ [Next]_vars =>
        [\A st \in Stores :
           \A k \in DOMAIN cache[st].entries \cap DOMAIN cache'[st].entries :
              cache'[st].entries[k].lastEventID >= cache[st].entries[k].lastEventID]_cache
  <2> SUFFICES ASSUME TypeInv, [Next]_vars, cache' # cache, NEW st \in Stores,
                      NEW k \in DOMAIN cache[st].entries \cap DOMAIN cache'[st].entries
               PROVE  cache'[st].entries[k].lastEventID >= cache[st].entries[k].lastEventID
    OBVIOUS
  <2>0. /\ cache \in [Stores -> Cache]
        /\ \A s \in Stores : CacheOK(cache[s], Keys, Entry, MaxSubjects[s])
        /\ cache[st].entries[k].lastEventID \in Nat
    <3>1. cache \in [Stores -> Cache] /\ CachesOK
      BY DEF TypeInv, Typed
    <3>2. cache[st].entries[k] \in Entry
      BY <3>1 DEF CachesOK, CacheOK, EntriesOf
    <3> QED
      BY <3>1, <3>2 DEF CachesOK, Entry
  <2>1. PICK c \in Callers : FoldGet(c) \/ CachePut(c)
    BY DEF Next, vars, Start, StartExecute, StartLoad, StartWrite, Begin, EndContext, Fold,
       CopyFails, ReadEvent, ReadRefuses, ReadFails, ReadEnds, Finish, LoadReturns, Decide,
       BeginWrite, WriteSucceeds, WriteRefused, WriteUnknown, WriteConflicts, HandleWrite
  <2>2. /\ StoreOf[c] \in Stores /\ MaxSubjects[StoreOf[c]] \in Nat
        /\ run[c] \in Run /\ CallOK(c, run[c]) /\ KeyOf(c) \in Keys
    BY <2>1, ConstantsAssumption, KeyType DEF TypeInv, Typed, CallsOK, FoldGet, CachePut
  <2>3. CASE FoldGet(c)
    <3>1. AfterGet(cache[StoreOf[c]], KeyOf(c)).entries = cache[StoreOf[c]].entries
      <4>1. CacheOK(cache[StoreOf[c]], Keys, Entry, MaxSubjects[StoreOf[c]])
        BY <2>0, <2>2
      <4> QED
        BY <4>1 DEF AfterGet, CacheOK
    <3>2. cache'[st].entries = cache[st].entries
      BY <2>0, <2>3, <3>1 DEF FoldGet
    <3> QED
      BY <2>0, <3>2
  <2>4. CASE CachePut(c)
    <3> DEFINE s == StoreOf[c]
               new == AfterPut(cache[s], KeyOf(c), EntryOf(c), MaxSubjects[s])
    <3>1. EntryOf(c) \in Entry /\ MaxSubjects[s] # 0
      BY <2>2, <2>4 DEF CachePut, EntryOf, Entry, Run, CallOK, ReadsState
    <3>2. PutEntries(new.entries, cache[s].entries, KeyOf(c), EntryOf(c))
      BY <2>0, <2>2, <3>1, AfterPutOK
    <3>3. cache' = [cache EXCEPT ![s] = new]
      BY <2>4 DEF CachePut
    <3> HIDE DEF new, s
    <3>4. CASE st = s
      BY <2>0, <3>2, <3>3, <3>4 DEF PutEntries
    <3>5. CASE st # s
      BY <2>0, <3>3, <3>5
    <3> QED
      BY <3>4, <3>5
  <2> QED
    BY <2>1, <2>3, <2>4
<1> QED
  BY <1>1, TypeInit, TypeStep, PTL DEF Spec, CacheNeverGoesBack

-----------------------------------------------------------------------------
(***************************************************************************)
(* Store implements SerialStore.  The inductive invariant has three parts: *)
(* types (TypeInv), histories (what was folded, is cached, or was sent is  *)
(* the history of its subject up to the event it claims), and outcomes     *)
(* (which calls are stored, on their way, or neither, by where they are).  *)
(***************************************************************************)

(***************************************************************************)
(* Lemmas about the history of a subject, for every log.                   *)
(***************************************************************************)
\* Events stored later do not change the history up to an earlier event.
LEMMA HistoryKept ==
    ASSUME NEW R, NEW lg \in Seq(R), NEW new \in Seq(R), Extends(new, lg),
           NEW s, NEW n \in 0 .. Len(lg), NEW st, IsHistory(st, lg, s, n)
    PROVE  IsHistory(st, new, s, n)
<1>1. \A e \in 1 .. Len(lg) : /\ On(new, s, e) <=> On(lg, s, e)
                              /\ FullOn(new, s, e) <=> FullOn(lg, s, e)
  BY DEF Extends, On, FullOn
<1>2. Relevant(new, s, n) = Relevant(lg, s, n)
  BY <1>1 DEF Relevant
<1> QED
  BY <1>2 DEF IsHistory

\* Folding the event that follows yields the history up to that event.
LEMMA HistoryGrows ==
    ASSUME NEW R, NEW lg \in Seq(R), NEW s, NEW l \in 0 .. Len(lg),
           NEW st \in Seq(Nat), IsHistory(st, lg, s, l),
           NEW e \in l+1 .. Len(lg), On(lg, s, e), ~FullOn(lg, s, e),
           \A f \in l+1 .. e-1 : ~On(lg, s, f)
    PROVE  IsHistory(Append(st, e), lg, s, e)
<1> DEFINE new == Append(st, e)
<1>1. /\ Len(st) \in Nat /\ DOMAIN st = 1 .. Len(st)
      /\ DOMAIN new = 1 .. Len(st) + 1
      /\ new[Len(st) + 1] = e
      /\ \A i \in 1 .. Len(st) : new[i] = st[i]
  OBVIOUS
<1>2. \A f \in 1 .. Len(lg) : FullOn(lg, s, f) => On(lg, s, f)
  BY DEF FullOn
<1>3. Relevant(lg, s, e) = Relevant(lg, s, l) \cup {e}
  <2>1. ASSUME NEW f \in Relevant(lg, s, e) PROVE f \in Relevant(lg, s, l) \cup {e}
    BY DEF Relevant
  <2>2. ASSUME NEW f \in Relevant(lg, s, l) PROVE f \in Relevant(lg, s, e)
    <3>1. f \in 1 .. l /\ On(lg, s, f) /\ \A g \in f+1 .. l : ~FullOn(lg, s, g)
      BY DEF Relevant
    <3>2. ASSUME NEW g \in f+1 .. e PROVE ~FullOn(lg, s, g)
      <4>1. CASE g \in f+1 .. l
        BY <3>1, <4>1
      <4>2. CASE g \in l+1 .. e-1
        BY <1>2, <4>2
      <4>3. CASE g = e
        BY <4>3
      <4> QED
        BY <3>1, <4>1, <4>2, <4>3
    <3> QED
      BY <3>1, <3>2 DEF Relevant
  <2>3. e \in Relevant(lg, s, e)
    BY DEF Relevant
  <2> QED
    BY <2>1, <2>2, <2>3
<1> HIDE DEF new
<1>4. \A i \in DOMAIN new : new[i] \in Relevant(lg, s, e)
  BY <1>1, <1>3 DEF IsHistory
<1>5. ASSUME NEW f \in Relevant(lg, s, e) PROVE \E i \in DOMAIN new : new[i] = f
  <2>1. CASE f = e
    BY <1>1, <2>1
  <2>2. CASE f \in Relevant(lg, s, l)
    <3>1. PICK i \in DOMAIN st : st[i] = f
      BY <2>2 DEF IsHistory
    <3> QED
      BY <1>1, <3>1
  <2> QED
    BY <1>3, <2>1, <2>2
<1>6. \A i, j \in DOMAIN new : i < j => new[i] < new[j]
  <2>1. \A i, j \in 1 .. Len(st) : i < j => st[i] < st[j]
    BY <1>1 DEF IsHistory
  <2>2. \A i \in 1 .. Len(st) : st[i] \in 1 .. l
    BY <1>1 DEF IsHistory, Relevant
  <2>3. ASSUME NEW i \in 1 .. Len(st) + 1, NEW j \in 1 .. Len(st) + 1, i < j
        PROVE  new[i] < new[j]
    <3>1. i \in 1 .. Len(st) /\ new[i] = st[i] /\ st[i] \in 1 .. l
      BY <1>1, <2>2, <2>3
    <3>2. CASE j = Len(st) + 1
      BY <1>1, <3>1, <3>2
    <3>3. CASE j \in 1 .. Len(st)
      BY <1>1, <2>1, <2>3, <3>1, <3>3
    <3> QED
      BY <1>1, <3>2, <3>3
  <2> QED
    BY <1>1, <2>3
<1>7. IsHistory(new, lg, s, e)
  BY <1>4, <1>5, <1>6 DEF IsHistory
<1> QED
  BY <1>7 DEF new

\* A "full" event is the whole history up to itself.
LEMMA HistoryStartsAnew ==
    ASSUME NEW R, NEW lg \in Seq(R), NEW s, NEW e \in 1 .. Len(lg), FullOn(lg, s, e)
    PROVE  IsHistory(<<e>>, lg, s, e)
<1>1. Relevant(lg, s, e) = {e}
  BY DEF Relevant, FullOn, On
<1>2. DOMAIN <<e>> = {1} /\ <<e>>[1] = e
  OBVIOUS
<1> QED
  BY <1>1, <1>2 DEF IsHistory

\* The history up to the latest event is the history of the whole log.
LEMMA HistoryIsCurrent ==
    ASSUME NEW R, NEW lg \in Seq(R), NEW s, NEW l \in 0 .. Len(lg),
           NEW st, IsHistory(st, lg, s, l),
           \A e \in l+1 .. Len(lg) : ~On(lg, s, e)
    PROVE  IsHistory(st, lg, s, Len(lg))
<1>1. \A e \in l+1 .. Len(lg) : ~FullOn(lg, s, e)
  BY DEF FullOn
<1>2. Relevant(lg, s, Len(lg)) = Relevant(lg, s, l)
  <2>1. ASSUME NEW e \in Relevant(lg, s, l) PROVE e \in Relevant(lg, s, Len(lg))
    <3>1. e \in 1 .. l /\ On(lg, s, e) /\ \A f \in e+1 .. l : ~FullOn(lg, s, f)
      BY DEF Relevant
    <3>2. \A f \in e+1 .. Len(lg) : ~FullOn(lg, s, f)
      BY <1>1, <3>1
    <3> QED
      BY <3>1, <3>2 DEF Relevant
  <2>2. ASSUME NEW e \in Relevant(lg, s, Len(lg)) PROVE e \in Relevant(lg, s, l)
    BY DEF Relevant
  <2> QED
    BY <2>1, <2>2
<1> QED
  BY <1>2 DEF IsHistory

-----------------------------------------------------------------------------
(***************************************************************************)
(* Histories: what calls fold, cache and send.                             *)
(***************************************************************************)

\* Whether a call holds a folded state.
Holding(r) == r.pc \in {"read", "put", "folded"}
              \/ (r.pc \in {"write", "sent"} /\ r.kind = "Execute")

FoldOK(lg, r) == Holding(r) =>
    /\ r.last \in 0 .. Len(lg)
    /\ r.last # NoEvent => On(lg, r.subject, r.last)
    /\ IsHistory(r.state, lg, r.subject, r.last)
    /\ r.rules = {r.def}
    /\ r.reach \in 0 .. Len(lg)
    /\ r.pc \in {"put", "folded"} =>
          \A e \in r.last+1 .. r.reach : ~On(lg, r.subject, e)
    /\ r.pc \in {"write", "sent"} =>
          \A i \in DOMAIN r.events : r.events[i].subject = r.subject

\* A guarded request was decided on the history of its only subject up to
\* some event, and has the database check that this event is still the last.
DecidedOK(lg, q) == q.guarded =>
    \E s \in Subjects, l \in 0 .. Len(lg) :
        /\ IsHistory(q.basis, lg, s, l)
        /\ \E i \in DOMAIN q.preconditions : q.preconditions[i] = onStateRead(s, l)
        /\ \A j \in DOMAIN q.events : q.events[j].subject = s

CachedOK(lg, k, entry) ==
    /\ k[1] = TypeOf[entry.shape]
    /\ On(lg, k[2], entry.lastEventID)
    /\ IsHistory(entry.state, lg, k[2], entry.lastEventID)
    /\ entry.rules = {entry.shape}

HistoryInv ==
    /\ \A c \in Callers : FoldOK(log, run[c])
    /\ \A q \in requests : DecidedOK(log, q)
    /\ \A st \in Stores : \A k \in DOMAIN cache[st].entries :
          CachedOK(log, k, cache[st].entries[k])

LEMMA HistoryInit == Init => HistoryInv
BY DEF Init, HistoryInv, FoldOK, Holding, Returned, newStateCache

LEMMA RunHistory ==
    ASSUME TypeInv, HistoryInv, NEW c \in Callers, NEW r, FoldOK(log, r),
           run' = [run EXCEPT ![c] = r], UNCHANGED log
    PROVE  \A d \in Callers : FoldOK(log', run'[d])
BY DEF TypeInv, Typed, HistoryInv

LEMMA ReturnHistory ==
    ASSUME TypeInv, HistoryInv, NEW c \in Callers, NEW result, Return(c, result),
           UNCHANGED log
    PROVE  \A d \in Callers : FoldOK(log', run'[d])
<1>1. FoldOK(log, Returned(run[c].id, result))
  BY DEF FoldOK, Holding, Returned
<1> QED
  BY <1>1, RunHistory DEF Return

LEMMA BeginHistory ==
    ASSUME TypeInv, HistoryInv, NEW c \in Callers, NEW kind, NEW s, NEW d, NEW declared,
           NEW events, NEW phase \in {"fold", "write"}, NEW result,
           phase = "write" => kind = "Write",
           Begin(c, kind, s, d, declared, events, phase, result)
    PROVE  HistoryInv'
<1> DEFINE r == [Returned(calls + 1, "none") EXCEPT
                   !.pc = phase, !.kind = kind, !.subject = s, !.def = d,
                   !.declared = declared, !.events = events]
<1>1. FoldOK(log, r) /\ FoldOK(log, Returned(calls + 1, result))
  BY DEF FoldOK, Holding, Returned
<1>2. \/ run' = [run EXCEPT ![c] = Returned(calls + 1, result)]
      \/ run' = [run EXCEPT ![c] = r]
  BY DEF Begin
<1> HIDE DEF r
<1>3. \A e \in Callers : FoldOK(log', run'[e])
  BY <1>1, <1>2, RunHistory DEF Begin
<1> QED
  BY <1>3 DEF Begin, HistoryInv

LEMMA StartHistory ==
    ASSUME TypeInv, HistoryInv, NEW c \in Callers, Start(c)
    PROVE  HistoryInv'
<1>1. ASSUME NEW s \in Subjects, NEW d \in DecidedOn, NEW declared \in Declarations,
             StartExecute(c, s, d, declared)
      PROVE  HistoryInv'
  BY <1>1, BeginHistory DEF StartExecute
<1>2. ASSUME NEW s \in Subjects, NEW d \in Defs, StartLoad(c, s, d)
      PROVE  HistoryInv'
  BY <1>2, BeginHistory DEF StartLoad
<1>3. ASSUME NEW events \in Writes, NEW declared \in Declarations,
             StartWrite(c, events, declared)
      PROVE  HistoryInv'
  BY <1>3, BeginHistory DEF StartWrite
<1> QED
  BY <1>1, <1>2, <1>3 DEF Start

LEMMA ReadHistory ==
    ASSUME TypeInv, HistoryInv, NEW c \in Callers, run[c].pc = "read",
           NEW e \in DOMAIN log, IsNext(c, e)
    PROVE  /\ On(log, run[c].subject, e)
           /\ IsHistory(Evolved(run[c].state, e), log, run[c].subject, e)
<1> DEFINE s == run[c].subject
           l == run[c].last
<1>1. /\ run[c] \in Run /\ log \in Seq(StoredEvent) /\ e \in 1 .. Len(log)
      /\ FoldOK(log, run[c])
  BY DEF TypeInv, Typed, HistoryInv
<1>2. /\ l \in 0 .. Len(log) /\ IsHistory(run[c].state, log, s, l)
      /\ run[c].state \in Seq(Nat)
  BY <1>1 DEF FoldOK, Holding, Run
<1>3. /\ On(log, s, e)
      /\ \/ FullOn(log, s, e)
         \/ e \in l+1 .. Len(log) /\ \A f \in l+1 .. e-1 : ~On(log, s, f)
  BY <1>1, <1>2 DEF IsNext, FullOn
<1>4. FullOn(log, s, e) <=> log[e].type = "full"
  BY <1>3 DEF FullOn
<1> HIDE DEF l, s
<1>5. CASE FullOn(log, s, e)
  BY <1>1, <1>3, <1>4, <1>5, HistoryStartsAnew DEF Evolved, s
<1>6. CASE ~FullOn(log, s, e)
  <2>1. e \in l+1 .. Len(log) /\ \A f \in l+1 .. e-1 : ~On(log, s, f)
    BY <1>3, <1>6
  <2>2. IsHistory(Append(run[c].state, e), log, s, e)
    BY <1>1, <1>2, <1>3, <1>6, <2>1, HistoryGrows
  <2> QED
    BY <1>3, <1>4, <1>6, <2>2 DEF Evolved, s
<1> QED
  BY <1>5, <1>6

\* The empty state is the history up to no event.
LEMMA EmptyHistory ==
    ASSUME NEW lg, NEW s
    PROVE  IsHistory(<<>>, lg, s, NoEvent)
BY DEF IsHistory, Relevant, NoEvent

LEMMA FoldHistory ==
    ASSUME TypeInv, HistoryInv, NEW c \in Callers, Fold(c)
    PROVE  HistoryInv'
<1>0. /\ run[c] \in Run /\ CallOK(c, run[c]) /\ StoreOf[c] \in Stores
      /\ MaxSubjects[StoreOf[c]] \in Nat /\ Len(log) \in Nat
      /\ log \in Seq(StoredEvent) /\ cache \in [Stores -> Cache]
      /\ CacheOK(cache[StoreOf[c]], Keys, Entry, MaxSubjects[StoreOf[c]])
      /\ FoldOK(log, run[c])
  BY ConstantsAssumption DEF TypeInv, Typed, CallsOK, CachesOK, HistoryInv
<1>1. CASE FoldGet(c)
  <2>1. KeyOf(c) \in Keys /\ run[c].subject \in Subjects
    BY <1>0, <1>1, KeyType DEF FoldGet, TypeInv, CallOK, ReadsState
  <2>2. AfterGet(cache[StoreOf[c]], KeyOf(c)).entries = cache[StoreOf[c]].entries
    BY <1>0 DEF AfterGet, CacheOK
  <2>3. \A st \in Stores : cache'[st].entries = cache[st].entries
    BY <1>0, <1>1, <2>2 DEF FoldGet
  <2>4. CASE IsOtherShape(c)
    BY <1>1, <2>3, <2>4, ReturnHistory DEF FoldGet, HistoryInv
  <2>5. CASE ~IsOtherShape(c)
    <3> DEFINE st == IF IsHit(c) THEN CachedEntry(c).state ELSE <<>>
               rl == IF IsHit(c) THEN CachedEntry(c).rules ELSE {run[c].def}
               l == IF IsHit(c) THEN CachedEntry(c).lastEventID ELSE NoEvent
               r == [run[c] EXCEPT !.pc = "read", !.state = st, !.rules = rl,
                                   !.last = l, !.reach = Len(log)]
    <3>1. IsHit(c) => /\ On(log, run[c].subject, CachedEntry(c).lastEventID)
                      /\ IsHistory(CachedEntry(c).state, log, run[c].subject,
                                   CachedEntry(c).lastEventID)
                      /\ CachedEntry(c).rules = {CachedEntry(c).shape}
      BY <1>0 DEF HistoryInv, CachedOK, IsHit, IsCached, CachedEntry, CacheOf, KeyOf, Key
    <3>2. /\ l # NoEvent => On(log, run[c].subject, l)
          /\ IsHistory(st, log, run[c].subject, l)
          /\ rl = {run[c].def}
      BY <2>5, <3>1, EmptyHistory DEF IsOtherShape
    <3>3. l \in 0 .. Len(log)
      BY <1>0, <3>1 DEF On, NoEvent
    <3>4. /\ r.pc = "read" /\ r.last = l /\ r.state = st /\ r.reach = Len(log)
          /\ r.rules = rl /\ r.subject = run[c].subject /\ r.def = run[c].def
      BY <1>0 DEF Run
    <3>5. run' = [run EXCEPT ![c] = r]
      BY <1>1, <2>5 DEF FoldGet
    <3> HIDE DEF r, l, st, rl
    <3>6. FoldOK(log, r)
      BY <1>0, <3>2, <3>3, <3>4 DEF FoldOK
    <3>7. \A d \in Callers : FoldOK(log', run'[d])
      BY <1>1, <3>5, <3>6, RunHistory DEF FoldGet
    <3> QED
      BY <1>1, <2>3, <3>7 DEF FoldGet, HistoryInv
  <2> QED
    BY <2>4, <2>5
<1>2. CASE CopyFails(c)
  BY <1>2, ReturnHistory DEF CopyFails, HistoryInv
<1>3. CASE ReadEvent(c)
  <2>1. PICK e \in DOMAIN log : /\ IsNext(c, e)
          /\ run' = [run EXCEPT ![c].state = Evolved(@, e), ![c].last = e,
                                ![c].rules = EvolvedBy(@, run[c].def, e)]
    BY <1>3 DEF ReadEvent
  <2> DEFINE rl == EvolvedBy(run[c].rules, run[c].def, e)
             r == [run[c] EXCEPT !.state = Evolved(@, e), !.last = e, !.rules = rl]
  <2>2. /\ On(log, run[c].subject, e)
        /\ IsHistory(Evolved(run[c].state, e), log, run[c].subject, e)
        /\ rl = {run[c].def}
    BY <1>0, <1>3, <2>1, ReadHistory DEF ReadEvent, FoldOK, Holding, EvolvedBy
  <2>3. /\ r.pc = "read" /\ r.last = e /\ r.state = Evolved(run[c].state, e)
        /\ r.reach = run[c].reach /\ r.subject = run[c].subject
        /\ r.rules = rl /\ r.def = run[c].def
    BY <1>0, <1>3 DEF Run, ReadEvent
  <2>4. run' = [run EXCEPT ![c] = r]
    BY <2>1
  <2>5. run[c].reach \in 0 .. Len(log) /\ e \in 0 .. Len(log)
    BY <1>0, <1>3 DEF ReadEvent, FoldOK, Holding
  <2> HIDE DEF r
  <2>6. FoldOK(log, r)
    BY <2>2, <2>3, <2>5 DEF FoldOK
  <2>7. \A d \in Callers : FoldOK(log', run'[d])
    BY <1>3, <2>4, <2>6, RunHistory DEF ReadEvent
  <2> QED
    BY <1>3, <2>7 DEF ReadEvent, HistoryInv
<1>4. CASE ReadRefuses(c)
  BY <1>4, ReturnHistory DEF ReadRefuses, HistoryInv
<1>5. CASE ReadFails(c)
  BY <1>5, ReturnHistory DEF ReadFails, HistoryInv
<1>6. CASE ReadEnds(c)
  <2> DEFINE phase == IF UsesCache(c) /\ run[c].last # NoEvent THEN "put" ELSE "folded"
             r == [run[c] EXCEPT !.pc = phase]
  <2>1. FoldOK(log, r)
    BY <1>0, <1>6 DEF ReadEnds, FoldOK, Holding, Run
  <2>2. run' = [run EXCEPT ![c] = r]
    BY <1>6 DEF ReadEnds
  <2> HIDE DEF r
  <2>3. \A d \in Callers : FoldOK(log', run'[d])
    BY <1>6, <2>1, <2>2, RunHistory DEF ReadEnds
  <2> QED
    BY <1>6, <2>3 DEF ReadEnds, HistoryInv
<1>7. CASE CachePut(c)
  <2> DEFINE st == StoreOf[c]
             new == AfterPut(cache[st], KeyOf(c), EntryOf(c), MaxSubjects[st])
  <2>1. KeyOf(c) \in Keys
    BY <1>7, KeyType DEF CachePut, TypeInv
  <2>2. EntryOf(c) \in Entry /\ MaxSubjects[StoreOf[c]] # 0 /\ run[c].last # NoEvent
    BY <1>0, <1>7 DEF CachePut, EntryOf, Entry, Run, CallOK, ReadsState
  <2>3. PutEntries(new.entries, cache[st].entries, KeyOf(c), EntryOf(c))
    BY <1>0, <2>1, <2>2, AfterPutOK
  <2>4. CachedOK(log, KeyOf(c), EntryOf(c))
    BY <1>0, <1>7, <2>2 DEF CachePut, FoldOK, Holding, CachedOK, KeyOf, Key, EntryOf
  <2>5. cache' = [cache EXCEPT ![st] = new]
    BY <1>7 DEF CachePut
  <2> HIDE DEF new
  <2>6. \A k \in DOMAIN new.entries : CachedOK(log, k, new.entries[k])
    BY <1>0, <2>3, <2>4 DEF PutEntries, HistoryInv
  <2>7. \A s \in Stores : \A k \in DOMAIN cache'[s].entries :
           CachedOK(log, k, cache'[s].entries[k])
    BY <1>0, <2>5, <2>6 DEF HistoryInv
  <2> DEFINE r == [run[c] EXCEPT !.pc = "folded"]
  <2>8. FoldOK(log, r)
    BY <1>0, <1>7 DEF CachePut, FoldOK, Holding, Run
  <2>9. run' = [run EXCEPT ![c] = r]
    BY <1>7 DEF CachePut
  <2> HIDE DEF r
  <2>10. \A d \in Callers : FoldOK(log', run'[d])
    BY <1>7, <2>8, <2>9, RunHistory DEF CachePut
  <2> QED
    BY <1>7, <2>7, <2>10 DEF CachePut, HistoryInv
<1> QED
  BY <1>1, <1>2, <1>3, <1>4, <1>5, <1>6, <1>7 DEF Fold

\* What a command under OnStateRead sends was decided on the state it read,
\* and names the last event of that state.
LEMMA RequestHistory ==
    ASSUME TypeInv, HistoryInv, NEW c \in Callers, run[c].pc \in {"write", "sent"}
    PROVE  DecidedOK(log, RequestOf(c))
<1> SUFFICES ASSUME DeclaresOnStateRead(run[c].declared)
             PROVE  DecidedOK(log, RequestOf(c))
  BY DEF DecidedOK, RequestOf
<1> DEFINE s == run[c].subject
           l == run[c].last
           q == RequestOf(c)
           declared == run[c].declared
<1>0. run[c] \in Run /\ CallOK(c, run[c]) /\ FoldOK(log, run[c])
  BY DEF TypeInv, Typed, CallsOK, HistoryInv
<1>1. run[c].kind = "Execute"
  BY <1>0, CheckedPreconditions DEF CallOK
<1>2. /\ s \in Subjects /\ checkPreconditions(declared) = "none"
      /\ declared \in Seq(DeclaredPrecondition)
  BY <1>0, <1>1 DEF CallOK, ReadsState, Run
<1>3. /\ l \in 0 .. Len(log) /\ IsHistory(run[c].state, log, s, l)
      /\ \A j \in DOMAIN run[c].events : run[c].events[j].subject = s
  BY <1>0, <1>1 DEF FoldOK, Holding
<1>4. PICK i \in DOMAIN declared : IsOnStateRead(declared[i])
  BY DEF DeclaresOnStateRead
<1>5. databasePreconditions(declared) = declared
  <2>1. declared[1].kind # "unconditionally"
    BY <1>2, <1>4, CheckedPreconditions DEF IsOnStateRead
  <2> QED
    BY <2>1 DEF databasePreconditions
<1>6. /\ q.preconditions = resolvePreconditions(s, declared, l)
      /\ q.basis = run[c].state /\ q.events = run[c].events
  BY <1>1 DEF RequestOf
<1>7. i \in DOMAIN q.preconditions /\ q.preconditions[i] = onStateRead(s, l)
  BY <1>4, <1>5, <1>6 DEF resolvePreconditions
<1> HIDE DEF s, l, q
<1>8. DecidedOK(log, q)
  BY <1>2, <1>3, <1>6, <1>7 DEF DecidedOK
<1> QED
  BY <1>8 DEF q

LEMMA FinishHistory ==
    ASSUME TypeInv, HistoryInv, NEW c \in Callers, Finish(c)
    PROVE  HistoryInv'
<1>0. run[c] \in Run /\ CallOK(c, run[c]) /\ FoldOK(log, run[c])
  BY DEF TypeInv, Typed, CallsOK, HistoryInv
<1>1. CASE LoadReturns(c)
  BY <1>1, ReturnHistory DEF LoadReturns, HistoryInv
<1>2. CASE Decide(c)
  <2>1. ASSUME NEW result, Return(c, result)
        PROVE  \A d \in Callers : FoldOK(log', run'[d])
    BY <1>2, <2>1, ReturnHistory DEF Decide
  <2>2. ASSUME run' = [run EXCEPT ![c].pc = "fold", ![c].attempt = @ + 1]
        PROVE  \A d \in Callers : FoldOK(log', run'[d])
    <3> DEFINE r == [run[c] EXCEPT !.pc = "fold", !.attempt = @ + 1]
    <3>1. FoldOK(log, r) /\ run' = [run EXCEPT ![c] = r]
      BY <1>0, <2>2 DEF FoldOK, Holding, Run
    <3> HIDE DEF r
    <3> QED
      BY <1>2, <3>1, RunHistory DEF Decide
  <2>3. ASSUME NEW types \in Decisions,
               run' = [run EXCEPT
                  ![c].pc = "write",
                  ![c].events = [i \in DOMAIN types |->
                      [subject |-> run[c].subject, type |-> types[i]]]]
        PROVE  \A d \in Callers : FoldOK(log', run'[d])
    <3> DEFINE events == [i \in DOMAIN types |->
                            [subject |-> run[c].subject, type |-> types[i]]]
               r == [run[c] EXCEPT !.pc = "write", !.events = events]
    <3>1. /\ r.pc = "write" /\ r.events = events /\ r.subject = run[c].subject
          /\ r.last = run[c].last /\ r.state = run[c].state /\ r.reach = run[c].reach
          /\ r.rules = run[c].rules /\ r.def = run[c].def
      BY <1>0 DEF Run
    <3>2. \A i \in DOMAIN events : events[i].subject = run[c].subject
      OBVIOUS
    <3>3. run' = [run EXCEPT ![c] = r]
      BY <2>3
    <3> HIDE DEF r, events
    <3>4. FoldOK(log, r)
      BY <1>0, <1>2, <3>1, <3>2 DEF Decide, FoldOK, Holding
    <3> QED
      BY <1>2, <3>3, <3>4, RunHistory DEF Decide
  <2> QED
    BY <1>2, <2>1, <2>2, <2>3 DEF Decide, HistoryInv
<1>3. CASE BeginWrite(c)
  <2>1. CASE run[c].ended
    BY <1>3, <2>1, ReturnHistory DEF BeginWrite, HistoryInv
  <2>2. CASE ~run[c].ended
    <3> DEFINE r == [run[c] EXCEPT !.pc = "sent", !.reply = NoReply]
    <3>1. FoldOK(log, r)
      BY <1>0, <1>3 DEF BeginWrite, FoldOK, Holding, Run
    <3>2. run' = [run EXCEPT ![c] = r]
      BY <1>3, <2>2 DEF BeginWrite
    <3>3. DecidedOK(log, RequestOf(c))
      BY <1>3, RequestHistory DEF BeginWrite
    <3> HIDE DEF r
    <3>4. \A d \in Callers : FoldOK(log', run'[d])
      BY <1>3, <3>1, <3>2, RunHistory DEF BeginWrite
    <3> QED
      BY <1>3, <2>2, <3>3, <3>4 DEF BeginWrite, HistoryInv
  <2> QED
    BY <2>1, <2>2
<1>4. CASE WriteSucceeds(c)
  BY <1>4, ReturnHistory DEF WriteSucceeds, HistoryInv
<1>5. CASE WriteRefused(c)
  BY <1>5, ReturnHistory DEF WriteRefused, HistoryInv
<1>6. CASE WriteUnknown(c)
  BY <1>6, ReturnHistory DEF WriteUnknown, HistoryInv
<1>7. CASE WriteConflicts(c)
  <2> DEFINE refuted == IF IsOnStateRead(ViolatedPrecondition(c))
                        THEN run[c].refuted \cup {run[c].last} ELSE run[c].refuted
             r == [run[c] EXCEPT !.pc = "fold", !.attempt = @ + 1, !.events = <<>>,
                                 !.refuted = refuted]
  <2>1. FoldOK(log, r)
    BY <1>0 DEF FoldOK, Holding, Run
  <2>2. Return(c, "conflict") \/ run' = [run EXCEPT ![c] = r]
    BY <1>7 DEF WriteConflicts
  <2> HIDE DEF r
  <2>3. \A d \in Callers : FoldOK(log', run'[d])
    BY <1>7, <2>1, <2>2, RunHistory, ReturnHistory DEF WriteConflicts
  <2> QED
    BY <1>7, <2>3 DEF WriteConflicts, HistoryInv
<1> QED
  BY <1>1, <1>2, <1>3, <1>4, <1>5, <1>6, <1>7 DEF Finish

LEMMA EndContextHistory ==
    ASSUME TypeInv, HistoryInv, NEW c \in Callers, EndContext(c)
    PROVE  HistoryInv'
<1> DEFINE r == [run[c] EXCEPT !.ended = TRUE]
<1>1. FoldOK(log, r)
  BY DEF TypeInv, Typed, HistoryInv, FoldOK, Holding, Run
<1>2. run' = [run EXCEPT ![c] = r]
  BY DEF EndContext
<1> HIDE DEF r
<1>3. \A d \in Callers : FoldOK(log', run'[d])
  BY <1>1, <1>2, RunHistory DEF EndContext
<1> QED
  BY <1>3 DEF EndContext, HistoryInv

\* Events stored behind the log take nothing away from what is known about it.
LEMMA HistoryExtends ==
    ASSUME TypeInv, HistoryInv, NEW new \in Seq(StoredEvent), Extends(new, log)
    PROVE  /\ \A c \in Callers : FoldOK(new, run[c])
           /\ \A q \in requests : DecidedOK(new, q)
           /\ \A st \in Stores : \A k \in DOMAIN cache[st].entries :
                 CachedOK(new, k, cache[st].entries[k])
<1>0. log \in Seq(StoredEvent)
  BY DEF TypeInv, Typed
<1>1. /\ Len(log) \in Nat /\ Len(new) \in Nat /\ Len(log) <= Len(new)
      /\ \A s : \A e \in 1 .. Len(log) : On(new, s, e) <=> On(log, s, e)
      /\ \A s, e : On(log, s, e) => e \in 1 .. Len(log) /\ On(new, s, e)
  BY <1>0 DEF Extends, On
<1>2. \A s, st : \A n \in 0 .. Len(log) : IsHistory(st, log, s, n) => IsHistory(st, new, s, n)
  BY <1>0, HistoryKept
<1>3. ASSUME NEW c \in Callers PROVE FoldOK(new, run[c])
  BY <1>1, <1>2 DEF HistoryInv, FoldOK, TypeInv, Typed, Run
<1>4. ASSUME NEW q \in requests PROVE DecidedOK(new, q)
  <2>1. SUFFICES ASSUME q.guarded PROVE DecidedOK(new, q)
    BY DEF DecidedOK
  <2>2. PICK s \in Subjects, l \in 0 .. Len(log) :
        /\ IsHistory(q.basis, log, s, l)
        /\ \E i \in DOMAIN q.preconditions : q.preconditions[i] = onStateRead(s, l)
        /\ \A j \in DOMAIN q.events : q.events[j].subject = s
    BY <2>1 DEF HistoryInv, DecidedOK
  <2>3. l \in 0 .. Len(new)
    BY <1>1
  <2> QED
    BY <1>2, <2>2, <2>3 DEF DecidedOK
<1>5. ASSUME NEW st \in Stores, NEW k \in DOMAIN cache[st].entries
      PROVE  CachedOK(new, k, cache[st].entries[k])
  BY <1>1, <1>2 DEF HistoryInv, CachedOK
<1> QED
  BY <1>3, <1>4, <1>5

LEMMA HandleWriteHistory ==
    ASSUME TypeInv, HistoryInv, NEW q \in requests, HandleWrite(q)
    PROVE  HistoryInv'
<1>1. log' \in Seq(StoredEvent) /\ Extends(log', log)
  <2>1. /\ log \in Seq(StoredEvent) /\ Extends(log, log)
        /\ log \o Stored(q) \in Seq(StoredEvent) /\ Extends(log \o Stored(q), log)
    BY StoredType DEF TypeInv, Typed, Extends
  <2>2. log' = log \/ log' = log \o Stored(q)
    BY DEF HandleWrite
  <2> QED
    BY <2>1, <2>2
<1>2. /\ \A c \in Callers : FoldOK(log', run[c])
      /\ \A r \in requests : DecidedOK(log', r)
      /\ \A st \in Stores : \A k \in DOMAIN cache[st].entries :
            CachedOK(log', k, cache[st].entries[k])
  BY <1>1, HistoryExtends
<1>3. ASSUME NEW c \in Callers PROVE FoldOK(log', run'[c])
  <2>1. PICK kind, index : run' = Answered(q, kind, index)
    BY DEF HandleWrite
  <2> DEFINE r == [run[c] EXCEPT !.reply = [kind |-> kind, index |-> index]]
  <2>2. run'[c] = r \/ run'[c] = run[c]
    BY <2>1 DEF Answered
  <2>3. FoldOK(log', r)
    BY <1>2 DEF FoldOK, Holding, TypeInv, Typed, Run
  <2> QED
    BY <1>2, <2>2, <2>3
<1> QED
  BY <1>2, <1>3 DEF HandleWrite, HistoryInv

LEMMA HistoryStep == TypeInv /\ HistoryInv /\ [Next]_vars => HistoryInv'
<1> SUFFICES ASSUME TypeInv, HistoryInv, [Next]_vars PROVE HistoryInv'
  OBVIOUS
<1>1. CASE UNCHANGED vars
  BY <1>1 DEF vars, HistoryInv
<1>2. CASE Next
  BY <1>2, StartHistory, FoldHistory, FinishHistory, EndContextHistory,
     HandleWriteHistory DEF Next
<1> QED
  BY <1>1, <1>2

\* A cached state is the history of its subject up to its last event, made by the
\* State of its shape alone, for every number of concurrent folds, evictions,
\* stores and States of one type (stateCache.put).
THEOREM CachesHoldHistory == Spec => []CacheHoldsHistory
<1>1. HistoryInv => CacheHoldsHistory
  BY DEF HistoryInv, CachedOK, CacheHoldsHistory
<1> QED
  BY <1>1, TypeInit, TypeStep, HistoryInit, HistoryStep, PTL DEF Spec

\* What Load returns and a decider decides on is the history of the subject,
\* misses nothing stored before the read was requested, and was made by the
\* State it was asked of alone (fold).
THEOREM FoldsAreFresh == Spec => []FoldIsFresh
<1>1. HistoryInv => FoldIsFresh
  BY DEF HistoryInv, FoldOK, Holding, FoldIsFresh
<1> QED
  BY <1>1, TypeInit, TypeStep, HistoryInit, HistoryStep, PTL DEF Spec

-----------------------------------------------------------------------------
(***************************************************************************)
(* Outcomes: by where a call is, whether its events are stored, may still  *)
(* be stored, or neither.                                                  *)
(***************************************************************************)
IsStored(lg, id) == \E e \in DOMAIN lg : lg[e].call = id

IsOnItsWay(rq, id) == \E q \in rq : q.call = id

\* RequestOf, for a call given by its local variables.
RequestFor(r) ==
    [call |-> r.id,
     events |-> r.events,
     preconditions |->
        IF r.kind = "Execute" THEN resolvePreconditions(r.subject, r.declared, r.last)
        ELSE databasePreconditions(r.declared),
     guarded |-> DeclaresOnStateRead(r.declared),
     basis |-> r.state]

OutcomeOK(lg, rq, r) ==
    /\ r.pc \in {"fold", "read", "put", "folded", "write"} =>
          ~IsStored(lg, r.id) /\ ~IsOnItsWay(rq, r.id)
    /\ r.pc = "sent" =>
          /\ r.reply.kind = "none" =>
                /\ ~IsStored(lg, r.id)
                /\ \A q \in rq : q.call = r.id => q = RequestFor(r)
          /\ r.reply.kind = "stored" => IsStored(lg, r.id) /\ ~IsOnItsWay(rq, r.id)
          /\ r.reply.kind = "violated" => ~IsStored(lg, r.id) /\ ~IsOnItsWay(rq, r.id)
    /\ r.pc = "returned" =>
          /\ r.result = "events" => IsStored(lg, r.id) /\ ~IsOnItsWay(rq, r.id)
          /\ r.result = "unknown" => ~(IsStored(lg, r.id) /\ IsOnItsWay(rq, r.id))
          /\ r.result \notin {"events", "unknown"} =>
                ~IsStored(lg, r.id) /\ ~IsOnItsWay(rq, r.id)

\* The calls in progress have different numbers.
IdsOK ==
    /\ \A c \in Callers : /\ run[c].id \in 0 .. calls
                          /\ run[c].pc # "idle" => run[c].id # 0
    /\ \A c, d \in Callers : c # d => run[c].id # run[d].id \/ run[c].id = 0

\* A call has one request at most, and none once its events are stored.
RequestsOK(lg, rq, n) ==
    /\ \A e \in DOMAIN lg : lg[e].call \in 1 .. n
    /\ \A q \in rq : q.call \in 1 .. n /\ q.events # <<>> /\ ~IsStored(lg, q.call)
    /\ \A p, q \in rq : p.call = q.call => p = q

OutcomeInv ==
    /\ IdsOK
    /\ RequestsOK(log, requests, calls)
    /\ \A c \in Callers : OutcomeOK(log, requests, run[c])

LEMMA OutcomeInit == Init => OutcomeInv
BY DEF Init, OutcomeInv, IdsOK, RequestsOK, OutcomeOK, Returned, IsStored, IsOnItsWay

\* A step of one call that changes no request but its own.
LEMMA RunOutcome ==
    ASSUME TypeInv, OutcomeInv, NEW c \in Callers, NEW r, run[c].pc # "idle",
           r.id = run[c].id, run' = [run EXCEPT ![c] = r], UNCHANGED <<log, calls>>,
           \A q : q.call # run[c].id => (q \in requests' <=> q \in requests),
           RequestsOK(log, requests', calls),
           OutcomeOK(log, requests', r)
    PROVE  OutcomeInv'
<1>1. IdsOK'
  BY DEF TypeInv, Typed, OutcomeInv, IdsOK
<1>2. ASSUME NEW d \in Callers PROVE OutcomeOK(log, requests', run'[d])
  <2>1. CASE d = c
    BY <2>1 DEF TypeInv, Typed
  <2>2. CASE d # c
    <3>1. run'[d] = run[d] /\ run[d].id # run[c].id
      BY <2>2 DEF TypeInv, Typed, OutcomeInv, IdsOK
    <3>2. /\ IsOnItsWay(requests', run[d].id) <=> IsOnItsWay(requests, run[d].id)
          /\ \A q \in requests' : q.call = run[d].id => q \in requests
      BY <3>1 DEF IsOnItsWay
    <3> QED
      BY <3>1, <3>2 DEF OutcomeInv, OutcomeOK
  <2> QED
    BY <2>1, <2>2
<1> QED
  BY <1>1, <1>2 DEF OutcomeInv

\* A step of one call that the database takes no part in.
LEMMA QuietOutcome ==
    ASSUME TypeInv, OutcomeInv, NEW c \in Callers, NEW r, run[c].pc # "idle",
           r.id = run[c].id, run' = [run EXCEPT ![c] = r], UNCHANGED <<log, requests, calls>>,
           OutcomeOK(log, requests, r)
    PROVE  OutcomeInv'
BY RunOutcome DEF OutcomeInv

LEMMA ReturnOutcome ==
    ASSUME TypeInv, OutcomeInv, NEW c \in Callers, NEW result, Return(c, result),
           result # "events", UNCHANGED <<log, requests, calls>>,
           run[c].pc # "idle",
           ~IsStored(log, run[c].id) /\ ~IsOnItsWay(requests, run[c].id)
    PROVE  OutcomeInv'
<1> DEFINE r == Returned(run[c].id, result)
<1>1. r.id = run[c].id /\ r.pc = "returned" /\ r.result = result
  BY DEF Returned
<1>2. run' = [run EXCEPT ![c] = r]
  BY DEF Return
<1> HIDE DEF r
<1>3. OutcomeOK(log, requests, r)
  BY <1>1 DEF OutcomeOK
<1> QED
  BY <1>1, <1>2, <1>3, QuietOutcome

LEMMA BeginOutcome ==
    ASSUME TypeInv, OutcomeInv, NEW c \in Callers, NEW kind, NEW s, NEW d, NEW declared,
           NEW events, NEW phase \in {"fold", "write"}, NEW result,
           result \notin {"events", "unknown"},
           Begin(c, kind, s, d, declared, events, phase, result)
    PROVE  OutcomeInv'
<1> DEFINE n == calls + 1
           r == run'[c]
<1>1. /\ r.id = n /\ r.pc \in {"fold", "write", "returned"}
      /\ r.pc = "returned" => r.result \notin {"events", "unknown"}
      /\ \A e \in Callers : e # c => run'[e] = run[e]
  BY DEF TypeInv, Typed, Begin, Returned
<1>2. calls \in Nat /\ calls' = n /\ UNCHANGED <<log, requests>>
  BY DEF TypeInv, Typed, Begin
<1>3. ~IsStored(log, n) /\ ~IsOnItsWay(requests, n)
  BY <1>2 DEF OutcomeInv, RequestsOK, IsStored, IsOnItsWay
<1>4. OutcomeOK(log, requests, r)
  BY <1>1, <1>3 DEF OutcomeOK
<1>5. \A e \in Callers : OutcomeOK(log, requests, run'[e])
  BY <1>1, <1>4 DEF OutcomeInv
<1>6. IdsOK'
  <2>1. ASSUME NEW e \in Callers
        PROVE  run'[e].id \in 0 .. n /\ (run'[e].pc # "idle" => run'[e].id # 0)
    BY <1>1, <1>2 DEF OutcomeInv, IdsOK
  <2>2. ASSUME NEW e \in Callers, NEW f \in Callers, e # f
        PROVE  run'[e].id # run'[f].id \/ run'[e].id = 0
    BY <1>1, <1>2, <2>2 DEF OutcomeInv, IdsOK
  <2> QED
    BY <1>2, <2>1, <2>2 DEF IdsOK
<1>7. RequestsOK(log, requests, n)
  BY <1>2 DEF OutcomeInv, RequestsOK
<1> QED
  BY <1>2, <1>5, <1>6, <1>7 DEF OutcomeInv

LEMMA StartOutcome ==
    ASSUME TypeInv, OutcomeInv, NEW c \in Callers, Start(c)
    PROVE  OutcomeInv'
<1>1. ASSUME NEW s \in Subjects, NEW d \in DecidedOn, NEW declared \in Declarations,
             StartExecute(c, s, d, declared)
      PROVE  OutcomeInv'
  BY <1>1, BeginOutcome, CheckedPreconditions DEF StartExecute
<1>2. ASSUME NEW s \in Subjects, NEW d \in Defs, StartLoad(c, s, d)
      PROVE  OutcomeInv'
  BY <1>2, BeginOutcome DEF StartLoad
<1>3. ASSUME NEW events \in Writes, NEW declared \in Declarations,
             StartWrite(c, events, declared)
      PROVE  OutcomeInv'
  BY <1>3, BeginOutcome, CheckedPreconditions DEF StartWrite
<1> QED
  BY <1>1, <1>2, <1>3 DEF Start

LEMMA FoldOutcome ==
    ASSUME TypeInv, OutcomeInv, NEW c \in Callers, Fold(c)
    PROVE  OutcomeInv'
<1> USE DEF FoldGet, CopyFails, ReadEvent, ReadRefuses, ReadFails, ReadEnds, CachePut
<1>1. /\ run[c] \in Run /\ run[c].pc \in {"fold", "read", "put"}
      /\ UNCHANGED <<log, requests, calls>>
      /\ ~IsStored(log, run[c].id) /\ ~IsOnItsWay(requests, run[c].id)
  BY DEF Fold, TypeInv, Typed, OutcomeInv, OutcomeOK
<1>2. ASSUME NEW result, Return(c, result), result \notin {"events", "unknown"}
      PROVE  OutcomeInv'
  BY <1>1, <1>2, ReturnOutcome
<1>3. ASSUME NEW r, run' = [run EXCEPT ![c] = r], r.id = run[c].id,
             r.pc \in {"read", "put", "folded"}
      PROVE  OutcomeInv'
  BY <1>1, <1>3, QuietOutcome DEF OutcomeOK
<1>4. CASE FoldGet(c)
  <2> DEFINE r == [run[c] EXCEPT !.pc = "read",
                     !.state = IF IsHit(c) THEN CachedEntry(c).state ELSE <<>>,
                     !.rules = IF IsHit(c) THEN CachedEntry(c).rules ELSE {run[c].def},
                     !.last = IF IsHit(c) THEN CachedEntry(c).lastEventID ELSE NoEvent,
                     !.reach = Len(log)]
  <2>1. Return(c, "permanent") \/ run' = [run EXCEPT ![c] = r]
    BY <1>4
  <2>2. r.id = run[c].id /\ r.pc = "read"
    BY <1>1 DEF Run
  <2> HIDE DEF r
  <2> QED
    BY <1>2, <1>3, <2>1, <2>2
<1>5. CASE ReadEvent(c)
  <2>1. PICK e : run' = [run EXCEPT ![c].state = Evolved(@, e), ![c].last = e,
                                    ![c].rules = EvolvedBy(@, run[c].def, e)]
    BY <1>5
  <2> DEFINE r == [run[c] EXCEPT !.state = Evolved(@, e), !.last = e,
                                 !.rules = EvolvedBy(@, run[c].def, e)]
  <2>2. r.id = run[c].id /\ r.pc = "read" /\ run' = [run EXCEPT ![c] = r]
    BY <1>1, <1>5, <2>1 DEF Run
  <2> HIDE DEF r
  <2> QED
    BY <1>3, <2>2
<1>6. CASE ReadEnds(c) \/ CachePut(c)
  <2>1. PICK phase \in {"put", "folded"} : run' = [run EXCEPT ![c].pc = phase]
    BY <1>6
  <2> DEFINE r == [run[c] EXCEPT !.pc = phase]
  <2>2. r.id = run[c].id /\ r.pc = phase /\ run' = [run EXCEPT ![c] = r]
    BY <1>1, <2>1 DEF Run
  <2> HIDE DEF r
  <2> QED
    BY <1>3, <2>2
<1>7. CASE CopyFails(c) \/ ReadRefuses(c) \/ ReadFails(c)
  BY <1>2, <1>7
<1> QED
  BY <1>4, <1>5, <1>6, <1>7 DEF Fold

LEMMA FinishOutcome ==
    ASSUME TypeInv, OutcomeInv, NEW c \in Callers, Finish(c)
    PROVE  OutcomeInv'
<1> DEFINE id == run[c].id
<1>0. /\ run[c] \in Run /\ run[c].pc \in {"folded", "write", "sent"} /\ id \in 1 .. calls
      /\ UNCHANGED <<log, calls>> /\ CallOK(c, run[c])
      /\ OutcomeOK(log, requests, run[c]) /\ RequestsOK(log, requests, calls)
      /\ RequestOf(c) = RequestFor(run[c])
  BY DEF Finish, LoadReturns, Decide, BeginWrite, WriteSucceeds, WriteRefused, WriteUnknown,
         WriteConflicts, TypeInv, Typed, CallsOK, OutcomeInv, IdsOK, RequestOf, RequestFor
<1>1. CASE LoadReturns(c)
  BY <1>0, <1>1, ReturnOutcome DEF LoadReturns, OutcomeOK
<1>2. CASE Decide(c)
  <2>1. ~IsStored(log, id) /\ ~IsOnItsWay(requests, id) /\ UNCHANGED requests
    BY <1>0, <1>2 DEF OutcomeOK, Decide
  <2>2. ASSUME NEW result, result # "events", Return(c, result)
        PROVE  OutcomeInv'
    BY <1>0, <2>1, <2>2, ReturnOutcome
  <2>3. ASSUME run' = [run EXCEPT ![c].pc = "fold", ![c].attempt = @ + 1]
        PROVE  OutcomeInv'
    <3> DEFINE r == [run[c] EXCEPT !.pc = "fold", !.attempt = @ + 1]
    <3>1. r.id = id /\ r.pc = "fold" /\ run' = [run EXCEPT ![c] = r]
      BY <1>0, <2>3 DEF Run
    <3> HIDE DEF r
    <3> QED
      BY <1>0, <2>1, <3>1, QuietOutcome DEF OutcomeOK
  <2>4. ASSUME NEW events, run' = [run EXCEPT ![c].pc = "write", ![c].events = events]
        PROVE  OutcomeInv'
    <3> DEFINE r == [run[c] EXCEPT !.pc = "write", !.events = events]
    <3>1. r.id = id /\ r.pc = "write" /\ run' = [run EXCEPT ![c] = r]
      BY <1>0, <2>4 DEF Run
    <3> HIDE DEF r
    <3> QED
      BY <1>0, <2>1, <3>1, QuietOutcome DEF OutcomeOK
  <2> QED
    BY <1>2, <2>2, <2>3, <2>4 DEF Decide
<1>3. CASE BeginWrite(c)
  <2>1. ~IsStored(log, id) /\ ~IsOnItsWay(requests, id) /\ run[c].events # <<>>
    BY <1>0, <1>3 DEF OutcomeOK, BeginWrite, CallOK
  <2>2. CASE run[c].ended
    BY <1>0, <1>3, <2>1, <2>2, ReturnOutcome DEF BeginWrite
  <2>3. CASE ~run[c].ended
    <3> DEFINE r == [run[c] EXCEPT !.pc = "sent", !.reply = NoReply]
               q == RequestOf(c)
    <3>1. /\ r.id = id /\ r.pc = "sent" /\ r.reply.kind = "none"
          /\ run' = [run EXCEPT ![c] = r]
          /\ RequestFor(r) = q
      BY <1>0, <1>3, <2>3 DEF Run, BeginWrite, NoReply, RequestFor
    <3>2. q.call = id /\ q.events = run[c].events /\ requests' = requests \cup {q}
      BY <1>3, <2>3 DEF BeginWrite, RequestOf
    <3> HIDE DEF r, q
    <3>3. RequestsOK(log, requests', calls)
      BY <1>0, <2>1, <3>2 DEF RequestsOK, IsOnItsWay
    <3>4. OutcomeOK(log, requests', r)
      BY <2>1, <3>1, <3>2 DEF OutcomeOK, IsOnItsWay
    <3> QED
      BY <1>0, <3>1, <3>2, <3>3, <3>4, RunOutcome
  <2> QED
    BY <2>2, <2>3
<1>4. CASE WriteSucceeds(c)
  <2> DEFINE r == Returned(id, "events")
  <2>1. /\ r.id = id /\ r.pc = "returned" /\ r.result = "events"
        /\ run' = [run EXCEPT ![c] = r] /\ UNCHANGED requests
    BY <1>4 DEF WriteSucceeds, Return, Returned
  <2>2. IsStored(log, id) /\ ~IsOnItsWay(requests, id)
    BY <1>0, <1>4 DEF WriteSucceeds, OutcomeOK
  <2> HIDE DEF r
  <2> QED
    BY <1>0, <2>1, <2>2, QuietOutcome DEF OutcomeOK
<1>5. ASSUME WriteRefused(c) \/ WriteUnknown(c)
      PROVE  OutcomeInv'
  <2> DEFINE q == RequestOf(c)
  <2>0. run[c].pc = "sent"
    BY <1>5 DEF WriteRefused, WriteUnknown
  <2>1. PICK result \in {"transient", "permanent", "unknown"} :
          /\ Return(c, result)
          /\ requests' = requests \/ requests' = requests \ {q}
          /\ result # "unknown" => q \in requests /\ requests' = requests \ {q}
    BY <1>5 DEF WriteRefused, WriteUnknown
  <2> DEFINE r == Returned(id, result)
  <2>2. /\ r.id = id /\ r.pc = "returned" /\ r.result = result
        /\ run' = [run EXCEPT ![c] = r]
    BY <2>1 DEF Return, Returned
  <2>3. q.call = id
    BY DEF RequestOf
  <2>4. RequestsOK(log, requests', calls)
    BY <1>0, <2>1 DEF RequestsOK
  <2>5. ~(IsStored(log, id) /\ IsOnItsWay(requests', id))
    BY <2>4 DEF RequestsOK, IsOnItsWay
  <2>6. result # "unknown" => ~IsStored(log, id) /\ ~IsOnItsWay(requests', id)
    <3> HIDE DEF q
    <3> QED
      BY <1>0, <2>1, <2>3 DEF RequestsOK, IsOnItsWay
  <2> HIDE DEF r, q
  <2>7. OutcomeOK(log, requests', r)
    BY <2>1, <2>2, <2>5, <2>6 DEF OutcomeOK
  <2> QED
    BY <1>0, <2>1, <2>2, <2>3, <2>4, <2>7, RunOutcome
<1>6. CASE WriteConflicts(c)
  <2> DEFINE refuted == IF IsOnStateRead(ViolatedPrecondition(c))
                        THEN run[c].refuted \cup {run[c].last} ELSE run[c].refuted
             r == [run[c] EXCEPT !.pc = "fold", !.attempt = @ + 1, !.events = <<>>,
                                 !.refuted = refuted]
  <2>1. Return(c, "conflict") \/ run' = [run EXCEPT ![c] = r]
    BY <1>6 DEF WriteConflicts
  <2>2. ~IsStored(log, id) /\ ~IsOnItsWay(requests, id) /\ UNCHANGED requests
    BY <1>0, <1>6 DEF WriteConflicts, OutcomeOK
  <2>3. r.id = id /\ r.pc = "fold"
    BY <1>0 DEF Run
  <2> HIDE DEF r
  <2>4. OutcomeOK(log, requests, r)
    BY <2>2, <2>3 DEF OutcomeOK
  <2>5. CASE Return(c, "conflict")
    BY <1>0, <2>2, <2>5, ReturnOutcome
  <2>6. CASE run' = [run EXCEPT ![c] = r]
    BY <1>0, <2>2, <2>3, <2>4, <2>6, QuietOutcome
  <2> QED
    BY <2>1, <2>5, <2>6
<1> QED
  BY <1>1, <1>2, <1>3, <1>4, <1>5, <1>6 DEF Finish

LEMMA EndContextOutcome ==
    ASSUME TypeInv, OutcomeInv, NEW c \in Callers, EndContext(c)
    PROVE  OutcomeInv'
<1> DEFINE r == [run[c] EXCEPT !.ended = TRUE]
<1>0. run[c] \in Run /\ run[c].pc \notin {"idle", "returned"} /\ OutcomeOK(log, requests, run[c])
  BY DEF EndContext, TypeInv, Typed, OutcomeInv
<1>1. /\ r.id = run[c].id /\ r.pc = run[c].pc /\ r.reply = run[c].reply
      /\ RequestFor(r) = RequestFor(run[c])
  BY <1>0 DEF Run, RequestFor
<1>2. run' = [run EXCEPT ![c] = r]
  BY DEF EndContext
<1> HIDE DEF r
<1>3. OutcomeOK(log, requests, r)
  BY <1>0, <1>1 DEF OutcomeOK
<1> QED
  BY <1>0, <1>1, <1>2, <1>3, QuietOutcome DEF EndContext

\* What is stored for a request: all events carry its call, and there is one.
LEMMA StoredCalls ==
    ASSUME TypeInv, OutcomeInv, NEW q \in requests
    PROVE  LET new == log \o Stored(q)
           IN  /\ Len(new) > Len(log)
               /\ \A e \in DOMAIN new \ DOMAIN log : \E j \in DOMAIN q.events :
                     /\ new[e].call = q.call
                     /\ new[e].first = Len(log) + 1
                     /\ new[e].guarded = q.guarded
                     /\ new[e].basis = q.basis
                     /\ new[e].subject = q.events[j].subject
               /\ \A e \in DOMAIN log : e \in DOMAIN new /\ new[e] = log[e]
<1> DEFINE new == log \o Stored(q)
<1>0. /\ log \in Seq(StoredEvent) /\ q.events \in Seq(Candidate) /\ q.events # <<>>
  BY DEF TypeInv, Typed, Request, OutcomeInv, RequestsOK
<1>1. Stored(q) \in Seq(StoredEvent) /\ Len(Stored(q)) = Len(q.events)
  BY StoredType
<1>2. /\ Len(log) \in Nat /\ Len(q.events) \in Nat \ {0}
      /\ DOMAIN q.events = 1 .. Len(q.events)
      /\ DOMAIN log = 1 .. Len(log)
      /\ Len(new) = Len(log) + Len(q.events)
      /\ DOMAIN new = 1 .. Len(log) + Len(q.events)
      /\ \A e \in 1 .. Len(log) : new[e] = log[e]
      /\ \A e \in Len(log) + 1 .. Len(log) + Len(q.events) : new[e] = Stored(q)[e - Len(log)]
  BY <1>0, <1>1
<1>3. \A j \in 1 .. Len(q.events) :
        /\ Stored(q)[j].call = q.call
        /\ Stored(q)[j].first = Len(log) + 1
        /\ Stored(q)[j].guarded = q.guarded
        /\ Stored(q)[j].basis = q.basis
        /\ Stored(q)[j].subject = q.events[j].subject
  BY <1>2 DEF Stored
<1> HIDE DEF new
<1>4. ASSUME NEW e \in DOMAIN new \ DOMAIN log
      PROVE  \E j \in DOMAIN q.events :
                     /\ new[e].call = q.call
                     /\ new[e].first = Len(log) + 1
                     /\ new[e].guarded = q.guarded
                     /\ new[e].basis = q.basis
                     /\ new[e].subject = q.events[j].subject
  <2>1. e \in Len(log) + 1 .. Len(log) + Len(q.events)
    BY <1>2
  <2>2. e - Len(log) \in 1 .. Len(q.events)
    BY <1>2, <2>1
  <2> QED
    BY <1>2, <1>3, <2>1, <2>2
<1>5. Len(new) > Len(log) /\ \A e \in DOMAIN log : e \in DOMAIN new /\ new[e] = log[e]
  BY <1>2
<1> QED
  BY <1>4, <1>5 DEF new

LEMMA HandleWriteOutcome ==
    ASSUME TypeInv, OutcomeInv, NEW q \in requests, HandleWrite(q)
    PROVE  OutcomeInv'
<1>0. /\ requests' = requests \ {q} /\ UNCHANGED calls
      /\ RequestsOK(log, requests, calls) /\ IdsOK
  BY DEF HandleWrite, OutcomeInv
<1>1. PICK kind, index :
        /\ kind \in {"stored", "violated"}
        /\ run' = Answered(q, kind, index)
        /\ kind = "stored" => log' = log \o Stored(q)
        /\ kind = "violated" => log' = log
  BY DEF HandleWrite
<1>2. \A id : IsStored(log', id) <=> IsStored(log, id) \/ (kind = "stored" /\ id = q.call)
  <2>1. CASE kind = "violated"
    BY <1>1, <2>1
  <2>2. CASE kind = "stored"
    <3> DEFINE new == log \o Stored(q)
    <3>1. /\ \A e \in DOMAIN new \ DOMAIN log : new[e].call = q.call
          /\ \A e \in DOMAIN log : e \in DOMAIN new /\ new[e] = log[e]
          /\ \E e \in DOMAIN new : e \notin DOMAIN log
      <4>1. Len(new) > Len(log) /\ log \in Seq(StoredEvent) /\ new \in Seq(StoredEvent)
        BY StoredCalls, StoredType DEF TypeInv, Typed
      <4>2. \E e \in DOMAIN new : e \notin DOMAIN log
        <5> HIDE DEF new
        <5>1. Len(new) \in DOMAIN new /\ Len(new) \notin DOMAIN log
          BY <4>1
        <5> QED
          BY <5>1
      <4> QED
        BY <4>2, StoredCalls
    <3> HIDE DEF new
    <3>2. log' = new
      BY <1>1, <2>2 DEF new
    <3> QED
      BY <2>2, <3>1, <3>2 DEF IsStored
  <2> QED
    BY <1>1, <2>1, <2>2
<1>3. \A id : IsOnItsWay(requests', id) <=> IsOnItsWay(requests, id) /\ id # q.call
  BY <1>0 DEF RequestsOK, IsOnItsWay
<1>4. RequestsOK(log', requests', calls)
  <2>1. ASSUME NEW e \in DOMAIN log' PROVE log'[e].call \in 1 .. calls
    <3>1. IsStored(log', log'[e].call)
      BY DEF IsStored
    <3>2. IsStored(log, log'[e].call) \/ log'[e].call = q.call
      BY <1>2, <3>1
    <3> QED
      BY <1>0, <3>2 DEF IsStored, RequestsOK
  <2>2. ASSUME NEW p \in requests'
        PROVE  p.call \in 1 .. calls /\ p.events # <<>> /\ ~IsStored(log', p.call)
    BY <1>0, <1>2 DEF RequestsOK
  <2> QED
    BY <1>0, <2>1, <2>2 DEF RequestsOK
<1>5. \A c \in Callers :
        /\ run'[c].id = run[c].id /\ run'[c].pc = run[c].pc
        /\ run'[c].result = run[c].result
        /\ RequestFor(run'[c]) = RequestFor(run[c])
        /\ IF Awaits(c, q) THEN run'[c].reply = [kind |-> kind, index |-> index]
                           ELSE run'[c] = run[c]
  BY <1>1 DEF Answered, TypeInv, Typed, Run, RequestFor
<1>6. ASSUME NEW c \in Callers PROVE OutcomeOK(log', requests', run'[c])
  <2> DEFINE id == run[c].id
  <2>0. OutcomeOK(log, requests, run[c]) /\ run[c] \in Run
    BY DEF OutcomeInv, TypeInv, Typed
  <2>1. IsOnItsWay(requests, q.call) /\ ~IsStored(log, q.call)
    BY <1>0 DEF RequestsOK, IsOnItsWay
  <2>2. CASE id # q.call
    <3>1. run'[c] = run[c]
      BY <1>5, <2>2 DEF Awaits
    <3>2. /\ IsStored(log', id) <=> IsStored(log, id)
          /\ IsOnItsWay(requests', id) <=> IsOnItsWay(requests, id)
          /\ \A p \in requests' : p \in requests
      BY <1>0, <1>2, <1>3, <2>2
    <3> QED
      BY <2>0, <3>1, <3>2 DEF OutcomeOK
  <2>3. CASE id = q.call /\ run[c].pc # "sent"
    <3>1. run'[c] = run[c]
      BY <1>5, <2>3 DEF Awaits
    <3>2. run[c].pc \in {"idle", "returned"}
          /\ (run[c].pc = "returned" => run[c].result = "unknown")
      BY <2>0, <2>1, <2>3 DEF OutcomeOK, Run, Phases
    <3> QED
      BY <1>3, <2>3, <3>1, <3>2 DEF OutcomeOK
  <2>4. CASE id = q.call /\ run[c].pc = "sent"
    <3>1. run'[c].reply.kind = kind /\ run'[c].pc = "sent" /\ run'[c].id = id
      BY <1>5, <2>4 DEF Awaits
    <3>2. ~IsOnItsWay(requests', id) /\ (IsStored(log', id) <=> kind = "stored")
      BY <1>2, <1>3, <2>1, <2>4
    <3> QED
      BY <1>1, <3>1, <3>2 DEF OutcomeOK
  <2> QED
    BY <2>2, <2>3, <2>4
<1>7. IdsOK'
  BY <1>0, <1>5 DEF IdsOK
<1> QED
  BY <1>0, <1>4, <1>6, <1>7 DEF OutcomeInv

LEMMA OutcomeStep == TypeInv /\ OutcomeInv /\ [Next]_vars => OutcomeInv'
<1> SUFFICES ASSUME TypeInv, OutcomeInv, [Next]_vars PROVE OutcomeInv'
  OBVIOUS
<1>1. CASE UNCHANGED vars
  BY <1>1 DEF vars, OutcomeInv, IdsOK
<1>2. CASE Next
  BY <1>2, StartOutcome, FoldOutcome, FinishOutcome, EndContextOutcome,
     HandleWriteOutcome DEF Next
<1> QED
  BY <1>1, <1>2

\* A call that fails with a category has stored nothing and never will, one
\* that returns events has stored them (writeFailure, ErrTransient), for every
\* number of calls, callers and retries.
THEOREM OutcomesAreCertain == Spec => []OutcomeIsCertain
<1>1. OutcomeInv => OutcomeIsCertain
  BY DEF OutcomeInv, OutcomeOK, IsStored, IsOnItsWay, OutcomeIsCertain
<1> QED
  BY <1>1, TypeInit, TypeStep, OutcomeInit, OutcomeStep, PTL DEF Spec

-----------------------------------------------------------------------------
(***************************************************************************)
(* Retries: behind every event an OnStateRead was refused on, the subject  *)
(* has a later one.  It is stored by the time of the refusal, and so before *)
(* the next read is requested, which therefore hands it out.               *)
(***************************************************************************)

\* Subject s has an event behind l among the first n of the log.
Beyond(lg, s, l, n) == \E e \in 1 .. n : e > l /\ On(lg, s, e)

RetryOK(lg, r) ==
    /\ r.pc \in {"fold", "read", "put", "folded", "write", "sent"} =>
          \A l \in r.refuted : Beyond(lg, r.subject, l, Len(lg))
    /\ r.pc \in {"read", "put", "folded"} =>
          \A l \in r.refuted : Beyond(lg, r.subject, l, r.reach)
    /\ (r.pc = "sent" /\ r.kind = "Execute" /\ r.reply.kind = "violated") =>
          (IsOnStateRead(r.declared[r.reply.index]) =>
             Beyond(lg, r.subject, r.last, Len(lg)))

RetryInv == \A c \in Callers : RetryOK(log, run[c])

LEMMA RetryInit == Init => RetryInv
BY DEF Init, RetryInv, RetryOK, Returned

LEMMA RunRetry ==
    ASSUME TypeInv, RetryInv, NEW c \in Callers, NEW r, RetryOK(log, r),
           run' = [run EXCEPT ![c] = r], UNCHANGED log
    PROVE  RetryInv'
BY DEF TypeInv, Typed, RetryInv

\* A call that has been refused nothing yet, or has returned.
LEMMA NothingRefuted ==
    ASSUME NEW r, r.refuted = {}, r.pc # "sent"
    PROVE  RetryOK(log, r)
BY DEF RetryOK

LEMMA ReturnRetry ==
    ASSUME TypeInv, RetryInv, NEW c \in Callers, NEW result, Return(c, result),
           UNCHANGED log
    PROVE  RetryInv'
<1>1. RetryOK(log, Returned(run[c].id, result))
  BY NothingRefuted DEF Returned
<1> QED
  BY <1>1, RunRetry DEF Return

LEMMA BeginRetry ==
    ASSUME TypeInv, RetryInv, NEW c \in Callers, NEW kind, NEW s, NEW d, NEW declared,
           NEW events, NEW phase \in {"fold", "write"}, NEW result,
           Begin(c, kind, s, d, declared, events, phase, result)
    PROVE  RetryInv'
<1> DEFINE r == [Returned(calls + 1, "none") EXCEPT
                   !.pc = phase, !.kind = kind, !.subject = s, !.def = d,
                   !.declared = declared, !.events = events]
<1>1. RetryOK(log, r) /\ RetryOK(log, Returned(calls + 1, result))
  BY DEF RetryOK, Returned
<1>2. \/ run' = [run EXCEPT ![c] = Returned(calls + 1, result)]
      \/ run' = [run EXCEPT ![c] = r]
  BY DEF Begin
<1> HIDE DEF r
<1> QED
  BY <1>1, <1>2, RunRetry DEF Begin

LEMMA StartRetry ==
    ASSUME TypeInv, RetryInv, NEW c \in Callers, Start(c)
    PROVE  RetryInv'
<1>1. ASSUME NEW s \in Subjects, NEW d \in DecidedOn, NEW declared \in Declarations,
             StartExecute(c, s, d, declared)
      PROVE  RetryInv'
  BY <1>1, BeginRetry DEF StartExecute
<1>2. ASSUME NEW s \in Subjects, NEW d \in Defs, StartLoad(c, s, d)
      PROVE  RetryInv'
  BY <1>2, BeginRetry DEF StartLoad
<1>3. ASSUME NEW events \in Writes, NEW declared \in Declarations,
             StartWrite(c, events, declared)
      PROVE  RetryInv'
  BY <1>3, BeginRetry DEF StartWrite
<1> QED
  BY <1>1, <1>2, <1>3 DEF Start

LEMMA FoldRetry ==
    ASSUME TypeInv, RetryInv, NEW c \in Callers, Fold(c)
    PROVE  RetryInv'
<1>0. run[c] \in Run /\ RetryOK(log, run[c])
  BY DEF TypeInv, Typed, RetryInv
<1>1. CASE FoldGet(c)
  <2>1. CASE IsOtherShape(c)
    BY <1>1, <2>1, ReturnRetry DEF FoldGet
  <2>2. CASE ~IsOtherShape(c)
    <3> DEFINE st == IF IsHit(c) THEN CachedEntry(c).state ELSE <<>>
               rl == IF IsHit(c) THEN CachedEntry(c).rules ELSE {run[c].def}
               l == IF IsHit(c) THEN CachedEntry(c).lastEventID ELSE NoEvent
               r == [run[c] EXCEPT !.pc = "read", !.state = st, !.rules = rl,
                                   !.last = l, !.reach = Len(log)]
    <3> HIDE DEF st, rl, l
    <3>1. /\ r.pc = "read" /\ r.reach = Len(log)
          /\ r.subject = run[c].subject /\ r.refuted = run[c].refuted
      BY <1>0 DEF Run
    <3>2. run' = [run EXCEPT ![c] = r]
      BY <1>1, <2>2 DEF FoldGet, st, rl, l
    <3> HIDE DEF r
    <3>3. RetryOK(log, r)
      BY <1>0, <1>1, <3>1 DEF FoldGet, RetryOK
    <3> QED
      BY <1>1, <3>2, <3>3, RunRetry DEF FoldGet
  <2> QED
    BY <2>1, <2>2
<1>2. CASE CopyFails(c)
  BY <1>2, ReturnRetry DEF CopyFails
<1>3. CASE ReadEvent(c)
  <2>1. PICK e \in DOMAIN log :
          run' = [run EXCEPT ![c].state = Evolved(@, e), ![c].last = e,
                             ![c].rules = EvolvedBy(@, run[c].def, e)]
    BY <1>3 DEF ReadEvent
  <2> DEFINE st == Evolved(run[c].state, e)
             rl == EvolvedBy(run[c].rules, run[c].def, e)
             r == [run[c] EXCEPT !.state = st, !.last = e, !.rules = rl]
  <2> HIDE DEF st, rl
  <2>2. /\ r.pc = "read" /\ r.reach = run[c].reach
        /\ r.subject = run[c].subject /\ r.refuted = run[c].refuted
    BY <1>0, <1>3 DEF Run, ReadEvent
  <2>3. run' = [run EXCEPT ![c] = r]
    BY <2>1 DEF st, rl
  <2> HIDE DEF r
  <2>4. RetryOK(log, r)
    BY <1>0, <1>3, <2>2 DEF ReadEvent, RetryOK
  <2> QED
    BY <1>3, <2>3, <2>4, RunRetry DEF ReadEvent
<1>4. CASE ReadRefuses(c)
  BY <1>4, ReturnRetry DEF ReadRefuses
<1>5. CASE ReadFails(c)
  BY <1>5, ReturnRetry DEF ReadFails
<1>6. ASSUME ReadEnds(c) \/ CachePut(c)
      PROVE  RetryInv'
  <2>1. PICK phase \in {"put", "folded"} : run' = [run EXCEPT ![c].pc = phase]
    BY <1>6 DEF ReadEnds, CachePut
  <2> DEFINE r == [run[c] EXCEPT !.pc = phase]
  <2>2. /\ r.pc = phase /\ r.reach = run[c].reach
        /\ r.subject = run[c].subject /\ r.refuted = run[c].refuted
        /\ run' = [run EXCEPT ![c] = r]
    BY <1>0, <2>1 DEF Run
  <2>3. run[c].pc \in {"read", "put"} /\ UNCHANGED log
    BY <1>6 DEF ReadEnds, CachePut
  <2> HIDE DEF r
  <2>4. RetryOK(log, r)
    BY <1>0, <2>2, <2>3 DEF RetryOK
  <2> QED
    BY <2>2, <2>3, <2>4, RunRetry
<1> QED
  BY <1>1, <1>2, <1>3, <1>4, <1>5, <1>6 DEF Fold

LEMMA FinishRetry ==
    ASSUME TypeInv, RetryInv, NEW c \in Callers, Finish(c)
    PROVE  RetryInv'
<1>0. run[c] \in Run /\ CallOK(c, run[c]) /\ RetryOK(log, run[c])
  BY DEF TypeInv, Typed, CallsOK, RetryInv
<1>1. CASE LoadReturns(c)
  BY <1>1, ReturnRetry DEF LoadReturns
<1>2. CASE Decide(c)
  <2>1. ASSUME NEW result, Return(c, result)
        PROVE  RetryInv'
    BY <1>2, <2>1, ReturnRetry DEF Decide
  <2>2. ASSUME run' = [run EXCEPT ![c].pc = "fold", ![c].attempt = @ + 1]
        PROVE  RetryInv'
    <3> DEFINE r == [run[c] EXCEPT !.pc = "fold", !.attempt = @ + 1]
    <3>1. /\ r.pc = "fold" /\ r.subject = run[c].subject /\ r.refuted = run[c].refuted
          /\ run' = [run EXCEPT ![c] = r]
      BY <1>0, <2>2 DEF Run
    <3> HIDE DEF r
    <3>2. RetryOK(log, r)
      BY <1>0, <1>2, <3>1 DEF Decide, RetryOK
    <3> QED
      BY <1>2, <3>1, <3>2, RunRetry DEF Decide
  <2>3. ASSUME NEW events, run' = [run EXCEPT ![c].pc = "write", ![c].events = events]
        PROVE  RetryInv'
    <3> DEFINE r == [run[c] EXCEPT !.pc = "write", !.events = events]
    <3>1. /\ r.pc = "write" /\ r.subject = run[c].subject /\ r.refuted = run[c].refuted
          /\ run' = [run EXCEPT ![c] = r]
      BY <1>0, <2>3 DEF Run
    <3> HIDE DEF r
    <3>2. RetryOK(log, r)
      BY <1>0, <1>2, <3>1 DEF Decide, RetryOK
    <3> QED
      BY <1>2, <3>1, <3>2, RunRetry DEF Decide
  <2> QED
    BY <1>2, <2>1, <2>2, <2>3 DEF Decide
<1>3. CASE BeginWrite(c)
  <2>1. CASE run[c].ended
    BY <1>3, <2>1, ReturnRetry DEF BeginWrite
  <2>2. CASE ~run[c].ended
    <3> DEFINE r == [run[c] EXCEPT !.pc = "sent", !.reply = NoReply]
    <3>1. /\ r.pc = "sent" /\ r.subject = run[c].subject /\ r.refuted = run[c].refuted
          /\ r.reply.kind = "none" /\ run' = [run EXCEPT ![c] = r]
      BY <1>0, <1>3, <2>2 DEF Run, BeginWrite, NoReply
    <3> HIDE DEF r
    <3>2. RetryOK(log, r)
      BY <1>0, <1>3, <3>1 DEF BeginWrite, RetryOK
    <3> QED
      BY <1>3, <3>1, <3>2, RunRetry DEF BeginWrite
  <2> QED
    BY <2>1, <2>2
<1>4. CASE WriteSucceeds(c)
  BY <1>4, ReturnRetry DEF WriteSucceeds
<1>5. CASE WriteRefused(c)
  BY <1>5, ReturnRetry DEF WriteRefused
<1>6. CASE WriteUnknown(c)
  BY <1>6, ReturnRetry DEF WriteUnknown
<1>7. CASE WriteConflicts(c)
  <2> DEFINE refuted == IF IsOnStateRead(ViolatedPrecondition(c))
                        THEN run[c].refuted \cup {run[c].last} ELSE run[c].refuted
             r == [run[c] EXCEPT !.pc = "fold", !.attempt = @ + 1, !.events = <<>>,
                                 !.refuted = refuted]
  <2>1. \/ Return(c, "conflict")
        \/ run[c].attempt # Retries(c) /\ run' = [run EXCEPT ![c] = r]
    BY <1>7 DEF WriteConflicts, DecidesAgain, MayDecideAgain
  <2>2. CASE Return(c, "conflict")
    BY <1>7, <2>2, ReturnRetry DEF WriteConflicts
  <2>3. CASE run[c].attempt # Retries(c) /\ run' = [run EXCEPT ![c] = r]
    <3>1. run[c].kind = "Execute"
      BY <1>0, <1>7, <2>3, CheckedPreconditions DEF WriteConflicts, CallOK, Retries
    <3>2. /\ IsOnStateRead(ViolatedPrecondition(c)) =>
               Beyond(log, run[c].subject, run[c].last, Len(log))
          /\ \A l \in run[c].refuted : Beyond(log, run[c].subject, l, Len(log))
      BY <1>0, <1>7, <3>1 DEF WriteConflicts, ViolatedPrecondition, RetryOK
    <3>3. \A l \in refuted : Beyond(log, run[c].subject, l, Len(log))
      BY <3>2
    <3> HIDE DEF refuted
    <3>4. r.pc = "fold" /\ r.subject = run[c].subject /\ r.refuted = refuted
      BY <1>0 DEF Run
    <3> HIDE DEF r
    <3>5. RetryOK(log, r)
      BY <3>3, <3>4 DEF RetryOK
    <3> QED
      BY <1>7, <2>3, <3>5, RunRetry DEF WriteConflicts
  <2> QED
    BY <2>1, <2>2, <2>3
<1> QED
  BY <1>1, <1>2, <1>3, <1>4, <1>5, <1>6, <1>7 DEF Finish

LEMMA EndContextRetry ==
    ASSUME TypeInv, RetryInv, NEW c \in Callers, EndContext(c)
    PROVE  RetryInv'
<1> DEFINE r == [run[c] EXCEPT !.ended = TRUE]
<1>1. /\ r.pc = run[c].pc /\ r.subject = run[c].subject /\ r.refuted = run[c].refuted
      /\ r.kind = run[c].kind /\ r.reply = run[c].reply /\ r.declared = run[c].declared
      /\ r.last = run[c].last /\ r.reach = run[c].reach
      /\ run' = [run EXCEPT ![c] = r]
  BY DEF EndContext, TypeInv, Typed, Run
<1> HIDE DEF r
<1>2. RetryOK(log, r)
  BY <1>1 DEF RetryInv, RetryOK
<1> QED
  BY <1>1, <1>2, RunRetry DEF EndContext

\* A refused OnStateRead means that the subject has an event behind the last
\* one that was read.
LEMMA RefusedBeyond ==
    ASSUME NEW lg \in Seq(StoredEvent), NEW s, NEW l \in 0 .. Len(lg),
           l # NoEvent => On(lg, s, l), ~Holds(lg, onStateRead(s, l))
    PROVE  Beyond(lg, s, l, Len(lg))
<1>1. CASE l = NoEvent
  <2>1. \E e \in DOMAIN lg : On(lg, s, e)
    BY <1>1 DEF onStateRead, Holds
  <2> QED
    BY <1>1, <2>1 DEF Beyond, NoEvent
<1>2. CASE l # NoEvent
  <2>1. ~IsLatest(lg, s, l, Len(lg))
    BY <1>2 DEF onStateRead, Holds
  <2>2. \E f \in l+1 .. Len(lg) : On(lg, s, f)
    BY <1>2, <2>1 DEF IsLatest
  <2> QED
    BY <2>2 DEF Beyond
<1> QED
  BY <1>1, <1>2

LEMMA HandleWriteRetry ==
    ASSUME TypeInv, HistoryInv, OutcomeInv, RetryInv, NEW q \in requests, HandleWrite(q)
    PROVE  RetryInv'
<1>0. log \in Seq(StoredEvent)
  BY DEF TypeInv, Typed
<1>1. log' \in Seq(StoredEvent) /\ Extends(log', log)
  <2>1. /\ Extends(log, log)
        /\ log \o Stored(q) \in Seq(StoredEvent) /\ Extends(log \o Stored(q), log)
    BY <1>0, StoredType DEF Extends
  <2>2. log' = log \/ log' = log \o Stored(q)
    BY DEF HandleWrite
  <2> QED
    BY <1>0, <2>1, <2>2
<1>2. /\ Len(log) \in Nat /\ Len(log') \in Nat /\ Len(log) <= Len(log')
      /\ \A s, e : On(log, s, e) => On(log', s, e)
  BY <1>0, <1>1 DEF Extends, On
<1>3. /\ \A s, l, n : Beyond(log, s, l, n) => Beyond(log', s, l, n)
      /\ \A s, l : Beyond(log, s, l, Len(log)) => Beyond(log', s, l, Len(log'))
  BY <1>2 DEF Beyond
<1> SUFFICES ASSUME NEW c \in Callers PROVE RetryOK(log', run'[c])
  BY DEF RetryInv
<1>4. run[c] \in Run /\ RetryOK(log, run[c]) /\ FoldOK(log, run[c])
      /\ OutcomeOK(log, requests, run[c]) /\ CallOK(c, run[c])
  BY DEF TypeInv, Typed, CallsOK, RetryInv, HistoryInv, OutcomeInv
<1>5. RetryOK(log', run[c])
  BY <1>3, <1>4 DEF RetryOK
<1>6. PICK kind, index :
        /\ run' = Answered(q, kind, index)
        /\ kind = "violated" => log' = log /\ index \in ViolatedOf(log, q.preconditions)
  BY DEF HandleWrite
<1>7. CASE ~Awaits(c, q)
  BY <1>5, <1>6, <1>7 DEF Answered
<1>8. CASE Awaits(c, q)
  <2> DEFINE r == [run[c] EXCEPT !.reply = [kind |-> kind, index |-> index]]
  <2>1. /\ r.pc = "sent" /\ r.subject = run[c].subject /\ r.refuted = run[c].refuted
        /\ r.kind = run[c].kind /\ r.declared = run[c].declared /\ r.last = run[c].last
        /\ r.reply.kind = kind /\ r.reply.index = index
        /\ run'[c] = r
    BY <1>4, <1>6, <1>8 DEF Run, Awaits, Answered
  <2>2. ASSUME run[c].kind = "Execute", kind = "violated",
               IsOnStateRead(run[c].declared[index])
        PROVE  Beyond(log, run[c].subject, run[c].last, Len(log))
    <3> DEFINE s == run[c].subject
               l == run[c].last
               declared == run[c].declared
    <3>1. IsOnItsWay(requests, run[c].id)
      BY <1>8 DEF Awaits, IsOnItsWay
    <3>2. run[c].reply.kind = "none"
      BY <1>4, <1>8, <3>1 DEF OutcomeOK, Awaits, Run, Reply
    <3>3. q = RequestFor(run[c])
      BY <1>4, <1>8, <3>2 DEF OutcomeOK, Awaits
    <3>4. q.preconditions = resolvePreconditions(s, declared, l)
      BY <2>2, <3>3 DEF RequestFor
    <3>5. index \in DOMAIN q.preconditions /\ ~Holds(log, q.preconditions[index])
      BY <1>6, <2>2 DEF ViolatedOf
    <3>6. q.preconditions[index] = onStateRead(s, l)
      BY <2>2, <3>4, <3>5 DEF resolvePreconditions
    <3>7. l \in 0 .. Len(log) /\ (l # NoEvent => On(log, s, l))
      BY <1>4, <1>8, <2>2 DEF FoldOK, Holding, Awaits
    <3> HIDE DEF s, l
    <3>8. Beyond(log, s, l, Len(log))
      BY <1>0, <3>5, <3>6, <3>7, RefusedBeyond
    <3> QED
      BY <3>8 DEF s, l
  <2> HIDE DEF r
  <2> QED
    BY <1>3, <1>5, <1>8, <2>1, <2>2 DEF RetryOK, Awaits
<1> QED
  BY <1>7, <1>8

LEMMA RetryStep ==
    TypeInv /\ HistoryInv /\ OutcomeInv /\ RetryInv /\ [Next]_vars => RetryInv'
<1> SUFFICES ASSUME TypeInv, HistoryInv, OutcomeInv, RetryInv, [Next]_vars
             PROVE  RetryInv'
  OBVIOUS
<1>1. CASE UNCHANGED vars
  BY <1>1 DEF vars, RetryInv
<1>2. CASE Next
  BY <1>2, StartRetry, FoldRetry, FinishRetry, EndContextRetry, HandleWriteRetry DEF Next
<1> QED
  BY <1>1, <1>2

\* Deciding again after OnStateRead was refused decides on more than every
\* attempt before, for every number of retries and of calls that interfere,
\* also if the retry starts from a cached state (Execute, fold): a refusal is
\* never repeated for want of reading on.
THEOREM RetriesReadFurther == Spec => []RetryReadsFurther
<1>1. TypeInv /\ HistoryInv /\ RetryInv => RetryReadsFurther
  <2> SUFFICES ASSUME TypeInv, HistoryInv, RetryInv, NEW c \in Callers,
                      run[c].pc = "folded", NEW l \in run[c].refuted
               PROVE  l < run[c].last
    BY DEF RetryReadsFurther
  <2>1. run[c].last \in Nat /\ run[c].reach \in Nat /\ l \in Nat
    BY DEF TypeInv, Typed, Run
  <2>2. PICK e \in 1 .. run[c].reach : e > l /\ On(log, run[c].subject, e)
    BY DEF RetryInv, RetryOK, Beyond
  <2>3. \A f \in run[c].last+1 .. run[c].reach : ~On(log, run[c].subject, f)
    BY DEF HistoryInv, FoldOK, Holding
  <2> QED
    BY <2>1, <2>2, <2>3
<1> QED
  BY <1>1, TypeInit, TypeStep, HistoryInit, HistoryStep, OutcomeInit, OutcomeStep,
     RetryInit, RetryStep, PTL DEF Spec

-----------------------------------------------------------------------------
(***************************************************************************)
(* Refinement.                                                             *)
(***************************************************************************)

\* A guarded request whose preconditions hold was decided on the history of
\* its subject as of now.
LEMMA DecidedOnCurrent ==
    ASSUME TypeInv, HistoryInv, NEW q \in requests, q.guarded,
           ViolatedOf(log, q.preconditions) = {}
    PROVE  \A j \in DOMAIN q.events : IsHistory(q.basis, log, q.events[j].subject, Len(log))
<1>1. PICK s \in Subjects, l \in 0 .. Len(log) :
        /\ IsHistory(q.basis, log, s, l)
        /\ \E i \in DOMAIN q.preconditions : q.preconditions[i] = onStateRead(s, l)
        /\ \A j \in DOMAIN q.events : q.events[j].subject = s
  BY DEF HistoryInv, DecidedOK
<1>2. log \in Seq(StoredEvent) /\ Len(log) \in Nat
  BY DEF TypeInv, Typed
<1>3. Holds(log, onStateRead(s, l))
  BY <1>1 DEF ViolatedOf
<1>4. \A e \in l+1 .. Len(log) : ~On(log, s, e)
  <2>1. CASE l = NoEvent
    BY <1>2, <1>3, <2>1 DEF onStateRead, Holds
  <2>2. CASE l # NoEvent
    BY <1>2, <1>3, <2>2 DEF onStateRead, Holds, IsLatest
  <2> QED
    BY <2>1, <2>2
<1>5. IsHistory(q.basis, log, s, Len(log))
  BY <1>1, <1>2, <1>4, HistoryIsCurrent
<1> QED
  BY <1>1, <1>5

LEMMA StoreRefines ==
    ASSUME TypeInv, HistoryInv, OutcomeInv, NEW q \in requests, HandleWrite(q)
    PROVE  Serial!Store \/ UNCHANGED log
<1> SUFFICES ASSUME ViolatedOf(log, q.preconditions) = {}, log' = log \o Stored(q)
             PROVE  Serial!Store
  BY DEF HandleWrite
<1>0. log \in Seq(StoredEvent) /\ log' \in Seq(StoredEvent)
  BY StoredType DEF TypeInv, Typed
<1>1. /\ Len(log') > Len(log)
      /\ \A e \in DOMAIN log' \ DOMAIN log : \E j \in DOMAIN q.events :
            /\ log'[e].call = q.call
            /\ log'[e].first = Len(log) + 1
            /\ log'[e].guarded = q.guarded
            /\ log'[e].basis = q.basis
            /\ log'[e].subject = q.events[j].subject
      /\ \A e \in DOMAIN log : log'[e] = log[e]
  BY StoredCalls
<1>2. log'[Len(log')].call = q.call
  <2>1. Len(log') \in DOMAIN log' /\ Len(log') \notin DOMAIN log
    BY <1>0, <1>1
  <2> QED
    BY <1>1, <2>1
<1>3. \A f \in DOMAIN log : log[f].call # q.call
  BY DEF OutcomeInv, RequestsOK, IsStored
<1>4. ASSUME NEW e \in DOMAIN log' \ DOMAIN log PROVE Serial!IsDecidedOn(log'[e])
  <2>1. SUFFICES ASSUME log'[e].guarded
                 PROVE  IsHistory(log'[e].basis, log, log'[e].subject, Len(log))
    BY DEF Serial!IsDecidedOn, Serial!IsHistory, Serial!Relevant, Serial!On, Serial!FullOn,
           IsHistory, Relevant, On, FullOn
  <2> QED
    BY <1>1, <2>1, DecidedOnCurrent
<1> QED
  BY <1>1, <1>2, <1>3, <1>4 DEF Serial!Store

\* The command side implements SerialStore: for every number of stores,
\* callers, subjects, calls and retries, with or without caches, the events of
\* a command under OnStateRead are appended to exactly the history they were
\* decided on, and no call's events are stored twice (Execute, write,
\* resolvePreconditions).
THEOREM ImplementsSerialStore == Spec => IsSerial
<1>1. Init => Serial!Init
  BY DEF Init, Serial!Init
<1>2. TypeInv /\ HistoryInv /\ OutcomeInv /\ [Next]_vars => [Serial!Store]_log
  <2> SUFFICES ASSUME TypeInv, HistoryInv, OutcomeInv, [Next]_vars
               PROVE  Serial!Store \/ UNCHANGED log
    OBVIOUS
  <2>1. ASSUME NEW c \in Callers, Start(c) \/ EndContext(c) \/ Fold(c) \/ Finish(c)
        PROVE  UNCHANGED log
    BY <2>1 DEF Start, StartExecute, StartLoad, StartWrite, Begin, EndContext,
       Fold, FoldGet, CopyFails, ReadEvent, ReadRefuses, ReadFails, ReadEnds, CachePut,
       Finish, LoadReturns, Decide, BeginWrite, WriteSucceeds, WriteRefused, WriteUnknown,
       WriteConflicts
  <2> QED
    BY <2>1, StoreRefines DEF Next, vars
<1> QED
  BY <1>1, <1>2, TypeInit, TypeStep, HistoryInit, HistoryStep, OutcomeInit, OutcomeStep, PTL
     DEF Spec, IsSerial, Serial!Spec
=============================================================================
