----------------------------- MODULE StateCache -----------------------------
(***************************************************************************)
(* The cache of folded states a Store keeps (state_cache.go), as operators *)
(* on its value.  Its methods hold a mutex throughout, so each is atomic.  *)
(*                                                                         *)
(*   entries  the map: key -> [shape, state, lastEventID]                  *)
(*   order    the list of keys, from the most to the least recently used   *)
(***************************************************************************)
EXTENDS Naturals, Sequences

newStateCache == [entries |-> [k \in {} |-> k], order |-> <<>>]

Key(type, subject) == <<type, subject>>

IsCached(cache, key) == key \in DOMAIN cache.entries

\* container/list: the list without, or with another place for, one element.
PlaceOf(order, key) == CHOOSE i \in DOMAIN order : order[i] = key

Without(order, key) ==
    [i \in 1 .. Len(order) - 1 |->
        IF i < PlaceOf(order, key) THEN order[i] ELSE order[i + 1]]

PushFront(order, key) == <<key>> \o order

MoveToFront(order, key) == PushFront(Without(order, key), key)

Back(order) == order[Len(order)]

\* What get leaves behind: a hit becomes the most recently used entry.
AfterGet(cache, key) ==
    IF IsCached(cache, key)
    THEN [cache EXCEPT !.order = MoveToFront(@, key)]
    ELSE cache

With(entries, key, entry) ==
    [k \in DOMAIN entries \cup {key} |-> IF k = key THEN entry ELSE entries[k]]

\* Mutant of Replace: the fold that finishes last wins, however little it read.
ReplaceAlways(cache, key, entry) ==
    IF cache.entries[key].shape # entry.shape THEN cache
    ELSE [entries |-> With(cache.entries, key, entry),
          order   |-> MoveToFront(cache.order, key)]

\* put on a key that is cached: another shape changes nothing at all, a state
\* built from an earlier event only counts as a use.
Replace(cache, key, entry) ==
    LET old == cache.entries[key]
    IN  IF old.shape # entry.shape THEN cache
        ELSE [entries |-> IF entry.lastEventID >= old.lastEventID
                          THEN With(cache.entries, key, entry)
                          ELSE cache.entries,
              order   |-> MoveToFront(cache.order, key)]

\* Mutant of Insert: the evicted entry stays in the map.
InsertKeepsEvicted(cache, key, entry, maxSubjects) ==
    LET order == PushFront(cache.order, key)
    IN  [entries |-> With(cache.entries, key, entry),
         order   |-> IF Len(order) > maxSubjects
                     THEN SubSeq(order, 1, Len(order) - 1) ELSE order]

\* put on a key that is not cached: the least recently used entry goes, in
\* the list and in the map, if there is one too many.
Insert(cache, key, entry, maxSubjects) ==
    LET order   == PushFront(cache.order, key)
        entries == With(cache.entries, key, entry)
    IN  IF Len(order) > maxSubjects
        THEN [entries |-> [k \in DOMAIN entries \ {Back(order)} |-> entries[k]],
              order   |-> SubSeq(order, 1, Len(order) - 1)]
        ELSE [entries |-> entries, order |-> order]

AfterPut(cache, key, entry, maxSubjects) ==
    IF IsCached(cache, key)
    THEN Replace(cache, key, entry)
    ELSE Insert(cache, key, entry, maxSubjects)
=============================================================================
