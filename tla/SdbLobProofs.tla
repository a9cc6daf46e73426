----------------------------- MODULE SdbLobProofs -----------------------------
(***************************************************************************)
(* Theorems about the lives of LOBs in SdbLob and what reading delivers,   *)
(* for any LOBs and any finite set of values.                              *)
(***************************************************************************)
EXTENDS SdbLob, FiniteSetTheorems, WellFoundedInduction, TLAPS

----------------------------------------------------------------------------
Holders(l) == {v \in Value : rep[v] = l}

LobTypes ==
    /\ obj \in [Lob -> [state : {"unborn", "alive", "dead"}, refs : Nat, isLobOpen : BOOLEAN]]
    /\ DOMAIN sql = Lob
    /\ \A l \in Lob : sql[l] = [state |-> sql[l].state, pos |-> sql[l].pos]
    /\ rep \in [Value -> Lob \cup {None}]
    /\ listed \subseteq Value /\ reach \subseteq Value
    /\ dups \in [Lob -> Nat]
    /\ refused \subseteq Lob

\* A value that holds a LOB can be reached by the script or is kept by a list.
HoldersAreKnown == \A v \in Value : rep[v] # None => v \in reach \cup listed

\* isLobOpen against the LOB at the database.
OpenAgrees ==
    \A l \in Lob :
        /\ sql[l].state = "open" => l \in refused \/ (obj[l].state = "alive" /\ obj[l].isLobOpen)
        /\ sql[l].state = "closed" /\ obj[l].state = "alive" => ~ obj[l].isLobOpen

\* A script that still has a LOB whose source went while it was open knows.
GoneAreLeft ==
    \A l \in Lob : \A v \in reach :
        rep[v] = l /\ sql[l].state = "gone" /\ obj[l].isLobOpen => l \in left

LobInv ==
    /\ LobTypes
    /\ RefsCounted
    /\ HoldersAreKnown
    /\ OpenAgrees
    /\ GoneAreLeft
    /\ DestructorsAreSafe

----------------------------------------------------------------------------
(* Counting. *)

LEMMA HoldersFinite ==
    \A l : IsFiniteSet(Holders(l)) /\ Cardinality(Holders(l)) \in Nat
<1> SUFFICES ASSUME NEW l PROVE IsFiniteSet(Holders(l)) /\ Cardinality(Holders(l)) \in Nat
  OBVIOUS
<1>1. Holders(l) \subseteq Value
  BY DEF Holders
<1>2. IsFiniteSet(Holders(l))
  BY <1>1, FS_Subset, LobAssumption
<1> QED
  BY <1>2, FS_CardinalityType

LEMMA Counted ==
    ASSUME LobInv, NEW l \in Lob
    PROVE  /\ obj[l].refs = Cardinality(Holders(l)) + dups[l]
           /\ obj[l].state = "alive" <=> obj[l].refs > 0
           /\ obj[l].refs \in Nat /\ Cardinality(Holders(l)) \in Nat /\ dups[l] \in Nat
           /\ \A v \in Value : rep[v] = l => Cardinality(Holders(l)) > 0 /\ obj[l].state = "alive"
<1>1. /\ obj[l].refs = Cardinality(Holders(l)) + dups[l]
      /\ obj[l].state = "alive" <=> obj[l].refs > 0
  BY DEF LobInv, RefsCounted, Holders
<1>2. obj[l].refs \in Nat /\ dups[l] \in Nat
  BY DEF LobInv, LobTypes
<1>3. Cardinality(Holders(l)) \in Nat /\ IsFiniteSet(Holders(l))
  BY HoldersFinite
<1>4. ASSUME NEW v \in Value, rep[v] = l PROVE Cardinality(Holders(l)) # 0
  <2>1. v \in Holders(l)
    BY <1>4 DEF Holders
  <2> QED
    BY <1>3, <2>1, FS_EmptySet
<1> QED
  BY <1>1, <1>2, <1>3, <1>4

LEMMA CountedAgain ==
    ASSUME \A k \in Lob : /\ obj'[k].refs = Cardinality(Holders(k)') + dups'[k]
                          /\ obj'[k].state = "alive" <=> obj'[k].refs > 0
    PROVE  RefsCounted'
BY DEF RefsCounted, Holders

\* A value that holds nothing comes to hold LOB l.
LEMMA OneMoreHolder ==
    ASSUME LobTypes, NEW v \in Value, rep[v] = None, NEW l \in Lob, rep' = [rep EXCEPT ![v] = l]
    PROVE  /\ Cardinality(Holders(l)') = Cardinality(Holders(l)) + 1
           /\ \A k \in Lob : k # l => Holders(k)' = Holders(k)
<1>1. l # None
  BY LobAssumption
<1>2. Holders(l)' = Holders(l) \cup {v} /\ v \notin Holders(l)
  BY <1>1 DEF Holders, LobTypes
<1>3. Cardinality(Holders(l) \cup {v}) = Cardinality(Holders(l)) + 1
  BY <1>2, HoldersFinite, FS_AddElement
<1>4. \A k \in Lob : k # None
  BY LobAssumption
<1>5. \A k \in Lob : k # l => Holders(k)' = Holders(k)
  BY <1>4 DEF Holders, LobTypes
<1> QED
  BY <1>2, <1>3, <1>5

\* A value that holds LOB l holds it no more.
LEMMA OneHolderLess ==
    ASSUME LobTypes, NEW v \in Value, NEW l \in Lob, rep[v] = l, rep' = [rep EXCEPT ![v] = None]
    PROVE  /\ Cardinality(Holders(l)') = Cardinality(Holders(l)) - 1
           /\ Cardinality(Holders(l)) > 0
           /\ \A k \in Lob : k # l => Holders(k)' = Holders(k)
<1>1. \A k \in Lob : k # None
  BY LobAssumption
<1>2. Holders(l)' = Holders(l) \ {v} /\ v \in Holders(l)
  BY <1>1 DEF Holders, LobTypes
<1>3. Cardinality(Holders(l) \ {v}) = Cardinality(Holders(l)) - 1
  BY <1>2, HoldersFinite, FS_RemoveElement
<1>4. Cardinality(Holders(l)) # 0
  BY <1>2, HoldersFinite, FS_EmptySet
<1>5. \A k \in Lob : k # l => Holders(k)' = Holders(k)
  BY <1>1 DEF Holders, LobTypes
<1> QED
  BY <1>2, <1>3, <1>4, <1>5, HoldersFinite

----------------------------------------------------------------------------
(* The actions. *)

LEMMA LobInit == Init => LobInv
<1> SUFFICES ASSUME Init PROVE LobInv
  OBVIOUS
<1>1. LobTypes
  BY DEF Init, LobTypes, NotOpen
<1>2. \A l \in Lob : Holders(l) = {}
  BY LobAssumption DEF Init, Holders
<1>3. RefsCounted
  <2>1. \A l \in Lob : Cardinality({v \in Value : rep[v] = l}) = 0
    BY <1>2, FS_EmptySet DEF Holders
  <2> QED
    BY <2>1 DEF RefsCounted, Init
<1>4. HoldersAreKnown /\ OpenAgrees /\ GoneAreLeft /\ DestructorsAreSafe
  BY DEF Init, HoldersAreKnown, OpenAgrees, GoneAreLeft, DestructorsAreSafe, NotOpen
<1> QED
  BY <1>1, <1>3, <1>4 DEF LobInv

\* Reading, looping and crashing touch no object and no count.
LEMMA NoObjectTouched ==
    ASSUME LobInv, UNCHANGED <<obj, rep, listed, reach, dups, left, refused>>,
           DOMAIN sql' = Lob,
           \A l \in Lob : /\ sql'[l] = [state |-> sql'[l].state, pos |-> sql'[l].pos]
                         /\ sql'[l].state = sql[l].state,
           fault' = "closedGone" => fault = "closedGone" \/ left # {}
    PROVE  LobInv'
<1>1. LobTypes'
  BY DEF LobInv, LobTypes
<1>2. RefsCounted'
  BY DEF LobInv, RefsCounted
<1> QED
  BY <1>1, <1>2 DEF LobInv, HoldersAreKnown, OpenAgrees, GoneAreLeft, DestructorsAreSafe

LEMMA ReadingTouchesNone ==
    ASSUME LobTypes, NEW l \in Lob, NEW from, NEW length, Moves(l, from, length)
    PROVE  /\ DOMAIN sql' = Lob
           /\ \A k \in Lob : /\ sql'[k] = [state |-> sql'[k].state, pos |-> sql'[k].pos]
                             /\ sql'[k].state = sql[k].state
<1> DEFINE p == From(l, from) + Len(Characters(l, from, length))
<1>1. sql' = [sql EXCEPT ![l].pos = p]
  BY DEF Moves
<1> HIDE DEF p
<1>2. sql'[l] = [sql[l] EXCEPT !.pos = p]
  BY <1>1 DEF LobTypes
<1>3. sql[l] = [state |-> sql[l].state, pos |-> sql[l].pos]
  BY DEF LobTypes
<1>4. sql'[l] = [state |-> sql[l].state, pos |-> p]
  BY <1>2, <1>3
<1> QED
  BY <1>1, <1>4 DEF LobTypes

LEMMA FetchKeeps ==
    ASSUME LobInv, NEW l \in Lob, NEW v \in Value, NEW asList \in BOOLEAN, Fetch(l, v, asList)
    PROVE  LobInv'
<1> USE DEF LobInv
<1>1. rep[v] = None
  BY DEF Fetch, HoldersAreKnown
<1>2. LobTypes'
  BY DEF LobTypes, Fetch
<1>3. RefsCounted'
  <2>1. /\ Cardinality(Holders(l)') = Cardinality(Holders(l)) + 1
        /\ \A k \in Lob : k # l => Holders(k)' = Holders(k)
    BY <1>1, OneMoreHolder DEF Fetch
  <2>2. obj[l].refs = 0 /\ obj[l].refs = Cardinality(Holders(l)) + dups[l]
    BY Counted DEF Fetch
  <2>3. Cardinality(Holders(l)) = 0 /\ dups[l] = 0
    BY <2>2, HoldersFinite DEF LobTypes
  <2>4. obj'[l].refs = Cardinality(Holders(l)') + dups'[l] /\ obj'[l].state = "alive" /\ obj'[l].refs > 0
    BY <2>1, <2>3 DEF Fetch, LobTypes
  <2>5. \A k \in Lob : k # l => obj'[k] = obj[k] /\ dups'[k] = dups[k]
    BY DEF Fetch, LobTypes
  <2> QED
    BY <2>1, <2>4, <2>5, Counted, CountedAgain
<1>4. HoldersAreKnown'
  BY DEF HoldersAreKnown, Fetch, LobTypes
<1>5. OpenAgrees'
  BY DEF OpenAgrees, Fetch, LobTypes
<1>6. GoneAreLeft'
  BY DEF GoneAreLeft, Fetch, LobTypes
<1> QED
  BY <1>2, <1>3, <1>4, <1>5, <1>6 DEF DestructorsAreSafe, Fetch

LEMMA DuplicateKeeps ==
    ASSUME LobInv, NEW v \in Value, Duplicate(v)
    PROVE  LobInv'
<1> USE DEF LobInv
<1> DEFINE l == rep[v]
<1>1. l \in Lob
  BY DEF Duplicate, Handles, LobTypes
<1> HIDE DEF l
<1>2. /\ obj' = [obj EXCEPT ![l].refs = @ + 1] /\ dups' = [dups EXCEPT ![l] = @ + 1]
      /\ UNCHANGED <<sql, rep, listed, reach, left, refused, fault>>
  BY DEF Duplicate, l
<1>3. LobTypes'
  BY <1>1, <1>2 DEF LobTypes
<1>4. \A k \in Lob : obj'[k].state = obj[k].state /\ obj'[k].isLobOpen = obj[k].isLobOpen
  BY <1>1, <1>2 DEF LobTypes
<1>5. RefsCounted'
  <2>1. obj'[l].refs = obj[l].refs + 1 /\ dups'[l] = dups[l] + 1
    BY <1>1, <1>2 DEF LobTypes
  <2>2. \A k \in Lob : k # l => obj'[k] = obj[k] /\ dups'[k] = dups[k]
    BY <1>2 DEF LobTypes
  <2>3. obj[l].refs = Cardinality(Holders(l)) + dups[l] /\ (obj[l].state = "alive" <=> obj[l].refs > 0)
    BY <1>1, Counted
  <2>4. rep[v] = l
    BY DEF l
  <2>5. Cardinality(Holders(l)) > 0
    BY <1>1, <2>4, Counted
  <2>6. /\ obj'[l].refs = Cardinality(Holders(l)) + dups'[l]
        /\ obj'[l].state = "alive" /\ obj'[l].refs > 0
    <3>1. obj[l].refs > 0 /\ obj[l].state = "alive" /\ obj[l].refs \in Nat /\ dups[l] \in Nat
      BY <1>1, <2>3, <2>5, Counted
    <3>2. Cardinality(Holders(l)) \in Nat
      BY HoldersFinite
    <3> QED
      BY <1>1, <1>4, <2>1, <2>3, <3>1, <3>2
  <2>7. \A k : Holders(k)' = Holders(k)
    BY <1>2 DEF Holders
  <2> QED
    BY <2>2, <2>6, <2>7, Counted, CountedAgain
<1> QED
  BY <1>2, <1>3, <1>4, <1>5 DEF HoldersAreKnown, OpenAgrees, GoneAreLeft, DestructorsAreSafe

\* A value gives its LOB back: what stays right of the rest.
LEMMA FreeIntRepKeeps ==
    ASSUME LobInv, NEW v \in Value, rep[v] # None, FreeIntRep(v),
           reach' \subseteq reach, reach \subseteq reach' \cup {v},
           UNCHANGED <<listed, dups, left, fault>>
    PROVE  LobInv'
<1> USE DEF LobInv
<1>1. PICK l \in Lob : rep[v] = l
  BY DEF LobTypes
<1>a. /\ rep' = [rep EXCEPT ![v] = None]
      /\ IF obj[l].refs = 1 THEN Destroy(l)
         ELSE obj' = [obj EXCEPT ![l].refs = @ - 1] /\ UNCHANGED <<sql, refused>>
  BY <1>1 DEF FreeIntRep, LastHolder
<1>b. rep[v] = l /\ rep' = [rep EXCEPT ![v] = None] /\ LobTypes
  BY <1>1, <1>a
<1>2. /\ Cardinality(Holders(l)') = Cardinality(Holders(l)) - 1
      /\ Cardinality(Holders(l)) > 0
      /\ \A k \in Lob : k # l => Holders(k)' = Holders(k)
  BY <1>1, <1>b, OneHolderLess
<1>3. obj[l].refs = Cardinality(Holders(l)) + dups[l] /\ obj[l].state = "alive" /\ obj[l].refs > 0
  BY <1>1, <1>2, Counted
<1>4. \A k \in Lob : k # l => obj'[k] = obj[k] /\ sql'[k] = sql[k]
  BY <1>a DEF Destroy, LobTypes
<1>5. /\ obj'[l] \in [state : {"unborn", "alive", "dead"}, refs : Nat, isLobOpen : BOOLEAN]
      /\ obj'[l].refs = obj[l].refs - 1 /\ obj'[l].isLobOpen = obj[l].isLobOpen
      /\ obj'[l].state = "alive" <=> obj'[l].refs > 0
  <2>1. obj[l] \in [state : {"unborn", "alive", "dead"}, refs : Nat, isLobOpen : BOOLEAN]
        /\ DOMAIN obj = Lob
    BY <1>1, <1>b DEF LobTypes
  <2>2. CASE obj[l].refs = 1
    <3>1. obj'[l] = [obj[l] EXCEPT !.state = "dead", !.refs = 0]
      BY <1>1, <1>a, <2>1, <2>2 DEF Destroy
    <3>2. obj[l] = [state |-> obj[l].state, refs |-> obj[l].refs, isLobOpen |-> obj[l].isLobOpen]
      BY <2>1
    <3>3. obj'[l] = [state |-> "dead", refs |-> 0, isLobOpen |-> obj[l].isLobOpen]
      BY <3>1, <3>2
    <3> QED
      BY <2>1, <2>2, <3>3
  <2>3. CASE obj[l].refs # 1
    <3>1. obj'[l] = [obj[l] EXCEPT !.refs = @ - 1]
      BY <1>1, <1>a, <2>1, <2>3
    <3> QED
      BY <1>3, <2>1, <2>3, <3>1
  <2> QED
    BY <2>2, <2>3
<1>6. DOMAIN obj' = Lob /\ DOMAIN sql' = Lob
  BY <1>a DEF Destroy, LobTypes
<1>7. obj' \in [Lob -> [state : {"unborn", "alive", "dead"}, refs : Nat, isLobOpen : BOOLEAN]]
  <2>1. obj' = [k \in Lob |-> obj'[k]]
    BY <1>a, <1>6 DEF Destroy, LobTypes
  <2> QED
    BY <1>4, <1>5, <2>1 DEF LobTypes
<1>8. /\ sql'[l] = [state |-> sql'[l].state, pos |-> sql'[l].pos]
      /\ sql'[l].state = sql[l].state \/ (sql'[l].state = "closed" /\ obj'[l].state = "dead")
      /\ refused \subseteq refused' /\ refused' \subseteq Lob
  <2>1. CASE sql' = sql
    BY <1>1, <1>a, <1>b, <2>1 DEF LobTypes, Destroy
  <2>2. CASE sql' = [sql EXCEPT ![l] = NotOpen("closed")] /\ refused' = refused /\ Destroy(l)
    <3>1. sql'[l] = [state |-> "closed", pos |-> 0]
      BY <1>1, <1>b, <2>2 DEF LobTypes, NotOpen
    <3>2. obj'[l] = [obj[l] EXCEPT !.state = "dead", !.refs = 0]
      BY <1>1, <1>b, <2>2 DEF LobTypes, Destroy
    <3>3. obj[l] \in [state : {"unborn", "alive", "dead"}, refs : Nat, isLobOpen : BOOLEAN]
      BY <1>1, <1>b DEF LobTypes
    <3> QED
      BY <1>b, <2>2, <3>1, <3>2, <3>3 DEF LobTypes
  <2> QED
    BY <1>a, <2>1, <2>2 DEF Destroy
<1>9. LobTypes'
  BY <1>a, <1>4, <1>6, <1>7, <1>8 DEF LobTypes
<1>10. RefsCounted'
  <2>1. obj'[l].refs = Cardinality(Holders(l)') + dups'[l]
    BY <1>1, <1>2, <1>3, <1>5, HoldersFinite DEF LobTypes
  <2>2. \A k \in Lob : k # l => /\ obj'[k].refs = Cardinality(Holders(k)') + dups'[k]
                                /\ obj'[k].state = "alive" <=> obj'[k].refs > 0
    BY <1>2, <1>4, Counted
  <2>3. \A k \in Lob : /\ obj'[k].refs = Cardinality(Holders(k)') + dups'[k]
                       /\ obj'[k].state = "alive" <=> obj'[k].refs > 0
    BY <1>5, <2>1, <2>2
  <2> QED
    BY <2>3, CountedAgain
<1>11. HoldersAreKnown'
  BY <1>a DEF HoldersAreKnown, LobTypes
<1>12. OpenAgrees'
  <2>1. sql'[l].state = "open" => l \in refused' \/ (obj'[l].state = "alive" /\ obj'[l].isLobOpen)
    <3>1. CASE obj[l].refs = 1 /\ obj[l].isLobOpen
      <4>1. \/ sql' = [sql EXCEPT ![l] = NotOpen("closed")]
            \/ refused' = refused \cup {l}
        BY <1>a, <3>1 DEF Destroy
      <4>2. CASE sql' = [sql EXCEPT ![l] = NotOpen("closed")]
        BY <1>1, <1>b, <4>2 DEF NotOpen, LobTypes
      <4>3. CASE refused' = refused \cup {l}
        BY <4>3
      <4> QED
        BY <4>1, <4>2, <4>3
    <3>2. CASE obj[l].refs = 1 /\ ~ obj[l].isLobOpen
      BY <1>1, <1>8, <1>a, <3>2 DEF Destroy, OpenAgrees
    <3>3. CASE obj[l].refs # 1
      <4>1. sql' = sql /\ obj'[l].refs > 0
        BY <1>a, <1>3, <1>5, <3>3, <1>1 DEF LobTypes
      <4> QED
        BY <1>1, <1>5, <1>8, <4>1 DEF OpenAgrees
    <3> QED
      BY <3>1, <3>2, <3>3
  <2>2. sql'[l].state = "closed" /\ obj'[l].state = "alive" => ~ obj'[l].isLobOpen
    BY <1>1, <1>3, <1>5, <1>8 DEF OpenAgrees
  <2> QED
    BY <1>4, <1>8, <2>1, <2>2 DEF OpenAgrees
<1>13. GoneAreLeft'
  <2> SUFFICES ASSUME NEW k \in Lob, NEW u \in reach', rep'[u] = k, sql'[k].state = "gone", obj'[k].isLobOpen
               PROVE  k \in left
    BY DEF GoneAreLeft
  <2>1. u # v /\ rep[u] = k /\ u \in reach
    BY <1>a, LobAssumption DEF LobTypes
  <2>2. sql[k].state = "gone" /\ obj[k].isLobOpen
    BY <1>4, <1>5, <1>8
  <2> QED
    BY <2>1, <2>2 DEF GoneAreLeft
<1> QED
  BY <1>9, <1>10, <1>11, <1>12, <1>13 DEF DestructorsAreSafe

LEMMA SourceGoesKeeps ==
    ASSUME LobInv, NEW l \in Lob, SourceGoes(l)
    PROVE  LobInv'
<1> USE DEF LobInv
<1>1. sql' = [sql EXCEPT ![l] = NotOpen("gone")] /\ UNCHANGED <<obj, rep, listed, reach, dups, refused, fault>>
      /\ left \subseteq left'
  BY DEF SourceGoes
<1>2. LobTypes'
  BY <1>1 DEF LobTypes, NotOpen
<1>3. RefsCounted'
  BY <1>1 DEF RefsCounted
<1>4. OpenAgrees'
  BY <1>1 DEF OpenAgrees, NotOpen, LobTypes
<1>5. GoneAreLeft'
  <2> SUFFICES ASSUME NEW k \in Lob, NEW u \in reach, rep[u] = k, sql'[k].state = "gone", obj[k].isLobOpen
               PROVE  k \in left'
    BY <1>1 DEF GoneAreLeft
  <2>1. CASE k # l
    BY <1>1, <2>1 DEF GoneAreLeft, LobTypes
  <2>2. CASE k = l
    <3>1. u \in Value
      BY DEF LobTypes
    <3>2. obj[l].state = "alive"
      BY <2>2, <3>1, Counted
    <3>3. sql[l].state = "open"
      BY <2>2, <3>2 DEF OpenAgrees, SourceGoes
    <3> QED
      BY <2>2, <3>3 DEF SourceGoes
  <2> QED
    BY <2>1, <2>2
<1> QED
  BY <1>1, <1>2, <1>3, <1>4, <1>5 DEF HoldersAreKnown, DestructorsAreSafe

LEMMA CloseKeeps ==
    ASSUME LobInv, NEW v \in Value, Close(v)
    PROVE  LobInv'
<1> USE DEF LobInv
<1> DEFINE l == rep[v]
<1>1. l \in Lob
  BY DEF Close, Handles, LobTypes
<1> HIDE DEF l
<1>2. /\ sql' = [sql EXCEPT ![l] = NotOpen("closed")]
      /\ obj' = [obj EXCEPT ![l].isLobOpen = FALSE]
      /\ UNCHANGED <<rep, listed, reach, dups, left, refused, fault>>
  BY DEF Close, Closed, l
<1>3. LobTypes'
  BY <1>1, <1>2 DEF LobTypes, NotOpen
<1>4. \A k \in Lob : obj'[k].state = obj[k].state /\ obj'[k].refs = obj[k].refs
  BY <1>1, <1>2 DEF LobTypes
<1>5. RefsCounted'
  BY <1>2, <1>4 DEF RefsCounted
<1>6. OpenAgrees' /\ GoneAreLeft'
  BY <1>1, <1>2 DEF OpenAgrees, GoneAreLeft, NotOpen, LobTypes
<1> QED
  BY <1>2, <1>3, <1>5, <1>6 DEF HoldersAreKnown, DestructorsAreSafe

LEMMA LobNext == LobInv /\ [Next]_vars => LobInv'
<1> SUFFICES ASSUME LobInv, [Next]_vars PROVE LobInv'
  OBVIOUS
<1>a. LobTypes
  BY DEF LobInv
<1>1. CASE UNCHANGED <<obj, sql, rep, listed, reach, dups, left, refused, fault>>
  BY <1>a, <1>1, NoObjectTouched DEF LobTypes
<1>2. ASSUME NEW l \in Lob, NEW v \in Value, NEW asList \in BOOLEAN, Fetch(l, v, asList) PROVE LobInv'
  BY <1>2, FetchKeeps
<1>3. ASSUME NEW v \in Value, Duplicate(v) PROVE LobInv'
  BY <1>3, DuplicateKeeps
<1>4. ASSUME NEW v \in Value, Convert(v) PROVE LobInv'
  BY <1>4, FreeIntRepKeeps DEF Convert, Handles
<1>5. ASSUME NEW v \in Value, Drop(v) PROVE LobInv'
  <2>1. CASE v \in listed \/ rep[v] = None
    <3>1. UNCHANGED <<obj, sql, rep, listed, dups, left, refused, fault>> /\ reach' = reach \ {v}
      BY <1>5, <2>1 DEF Drop
    <3> QED
      BY <2>1, <3>1 DEF LobInv, LobTypes, RefsCounted, HoldersAreKnown,
         OpenAgrees, GoneAreLeft, DestructorsAreSafe
  <2>2. CASE ~ (v \in listed \/ rep[v] = None)
    BY <1>5, <2>2, FreeIntRepKeeps DEF Drop
  <2> QED
    BY <2>1, <2>2
<1>6. ASSUME NEW v \in Value, DestructorFails(v) PROVE LobInv'
  <2>1. PICK l \in Lob : rep[v] = l /\ sql[l].state = "gone" /\ obj[l].isLobOpen /\ v \in reach
    BY <1>a, <1>6 DEF DestructorFails, Doomed, LastHolder, LobTypes
  <2>2. left # {}
    BY <2>1 DEF LobInv, GoneAreLeft
  <2> QED
    BY <1>a, <1>6, <2>2, NoObjectTouched DEF DestructorFails, Crash, LobTypes
<1>7. ASSUME NEW f \in {"usedGone", "badBuffer"}, Crash(f) PROVE LobInv'
  BY <1>a, <1>7, NoObjectTouched DEF Crash, LobTypes
<1>8. ASSUME NEW l \in Lob, SourceGoes(l) PROVE LobInv'
  BY <1>8, SourceGoesKeeps
<1>9. ASSUME NEW v \in Value, Close(v) PROVE LobInv'
  BY <1>9, CloseKeeps
<1>10. ASSUME NEW l \in Lob, NEW from, NEW length, Moves(l, from, length),
              UNCHANGED <<obj, rep, listed, reach, dups, left, refused, fault>>
       PROVE  LobInv'
  BY <1>a, <1>10, ReadingTouchesNone, NoObjectTouched
<1>11. ASSUME NEW v \in Value, NEW from, NEW length, Read(v, from, length) PROVE LobInv'
  <2>1. rep[v] \in Lob
    BY <1>a, <1>11 DEF Read, Readable, Handles, LobTypes
  <2> QED
    BY <1>10, <1>11, <2>1 DEF Read
<1>12. CASE LoopReads
  <2>1. loop.lob \in Lob
    BY <1>a, <1>12 DEF LoopReads, Readable, Handles, LobTypes
  <2> QED
    BY <1>10, <1>12, <2>1 DEF LoopReads
<1> QED
  BY <1>1, <1>2, <1>3, <1>4, <1>5, <1>6, <1>7, <1>8, <1>9, <1>11, <1>12
  DEF Next, vars, UseGone, ReadNegative, LoopStarts, LoopFails, LoopRefused, LoopGivesUp

LEMMA LobInvariance == Spec => []LobInv
BY LobInit, LobNext, PTL DEF Spec

----------------------------------------------------------------------------
(* The theorems. *)

\* The count of an SdbLob is one for each value that holds it and one for each
\* copy that was lost, and it lives as long as that is not 0.
THEOREM LobsCounted == Spec => []RefsCounted
<1>1. LobInv => RefsCounted
  BY DEF LobInv
<1> QED
  BY <1>1, LobInvariance, PTL

\* A LOB that is open at the database is held by a value that the script has or a
\* list keeps, was duplicated, or is one the database has refused to close.
THEOREM OpenLobsAreHeld == Spec => []DroppedAreClosed
<1>1. LobInv => DroppedAreClosed
  <2> SUFFICES ASSUME LobInv, NEW l \in Lob, sql[l].state = "open", ~ (dups[l] > 0), l \notin refused
               PROVE  \E v \in Value : rep[v] = l /\ v \in reach \cup listed
    BY DEF DroppedAreClosed
  <2>1. obj[l].state = "alive" /\ dups[l] = 0
    BY DEF LobInv, OpenAgrees, LobTypes
  <2>2. Cardinality(Holders(l)) > 0
    BY <2>1, Counted
  <2>3. Holders(l) # {}
    BY <2>2, FS_EmptySet
  <2>4. PICK v \in Value : rep[v] = l
    BY <2>3 DEF Holders
  <2> QED
    BY <2>4, LobAssumption DEF LobInv, HoldersAreKnown
<1> QED
  BY <1>1, LobInvariance, PTL

\* No destructor closes a LOB that is gone, unless the script had it open when its
\* row, statement or session went.
THEOREM DestructorsSafe == Spec => []DestructorsAreSafe
<1>1. LobInv => DestructorsAreSafe
  BY DEF LobInv
<1> QED
  BY <1>1, LobInvariance, PTL

----------------------------------------------------------------------------
(* What one read delivers. *)

LEMMA Greatest ==
    ASSUME NEW K \in Nat, NEW S \in SUBSET (0 .. K), S # {}
    PROVE  Max(S) \in S /\ \A y \in S : y <= Max(S)
<1> DEFINE T == {K - x : x \in S}
<1>1. T \subseteq Nat /\ T # {}
  <2>1. \A x \in S : K - x \in Nat
    OBVIOUS
  <2>2. PICK x \in S : TRUE
    OBVIOUS
  <2>3. K - x \in T
    OBVIOUS
  <2> QED
    BY <2>1, <2>3
<1>2. PICK m \in T : \A k \in T : <<k, m>> \notin OpToRel(<, Nat)
  BY <1>1, WFMin, NatLessThanWellFounded, Zenon
<1>3. \A k \in T : ~ (k < m)
  BY <1>1, <1>2, Zenon DEF OpToRel
<1>4. PICK x \in S : m = K - x
  OBVIOUS
<1>5. \A y \in S : x >= y
  <2> SUFFICES ASSUME NEW y \in S PROVE x >= y
    OBVIOUS
  <2>1. K - y \in T
    OBVIOUS
  <2>2. ~ (K - y < K - x)
    BY <1>3, <1>4, <2>1
  <2> QED
    BY <2>2
<1> HIDE DEF T
<1>6. Max(S) \in S /\ \A y \in S : Max(S) >= y
  BY <1>5, Zenon DEF Max
<1> QED
  BY <1>6

LEMMA Lengths ==
    ASSUME NEW l \in Lob
    PROVE  /\ Length(l) \in Nat
           /\ \A i \in 1 .. Length(l) : Bytes(l, i, 1) \in Nat \ {0}
           /\ \A p \in 1 .. Length(l) : \A n \in 0 .. Length(l) + 1 - p : Bytes(l, p, n) \in Int
<1>1. /\ Offset[l] \in Seq(Nat) /\ Offset[l] # <<>>
      /\ \A i \in 1 .. Len(Offset[l]) - 1 :
            Offset[l][i + 1] - Offset[l][i] \in IF l \in Binary THEN {1} ELSE 1 .. 4
  BY LobAssumption
<1>2. Len(Offset[l]) \in Nat /\ Len(Offset[l]) # 0
  BY <1>1
<1>3. \A i \in 1 .. Len(Offset[l]) : Offset[l][i] \in Nat
  BY <1>1
<1>4. PICK n \in Nat : Length(l) = n /\ Len(Offset[l]) = n + 1
  <2>1. Len(Offset[l]) - 1 \in Nat /\ Len(Offset[l]) = (Len(Offset[l]) - 1) + 1
    BY <1>2
  <2> QED
    BY <2>1 DEF Length
<1>5. \A i \in 1 .. n : Offset[l][i + 1] - Offset[l][i] \in Nat \ {0}
  <2>1. 1 .. Len(Offset[l]) - 1 = 1 .. n
    BY <1>4
  <2>2. (IF l \in Binary THEN {1} ELSE 1 .. 4) \subseteq Nat \ {0}
    OBVIOUS
  <2> QED
    BY <1>1, <2>1, <2>2
<1>6. \A p \in 1 .. n : \A k \in 0 .. n + 1 - p : p + k \in 1 .. n + 1 /\ p \in 1 .. n + 1
  OBVIOUS
<1>7. \A p \in 1 .. n : \A k \in 0 .. n + 1 - p : Offset[l][p + k] - Offset[l][p] \in Int
  <2> SUFFICES ASSUME NEW p \in 1 .. n, NEW k \in 0 .. n + 1 - p PROVE Offset[l][p + k] - Offset[l][p] \in Int
    OBVIOUS
  <2>1. Offset[l][p + k] \in Nat /\ Offset[l][p] \in Nat
    BY <1>3, <1>4, <1>6
  <2> QED
    BY <2>1
<1> QED
  BY <1>4, <1>5, <1>7 DEF Bytes

\* As many characters as are left; one at least, if there is room for the next.
LEMMA FitsWhole ==
    ASSUME NEW l \in Lob, NEW p \in 1 .. Length(l), NEW bytes \in Nat
    PROVE  /\ Fits(l, p, bytes) \in 0 .. Length(l) + 1 - p
           /\ Bytes(l, p, 1) <= (IF l \in Binary THEN bytes ELSE bytes - 1) => Fits(l, p, bytes) > 0
<1> DEFINE room == IF l \in Binary THEN bytes ELSE bytes - 1
           S == {n \in 0 .. Length(l) + 1 - p : n = 0 \/ Bytes(l, p, n) <= room}
           K == Length(l) + 1 - p
<1>1. K \in Nat /\ K >= 1
  BY Lengths
<1>2. S \in SUBSET (0 .. K) /\ 0 \in S
  BY <1>1
<1>3. Bytes(l, p, 1) <= room => 1 \in S
  BY <1>1
<1>4. Fits(l, p, bytes) = Max(S)
  BY DEF Fits
<1> HIDE DEF S, K
<1>5. Max(S) \in S /\ \A y \in S : y <= Max(S)
  BY <1>1, <1>2, Greatest
<1>6. Max(S) \in 0 .. K
  BY <1>2, <1>5
<1>7. Bytes(l, p, 1) <= room => 1 <= Max(S)
  BY <1>3, <1>5
<1> QED
  BY <1>1, <1>4, <1>6, <1>7 DEF K

LEMMA Delivered ==
    ASSUME NEW l \in Lob, NEW from, NEW length \in Int, Buffer(l, length) >= 0,
           NEW p \in Nat, p >= 1, p = From(l, from)
    PROVE  \E n \in Nat :
              /\ Characters(l, from, length) = [i \in 1 .. n |-> p + i - 1]
              /\ Len(Characters(l, from, length)) = n
              /\ IF p > Length(l) THEN n = 0 ELSE n <= Length(l) + 1 - p
              /\ p <= Length(l) /\ Bytes(l, p, 1) <= length => n > 0
<1>1. Length(l) \in Nat
  BY Lengths
<1>2. Buffer(l, length) \in Nat
        /\ length = IF l \in Binary THEN Buffer(l, length) ELSE Buffer(l, length) - 1
  BY DEF Buffer
<1>3. PICK n \in Nat :
        /\ n = IF p > Length(l) THEN 0 ELSE Fits(l, p, Buffer(l, length))
        /\ IF p > Length(l) THEN n = 0 ELSE n <= Length(l) + 1 - p
        /\ p <= Length(l) /\ Bytes(l, p, 1) <= length => n > 0
  <2>1. CASE p > Length(l)
    BY <1>1, <2>1
  <2>2. CASE ~ (p > Length(l))
    <3>1. p \in 1 .. Length(l)
      BY <1>1, <2>2
    <3> QED
      BY <1>1, <1>2, <2>2, <3>1, FitsWhole
  <2> QED
    BY <2>1, <2>2
<1>4. Characters(l, from, length) = [i \in 1 .. n |-> p + i - 1]
  BY <1>3 DEF Characters
<1>5. Len([i \in 1 .. n |-> p + i - 1]) = n
  OBVIOUS
<1> QED
  BY <1>3, <1>4, <1>5

----------------------------------------------------------------------------
(* The position and the loop. *)

\* The position of a LOB that is open is that of a character or behind the last.
LoopTypes ==
    /\ \A l \in Lob :
          /\ sql[l] \in [state : {"none", "open", "closed", "gone"},
                        pos : 0 .. Length(l) + 1 + MaxFrom]
          /\ sql[l].state = "open" => sql[l].pos >= 1
    /\ dups \in [Lob -> 0 .. MaxDups]
    /\ left \subseteq Lob /\ refused \subseteq Lob
    /\ loop \in [lob : Lob \cup {None}, size : Int, upTo : Nat, inOrder : BOOLEAN,
                 at : {"off", "reading", "done"}]
    /\ fault \in {"none", "closedGone", "usedGone", "badBuffer"}

\* A loop that is reading a LOB is where the LOB is.
LoopKeepsUp ==
    loop.at # "off" =>
        /\ loop.lob \in Lob /\ obj[loop.lob].state # "unborn"
        /\ loop.at = "reading" /\ sql[loop.lob].state = "open" => loop.upTo + 1 = sql[loop.lob].pos

LoopInv == LoopTypes /\ LoopKeepsUp /\ LoopDelivers

\* A LOB stays where it is, is no longer open, or is new.
PositionKept(l) ==
    \/ sql'[l] = sql[l]
    \/ \E s \in {"closed", "gone"} : sql'[l] = NotOpen(s)
    \/ obj[l].state = "unborn" /\ sql'[l] = [state |-> "open", pos |-> 1]

LEMMA LoopInit == Init => LoopInv
<1> SUFFICES ASSUME Init PROVE LoopInv
  OBVIOUS
<1>1. \A l \in Lob : Length(l) \in Nat
  BY Lengths
<1>2. MaxFrom \in Nat /\ MaxDups \in Nat
  BY LobAssumption
<1>3. LoopTypes
  BY <1>1, <1>2 DEF Init, LoopTypes, NotOpen, NoLoop
<1> QED
  BY <1>3 DEF Init, LoopInv, LoopKeepsUp, LoopDelivers, NoLoop

LEMMA PositionTyped ==
    ASSUME LoopTypes, NEW l \in Lob, PositionKept(l)
    PROVE  /\ sql'[l] \in [state : {"none", "open", "closed", "gone"},
                          pos : 0 .. Length(l) + 1 + MaxFrom]
           /\ sql'[l].state = "open" => sql'[l].pos >= 1
<1>1. Length(l) \in Nat /\ MaxFrom \in Nat
  BY Lengths, LobAssumption
<1>2. CASE sql'[l] = sql[l]
  BY <1>2 DEF LoopTypes
<1>3. ASSUME NEW s \in {"closed", "gone"}, sql'[l] = NotOpen(s)
      PROVE  /\ sql'[l] \in [state : {"none", "open", "closed", "gone"},
                            pos : 0 .. Length(l) + 1 + MaxFrom]
             /\ sql'[l].state = "open" => sql'[l].pos >= 1
  BY <1>1, <1>3 DEF NotOpen
<1>4. CASE sql'[l] = [state |-> "open", pos |-> 1]
  BY <1>1, <1>4
<1> QED
  BY <1>2, <1>3, <1>4 DEF PositionKept

\* What leaves the loop alone, and the position of every LOB that stays open.
LEMMA LoopUntouched ==
    ASSUME LobInv, LoopInv, loop' = loop,
           \A l \in Lob : PositionKept(l),
           \A l \in Lob : obj[l].state # "unborn" => obj'[l].state # "unborn",
           dups' \in [Lob -> 0 .. MaxDups], left' \subseteq Lob, refused' \subseteq Lob,
           fault' \in {"none", "closedGone", "usedGone", "badBuffer"}
    PROVE  LoopInv'
<1>1. LoopTypes /\ LoopKeepsUp /\ LoopDelivers
  BY DEF LoopInv
<1>2. LoopTypes'
  BY <1>1, PositionTyped DEF LoopTypes
<1>3. LoopKeepsUp'
  BY <1>1 DEF LoopKeepsUp, PositionKept, NotOpen
<1>4. LoopDelivers'
  BY <1>1 DEF LoopDelivers
<1> QED
  BY <1>2, <1>3, <1>4 DEF LoopInv

LEMMA NoLoopHolds ==
    ASSUME LoopTypes', loop' = NoLoop
    PROVE  LoopInv'
BY DEF LoopInv, LoopKeepsUp, LoopDelivers, NoLoop

LEMMA NoLoopTyped ==
    NoLoop \in [lob : Lob \cup {None}, size : Int, upTo : Nat, inOrder : BOOLEAN,
                at : {"off", "reading", "done"}]
BY DEF NoLoop

\* A read moves the position of its LOB by what it delivers, and no other.
LEMMA ReadMoves ==
    ASSUME LobInv, LoopTypes, NEW l \in Lob, NEW from \in 0 .. MaxFrom, NEW length \in Int,
           Buffer(l, length) >= 0, sql[l].state = "open", Moves(l, from, length)
    PROVE  \E p \in Nat, n \in Nat :
              /\ p >= 1 /\ p = From(l, from)
              /\ Characters(l, from, length) = [i \in 1 .. n |-> p + i - 1]
              /\ p <= Length(l) /\ Bytes(l, p, 1) <= length => n > 0
              /\ sql'[l] = [state |-> "open", pos |-> p + n]
              /\ p + n \in 1 .. Length(l) + 1 + MaxFrom
              /\ \A k \in Lob : k # l => sql'[k] = sql[k]
<1>1. /\ Length(l) \in Nat /\ MaxFrom \in Nat
      /\ sql[l].pos \in 0 .. Length(l) + 1 + MaxFrom /\ sql[l].pos >= 1
      /\ DOMAIN sql = Lob /\ sql[l] = [state |-> sql[l].state, pos |-> sql[l].pos]
  BY Lengths, LobAssumption DEF LoopTypes, LobInv, LobTypes
<1>2. PICK p \in Nat : p = From(l, from) /\ p >= 1 /\ p <= Length(l) + 1 + MaxFrom
  BY <1>1 DEF From
<1>3. PICK n \in Nat :
              /\ Characters(l, from, length) = [i \in 1 .. n |-> p + i - 1]
              /\ Len(Characters(l, from, length)) = n
              /\ IF p > Length(l) THEN n = 0 ELSE n <= Length(l) + 1 - p
              /\ p <= Length(l) /\ Bytes(l, p, 1) <= length => n > 0
  BY <1>2, Delivered
<1>4. sql' = [sql EXCEPT ![l].pos = p + n]
  BY <1>2, <1>3 DEF Moves
<1>5. sql'[l] = [state |-> "open", pos |-> p + n] /\ \A k \in Lob : k # l => sql'[k] = sql[k]
  <2>1. sql'[l] = [sql[l] EXCEPT !.pos = p + n]
    BY <1>1, <1>4
  <2>2. sql[l] = [state |-> "open", pos |-> sql[l].pos]
    BY <1>1
  <2>3. sql'[l] = [state |-> "open", pos |-> p + n]
    BY <2>1, <2>2
  <2> QED
    BY <1>1, <1>4, <2>3
<1>6. p + n \in 1 .. Length(l) + 1 + MaxFrom
  BY <1>1, <1>2, <1>3
<1> QED
  BY <1>2, <1>3, <1>5, <1>6

LEMMA ReadTyped ==
    ASSUME LobInv, LoopTypes, NEW l \in Lob, NEW from \in 0 .. MaxFrom, NEW length \in Int,
           Buffer(l, length) >= 0, sql[l].state = "open", Moves(l, from, length),
           UNCHANGED <<dups, left, refused, fault>>,
           loop' \in [lob : Lob \cup {None}, size : Int, upTo : Nat, inOrder : BOOLEAN,
                     at : {"off", "reading", "done"}]
    PROVE  LoopTypes'
<1>1. PICK m \in 1 .. Length(l) + 1 + MaxFrom :
              sql'[l] = [state |-> "open", pos |-> m] /\ \A k \in Lob : k # l => sql'[k] = sql[k]
  BY ReadMoves
<1>2. Length(l) \in Nat /\ MaxFrom \in Nat
  BY Lengths, LobAssumption
<1>3. /\ sql'[l] \in [state : {"none", "open", "closed", "gone"},
                        pos : 0 .. Length(l) + 1 + MaxFrom]
      /\ sql'[l].pos >= 1
  BY <1>1, <1>2
<1>4. \A k \in Lob :
          /\ sql'[k] \in [state : {"none", "open", "closed", "gone"},
                        pos : 0 .. Length(k) + 1 + MaxFrom]
          /\ sql'[k].state = "open" => sql'[k].pos >= 1
  BY <1>1, <1>3 DEF LoopTypes
<1> QED
  BY <1>4 DEF LoopTypes

LEMMA ReadKeepsLoop ==
    ASSUME LobInv, LoopInv, NEW v \in Value, NEW from \in 0 .. MaxFrom, NEW length \in Int,
           Read(v, from, length)
    PROVE  LoopInv'
<1>1. PICK l \in Lob : rep[v] = l
  BY DEF Read, Readable, Handles, LobInv, LobTypes
<1>2. /\ Buffer(l, length) >= 0 /\ sql[l].state = "open" /\ Moves(l, from, length)
      /\ UNCHANGED <<obj, dups, left, refused, fault>>
      /\ loop' = IF loop.lob = l THEN NoLoop ELSE loop
  BY <1>1 DEF Read, Readable
<1>3. LoopTypes /\ LoopKeepsUp /\ LoopDelivers
  BY DEF LoopInv
<1>4. loop' \in [lob : Lob \cup {None}, size : Int, upTo : Nat, inOrder : BOOLEAN,
                at : {"off", "reading", "done"}]
  BY <1>2, <1>3, NoLoopTyped DEF LoopTypes
<1>5. LoopTypes'
  BY <1>2, <1>3, <1>4, ReadTyped
<1>6. CASE loop.lob = l
  BY <1>2, <1>5, <1>6, NoLoopHolds
<1>7. CASE loop.lob # l
  <2>1. \A k \in Lob : k # l => sql'[k] = sql[k]
    BY <1>2, <1>3, ReadMoves
  <2>2. LoopKeepsUp'
    BY <1>2, <1>3, <1>7, <2>1 DEF LoopKeepsUp
  <2>3. LoopDelivers'
    BY <1>2, <1>3, <1>7 DEF LoopDelivers
  <2> QED
    BY <1>5, <2>2, <2>3 DEF LoopInv
<1> QED
  BY <1>6, <1>7

LEMMA LoopStartsRight ==
    ASSUME LobInv, LoopInv, NEW v \in Value, NEW length \in Int, LoopStarts(v, length)
    PROVE  LoopInv'
<1>1. PICK l \in Lob : rep[v] = l
  BY DEF LoopStarts, Readable, Handles, LobInv, LobTypes
<1>2. /\ sql[l].state = "open" /\ UNCHANGED <<obj, sql, dups, left, refused, fault>>
      /\ loop' = [lob |-> l, size |-> length, upTo |-> sql[l].pos - 1, inOrder |-> TRUE, at |-> "reading"]
  BY <1>1 DEF LoopStarts, Readable
<1>3. LoopTypes
  BY DEF LoopInv
<1>4. sql[l].pos - 1 \in Nat /\ sql[l].pos \in Nat
  <2>1. sql[l].pos \in 0 .. Length(l) + 1 + MaxFrom /\ sql[l].pos >= 1 /\ Length(l) \in Nat /\ MaxFrom \in Nat
    BY <1>2, <1>3, Lengths, LobAssumption DEF LoopTypes
  <2> QED
    BY <2>1
<1>5. LoopTypes'
  BY <1>2, <1>3, <1>4 DEF LoopTypes
<1>6. obj[l].state = "alive"
  BY <1>1, Counted
<1>7. LoopKeepsUp'
  BY <1>2, <1>4, <1>6 DEF LoopKeepsUp
<1>8. LoopDelivers'
  BY <1>2 DEF LoopDelivers
<1> QED
  BY <1>5, <1>7, <1>8 DEF LoopInv

LEMMA LoopReadsRight ==
    ASSUME LobInv, LoopInv, LoopReads
    PROVE  LoopInv'
<1>1. LoopTypes /\ LoopKeepsUp /\ LoopDelivers
  BY DEF LoopInv
<1>2. PICK l \in Lob, length \in Int : l = loop.lob /\ length = loop.size
  BY <1>1 DEF LoopReads, LoopKeepsUp, LoopTypes
<1>3. /\ Buffer(l, length) >= 0 /\ sql[l].state = "open" /\ Moves(l, 0, length)
      /\ UNCHANGED <<obj, dups, left, refused, fault>> /\ loop.at = "reading"
  BY <1>2 DEF LoopReads, Readable
<1>4. 0 \in 0 .. MaxFrom
  BY LobAssumption
<1>5. PICK p \in Nat, n \in Nat :
              /\ p >= 1 /\ p = From(l, 0)
              /\ Characters(l, 0, length) = [i \in 1 .. n |-> p + i - 1]
              /\ p <= Length(l) /\ Bytes(l, p, 1) <= length => n > 0
              /\ sql'[l] = [state |-> "open", pos |-> p + n]
              /\ \A k \in Lob : k # l => sql'[k] = sql[k]
  BY <1>1, <1>3, <1>4, ReadMoves
<1>6. p = loop.upTo + 1 /\ loop.upTo \in Nat
  BY <1>1, <1>2, <1>3, <1>5 DEF From, LoopKeepsUp, LoopTypes
<1>7. PICK part : part = Characters(l, 0, length)
  OBVIOUS
<1>8. loop' = IF part = <<>> THEN [loop EXCEPT !.at = "done"]
              ELSE [loop EXCEPT !.upTo = Last(part), !.inOrder = @ /\ part[1] = loop.upTo + 1]
  BY <1>2, <1>7 DEF LoopReads
<1>9. loop.inOrder = TRUE /\ obj[l].state # "unborn"
  BY <1>1, <1>2, <1>3 DEF LoopKeepsUp, LoopDelivers, LoopTypes
<1>10. PICK u \in Nat : u = loop.upTo
  BY <1>6
<1> DEFINE Loops == [lob : Lob \cup {None}, size : Int, upTo : Nat, inOrder : BOOLEAN,
                    at : {"off", "reading", "done"}]
<1>13. loop \in Loops /\ loop.lob = l /\ loop.size = length
  BY <1>1, <1>2 DEF LoopTypes
<1>11. CASE n = 0
  <2>1. part = <<>>
    BY <1>5, <1>7, <1>11
  <2>2. /\ loop' \in Loops /\ loop'.lob = l /\ loop'.size = length /\ loop'.upTo = u
        /\ loop'.inOrder /\ loop'.at = "done"
    <3>1. loop' = [loop EXCEPT !.at = "done"]
      BY <1>8, <2>1
    <3> QED
      BY <1>9, <1>10, <1>13, <3>1
  <2>3. LoopTypes'
    BY <1>1, <1>3, <1>4, <1>6, <2>2, ReadTyped
  <2>4. LoopKeepsUp'
    BY <1>3, <1>9, <2>2 DEF LoopKeepsUp
  <2>5. (\A i \in 1 .. Length(l) : Bytes(l, i, 1) <= length) => u >= Length(l)
    <3> SUFFICES ASSUME \A i \in 1 .. Length(l) : Bytes(l, i, 1) <= length, ~ (u >= Length(l))
                 PROVE  FALSE
      OBVIOUS
    <3>1. Length(l) \in Nat
      BY Lengths
    <3>2. p \in 1 .. Length(l)
      BY <1>6, <1>10, <3>1
    <3> QED
      BY <1>5, <1>11, <3>1, <3>2
  <2>6. LoopDelivers'
    BY <2>2, <2>5 DEF LoopDelivers
  <2> QED
    BY <2>3, <2>4, <2>6 DEF LoopInv
<1>12. CASE n > 0
  <2>1. part # <<>> /\ part[1] = p /\ Last(part) = p + n - 1
    <3>1. part = [i \in 1 .. n |-> p + i - 1] /\ Len(part) = n
      BY <1>5, <1>7
    <3> QED
      BY <1>12, <3>1 DEF Last
  <2>2. /\ loop' \in Loops /\ loop'.lob = l /\ loop'.size = length /\ loop'.upTo = p + n - 1
        /\ loop'.inOrder /\ loop'.at = "reading"
    <3>1. loop.inOrder /\ part[1] = loop.upTo + 1
      BY <1>6, <1>9, <2>1
    <3>2. loop' = [loop EXCEPT !.upTo = p + n - 1, !.inOrder = TRUE]
      BY <1>8, <2>1, <3>1
    <3>3. p + n - 1 \in Nat
      BY <1>12
    <3>4. loop'.lob = loop.lob /\ loop'.size = loop.size /\ loop'.at = loop.at /\ loop'.upTo = p + n - 1
      BY <1>13, <3>2
    <3>5. loop'.inOrder
      BY <1>13, <3>2
    <3>6. loop' \in Loops
      BY <1>13, <3>2, <3>3
    <3> QED
      BY <1>3, <1>13, <3>4, <3>5, <3>6
  <2>3. LoopTypes'
    BY <1>1, <1>3, <1>4, <1>5, <1>12, <2>2, ReadTyped
  <2>4. LoopKeepsUp'
    BY <1>3, <1>5, <1>9, <2>2 DEF LoopKeepsUp
  <2>5. LoopDelivers'
    BY <2>2 DEF LoopDelivers
  <2> QED
    BY <2>3, <2>4, <2>5 DEF LoopInv
<1> QED
  BY <1>11, <1>12

LEMMA LoopNext == LobInv /\ LoopInv /\ [Next]_vars => LoopInv'
<1> SUFFICES ASSUME LobInv, LoopInv, [Next]_vars PROVE LoopInv'
  OBVIOUS
<1>1. LoopTypes /\ LobTypes /\ MaxDups \in Nat /\ Sizes \subseteq Int
  BY LobAssumption DEF LoopInv, LobInv
<1>2. CASE UNCHANGED vars
  BY <1>1, <1>2, LoopUntouched DEF vars, PositionKept, LoopTypes
<1>3. ASSUME NEW l \in Lob, NEW v \in Value, NEW asList \in BOOLEAN, Fetch(l, v, asList) PROVE LoopInv'
  <2>1. \A k \in Lob : PositionKept(k)
    BY <1>1, <1>3 DEF Fetch, PositionKept, LobTypes
  <2>2. \A k \in Lob : obj[k].state # "unborn" => obj'[k].state # "unborn"
    BY <1>1, <1>3 DEF Fetch, LobTypes
  <2> QED
    BY <1>1, <1>3, <2>1, <2>2, LoopUntouched DEF Fetch, LoopTypes
<1>4. ASSUME NEW v \in Value, Duplicate(v) PROVE LoopInv'
  <2>1. PICK l \in Lob : l = rep[v]
    BY <1>1, <1>4 DEF Duplicate, Handles, LobTypes
  <2>2. /\ dups[l] < MaxDups /\ obj' = [obj EXCEPT ![l].refs = @ + 1]
        /\ dups' = [dups EXCEPT ![l] = @ + 1]
    BY <1>4, <2>1 DEF Duplicate
  <2>3. dups' \in [Lob -> 0 .. MaxDups]
    BY <1>1, <2>1, <2>2 DEF LoopTypes
  <2>4. \A k \in Lob : obj[k].state # "unborn" => obj'[k].state # "unborn"
    BY <1>1, <2>2 DEF LobTypes
  <2> QED
    BY <1>1, <1>4, <2>3, <2>4, LoopUntouched DEF Duplicate, PositionKept, LoopTypes
<1>5. ASSUME NEW v \in Value, rep[v] # None, FreeIntRep(v), UNCHANGED <<dups, left, loop, fault>>
      PROVE  LoopInv'
  <2>1. PICK l \in Lob : l = rep[v]
    BY <1>1, <1>5 DEF LobTypes
  <2>2. IF obj[l].refs = 1 THEN Destroy(l)
        ELSE obj' = [obj EXCEPT ![l].refs = @ - 1] /\ UNCHANGED <<sql, refused>>
    BY <1>5, <2>1 DEF FreeIntRep, LastHolder
  <2>3. \A k \in Lob : PositionKept(k)
    BY <1>1, <2>2 DEF Destroy, PositionKept, LobTypes
  <2>4. \A k \in Lob : obj[k].state # "unborn" => obj'[k].state # "unborn"
    <3>1. CASE Destroy(l)
      <4>1. obj' = [obj EXCEPT ![l] = [obj[l] EXCEPT !.state = "dead", !.refs = 0]]
        BY <3>1 DEF Destroy
      <4>2. obj'[l].state = "dead" /\ \A k \in Lob : k # l => obj'[k] = obj[k]
        BY <1>1, <4>1 DEF LobTypes
      <4> QED
        BY <4>2
    <3>2. CASE obj' = [obj EXCEPT ![l].refs = @ - 1]
      BY <1>1, <3>2 DEF LobTypes
    <3> QED
      BY <2>2, <3>1, <3>2
  <2>5. refused' \subseteq Lob
    BY <1>1, <2>2 DEF Destroy, LoopTypes
  <2> QED
    BY <1>1, <1>5, <2>3, <2>4, <2>5, LoopUntouched DEF LoopTypes
<1>6. ASSUME NEW v \in Value, Convert(v) PROVE LoopInv'
  BY <1>5, <1>6 DEF Convert, Handles
<1>7. ASSUME NEW v \in Value, Drop(v) PROVE LoopInv'
  <2>1. CASE v \in listed \/ rep[v] = None
    <3>1. UNCHANGED <<obj, sql, dups, left, refused, loop, fault>>
      BY <1>7, <2>1 DEF Drop
    <3> QED
      BY <1>1, <3>1, LoopUntouched DEF PositionKept, LoopTypes
  <2>2. CASE ~ (v \in listed \/ rep[v] = None)
    BY <1>5, <1>7, <2>2 DEF Drop
  <2> QED
    BY <2>1, <2>2
<1>8. ASSUME NEW f \in {"closedGone", "usedGone", "badBuffer"}, Crash(f) PROVE LoopInv'
  BY <1>1, <1>8, LoopUntouched DEF Crash, PositionKept, LoopTypes
<1>9. ASSUME NEW l \in Lob, SourceGoes(l) PROVE LoopInv'
  <2>1. left' \subseteq Lob
    BY <1>1, <1>9 DEF SourceGoes, LoopTypes
  <2>2. \A k \in Lob : PositionKept(k)
    BY <1>1, <1>9 DEF SourceGoes, PositionKept, LobTypes
  <2> QED
    BY <1>1, <1>9, <2>1, <2>2, LoopUntouched DEF SourceGoes, LoopTypes
<1>10. ASSUME NEW v \in Value, Close(v) PROVE LoopInv'
  <2>1. PICK l \in Lob : l = rep[v]
    BY <1>1, <1>10 DEF Close, Handles, LobTypes
  <2>2. sql' = [sql EXCEPT ![l] = NotOpen("closed")] /\ obj' = [obj EXCEPT ![l].isLobOpen = FALSE]
    BY <1>10, <2>1 DEF Close, Closed
  <2>3. \A k \in Lob : PositionKept(k)
    BY <1>1, <2>2 DEF PositionKept, LobTypes
  <2>4. \A k \in Lob : obj[k].state # "unborn" => obj'[k].state # "unborn"
    BY <1>1, <2>2 DEF LobTypes
  <2> QED
    BY <1>1, <1>10, <2>3, <2>4, LoopUntouched DEF Close, LoopTypes
<1>11. ASSUME NEW v \in Value, NEW length \in Sizes, NEW from \in 0 .. MaxFrom, Read(v, from, length)
       PROVE  LoopInv'
  BY <1>1, <1>11, ReadKeepsLoop
<1>12. ASSUME NEW v \in Value, NEW length \in Sizes, LoopStarts(v, length) PROVE LoopInv'
  BY <1>1, <1>12, LoopStartsRight
<1>13. CASE LoopReads
  BY <1>13, LoopReadsRight
<1>14. CASE LoopGivesUp
  <2>1. LoopTypes'
    BY <1>1, <1>14, NoLoopTyped DEF LoopGivesUp, LoopTypes
  <2> QED
    BY <1>14, <2>1, NoLoopHolds DEF LoopGivesUp
<1> QED
  BY <1>2, <1>3, <1>4, <1>6, <1>7, <1>8, <1>9, <1>10, <1>11, <1>12, <1>13, <1>14
  DEF Next, DestructorFails, UseGone, ReadNegative, LoopFails, LoopRefused

LEMMA LoopInvariance == Spec => [](LobInv /\ LoopInv)
BY LobInit, LobNext, LoopInit, LoopNext, PTL DEF Spec

\* Types of the variables: the position of a LOB stays within the LOB and the
\* positions that -from can give.
THEOREM LobTypeCorrect == Spec => []TypeOK
<1>1. LobInv /\ LoopInv => TypeOK
  BY DEF LobInv, LoopInv, LobTypes, LoopTypes, TypeOK
<1> QED
  BY <1>1, LoopInvariance, PTL

\* The loop of the documentation collects the characters in their order, each
\* once, and has all of them when it ends, if each fits into a piece.
THEOREM LoopsDeliver == Spec => []LoopDelivers
<1>1. LoopInv => LoopDelivers
  BY DEF LoopInv
<1> QED
  BY <1>1, LoopInvariance, PTL
===============================================================================
