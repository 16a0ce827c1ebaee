------------------------ MODULE DevNodeSearchProofs -------------------------
(***************************************************************************)
(* DevNodeSearch finds the first sensor entity and the node of the last    *)
(* match, whatever the media device and however many entities it has; it   *)
(* ends; and the node is the wrong one exactly when the sensor's own       *)
(* lookup fails.                                                           *)
(***************************************************************************)
EXTENDS DevNodeSearch, TLAPS

Matches(last) == {Garbage} \cup {i \in 1 .. last : entities[i].lookup = "match"}

\* The entities that were compared with the sensor's name without a hit.
Passed == IF pc \in {"lookup", "compare", "found"} THEN 1 .. id - 1 ELSE 1 .. id

\* The entities whose node was looked up.
LookedUp == IF pc = "lookup" THEN id - 1 ELSE id

SearchInv ==
  /\ TypeOK
  /\ pc = "open" => id = 0
  /\ pc \in {"lookup", "compare", "found"} => id >= 1
  /\ \A i \in Passed : ~entities[i].sensor
  /\ pc = "found" => entities[id].sensor
  /\ cur_devnode \in Matches(LookedUp)
  /\ \A i \in Matches(LookedUp) : i <= cur_devnode
  /\ pc = "found" => sd_devnode_4_dtof = cur_devnode

-----------------------------------------------------------------------------
(* Facts about the operators. *)

\* The element of a set of integers that no other exceeds is its Max.
LEMMA GreatestIs ==
  ASSUME NEW S, NEW m \in S, S \subseteq Int, \A i \in S : i <= m
  PROVE  Max(S) = m
<1>1. \A x \in S : (\A y \in S : x >= y) => x = m
  OBVIOUS
<1>2. \E x \in S : \A y \in S : x >= y
  OBVIOUS
<1> QED
  BY <1>1, <1>2 DEF Max

\* The element of a set of integers that exceeds no other is its Min.
LEMMA LeastIs ==
  ASSUME NEW S, NEW m \in S, S \subseteq Int, \A i \in S : m <= i
  PROVE  Min(S) = m
<1>1. \A x \in S : (\A y \in S : x <= y) => x = m
  OBVIOUS
<1>2. \E x \in S : \A y \in S : x <= y
  OBVIOUS
<1> QED
  BY <1>1, <1>2 DEF Min

-----------------------------------------------------------------------------
(* The invariant. *)

\* The initial states satisfy the invariant.
LEMMA InitSearchInv == Init => SearchInv
<1> SUFFICES ASSUME Init PROVE SearchInv
  OBVIOUS
<1>1. PICK n \in 0 .. MaxEntities : entities \in [1 .. n -> Entities]
  BY DEF Init
<1>2. entities \in Seq(Entities) /\ Len(entities) = n
  BY <1>1, MaxEntitiesAssumption
<1>3. TypeOK
  BY <1>2, MaxEntitiesAssumption DEF Init, TypeOK, Locations, Garbage
<1> QED
  BY <1>2, <1>3 DEF Init, SearchInv, Passed, LookedUp, Matches, Garbage

\* Every step keeps the invariant.
LEMMA NextSearchInv == SearchInv /\ [Next]_vars => SearchInv'
<1> SUFFICES ASSUME SearchInv, [Next]_vars
             PROVE  SearchInv'
  OBVIOUS
<1> USE DEF SearchInv, TypeOK, Locations, Passed, LookedUp, Matches, Garbage
<1>1. CASE OpenMedia
  <2>1. id = 0
    BY <1>1 DEF OpenMedia
  <2> QED
    BY <1>1, <2>1 DEF OpenMedia
<1>2. CASE NextEntity
  BY <1>2 DEF NextEntity
<1>3. CASE EnumFails
  BY <1>3 DEF EnumFails
<1>4. CASE GetDevnode
  BY <1>4 DEF GetDevnode
<1>5. CASE CompareName
  BY <1>5 DEF CompareName
<1>6. CASE UNCHANGED vars
  BY <1>6 DEF vars
<1> QED
  BY <1>1, <1>2, <1>3, <1>4, <1>5, <1>6 DEF Next

\* The inductive invariant holds in every reachable state.
THEOREM Invariance == Spec => []SearchInv
BY InitSearchInv, NextSearchInv, PTL DEF Spec

\* The entity and both nodes stay within the media device: no lookup reads past it.
THEOREM TypeCorrect == Spec => []TypeOK
<1>1. SearchInv => TypeOK
  BY DEF SearchInv
<1> QED
  BY <1>1, Invariance, PTL

\* The search stops at the first sensor entity, and fails only if no entity it was
\* told of is the sensor.
THEOREM FindsFirstSensor == Spec => []FirstSensorFound
<1>1. SearchInv => FirstSensorFound
  <2> SUFFICES ASSUME SearchInv PROVE FirstSensorFound
    OBVIOUS
  <2> USE DEF SearchInv, TypeOK, SensorEntities, Passed
  <2>1. ASSUME pc = "failed"
        PROVE  SensorEntities \cap 1 .. id = {}
    BY <2>1
  <2>2. ASSUME pc = "found"
        PROVE  id = Min(SensorEntities)
    <3>1. id \in SensorEntities /\ SensorEntities \subseteq Int
      BY <2>2
    <3>2. \A i \in SensorEntities : id <= i
      BY <2>2
    <3> QED
      BY <3>1, <3>2, LeastIs
  <2> QED
    BY <2>1, <2>2 DEF FirstSensorFound
<1> QED
  BY <1>1, Invariance, PTL

\* The node that is opened is that of the last entity whose lookup matched.
THEOREM OpensLastMatch == Spec => []NodeOfLastMatch
<1>1. SearchInv => NodeOfLastMatch
  <2> SUFFICES ASSUME SearchInv, pc = "found"
               PROVE  sd_devnode_4_dtof = Max(Matches(id))
    BY DEF NodeOfLastMatch, Matches
  <2>1. Matches(id) \subseteq Int
    BY DEF SearchInv, TypeOK, Matches, Garbage
  <2>2. /\ cur_devnode \in Matches(id)
        /\ \A i \in Matches(id) : i <= cur_devnode
        /\ sd_devnode_4_dtof = cur_devnode
    BY DEF SearchInv, LookedUp
  <2> QED
    BY <2>1, <2>2, GreatestIs
<1> QED
  BY <1>1, Invariance, PTL

\* "Make sure the major/minor match." (v4l2.cpp:150) is violated, but only in
\* one way: the node opened is another entity's, or garbage, exactly when the
\* lookup of the sensor's own entity did not end in a match.
NodeWrongIffLookupFails ==
  pc = "found" => (NodeIsTheSensors <=> entities[id].lookup = "match")

\* A media device on which the sensor's own lookup succeeds gives its node,
\* whatever happened with the other entities; on any other it does not.
THEOREM RightNodeIffLookupMatches == Spec => []NodeWrongIffLookupFails
<1>1. SearchInv => NodeWrongIffLookupFails
  BY DEF SearchInv, TypeOK, LookedUp, Matches, Garbage, NodeWrongIffLookupFails, NodeIsTheSensors
<1> QED
  BY <1>1, Invariance, PTL

-----------------------------------------------------------------------------
(* The search ends. *)

\* How many steps the search can still take.
StepsLeft ==
  LET toCome == 3 * (Len(entities) - id)
  IN  CASE pc = "open"    -> toCome + 2
        [] pc = "enum"    -> toCome + 1
        [] pc = "lookup"  -> toCome + 3
        [] pc = "compare" -> toCome + 2
        [] OTHER          -> 0

SearchEnds == [][StepsLeft' \in Nat /\ StepsLeft' < StepsLeft]_vars

\* Every step of the search, whichever way it goes, leaves fewer to take: the
\* enumeration makes at most three steps per entity and two more.
THEOREM SearchTerminates == Spec => SearchEnds
<1>1. SearchInv /\ [Next]_vars => [StepsLeft' \in Nat /\ StepsLeft' < StepsLeft]_vars
  <2> SUFFICES ASSUME SearchInv, Next
               PROVE  StepsLeft' \in Nat /\ StepsLeft' < StepsLeft
    BY DEF vars
  <2> USE DEF SearchInv, TypeOK, StepsLeft
  <2>1. CASE OpenMedia
    BY <2>1 DEF OpenMedia
  <2>2. CASE NextEntity
    BY <2>2 DEF NextEntity
  <2>3. CASE EnumFails
    BY <2>3 DEF EnumFails
  <2>4. CASE GetDevnode
    BY <2>4 DEF GetDevnode
  <2>5. CASE CompareName
    BY <2>5 DEF CompareName
  <2> QED
    BY <2>1, <2>2, <2>3, <2>4, <2>5 DEF Next
<1> QED
  BY <1>1, Invariance, PTL DEF Spec, SearchEnds
=============================================================================
