-------------------------- MODULE BeaconingProofs ---------------------------
(***************************************************************************)
(* For any number of nodes, any IDs and any parameters: the type invariant *)
(* of Beaconing, the places that nodes can believe in, and the leader.     *)
(*                                                                         *)
(* The inductive invariant says what the counters count (the IDs that were *)
(* added to the filter, which are IDs of others) and where the timer       *)
(* stands (its beacon is due early enough for the end to lie in the        *)
(* future, which is what keeps 2 * Wait - elapsed from becoming negative). *)
(***************************************************************************)
EXTENDS MCBeaconing, FiniteSetTheorems, FunctionTheorems, TLAPS

\* Beaconing adds to the filter, and receives, IDs of others only.
HeardOthers ==
    \A n \in Node : inbox[n] \subseteq OtherIDs(n) /\ neighbors[n] \subseteq OtherIDs(n)

\* The counters are the numbers of IDs that were added.
CountsAgree ==
    \A n \in Node :
        /\ size[n] = Cardinality(neighbors[n]) + 1
        /\ position[n] = Cardinality(Lower(n, neighbors[n]))

\* The latest time after its start at which a node with r beacons to send
\* sends the next one.
Latest(r) == Wait + (Count - r + 1) * PeriodMax

\* The timer stands so that what it is for comes in time.
TimersInTime ==
    \A n \in Node :
        /\ phase[n] = "off" => elapsed[n] = 0
        /\ phase[n] = "beaconing" =>
              /\ elapsed[n] + due[n] <= 2 * Wait
              /\ remaining[n] > 0 => elapsed[n] + due[n] <= Latest(remaining[n])

IInv == TypeOK /\ HeardOthers /\ CountsAgree /\ TimersInTime

\* A node that has started is where its timer says: it sends its first beacon
\* within PeriodMax after Wait, and it ends 2 * Wait after its start.
OnSchedule ==
    \A n \in Node : phase[n] # "off" =>
        /\ remaining[n] < Count => elapsed[n] >= Wait
        /\ remaining[n] = Count => phase[n] = "beaconing"
        /\ remaining[n] = Count => elapsed[n] + due[n] <= Wait + PeriodMax
        /\ remaining[n] = Count => elapsed[n] + due[n] >= Wait
        /\ phase[n] = "beaconing" /\ remaining[n] = 0 => elapsed[n] + due[n] = 2 * Wait
        /\ phase[n] = "done" => elapsed[n] = 2 * Wait

\* m has started at most Together before n.
Abreast(n, m) == elapsed[m] - elapsed[n] <= Together

\* What m has sent has reached n, and is in the filter of n once a moment
\* after the first beacon has passed.
Hears(n, m) ==
    /\ remaining[m] < Count => ID[m] \in inbox[n] \cup neighbors[n]
    /\ elapsed[m] > Wait + PeriodMax => ID[m] \in neighbors[n]

\* Undisturbed, this holds of any two nodes that have started.
AllHear ==
    undisturbed => \A n, m \in Node :
        n # m /\ phase[n] # "off" /\ phase[m] # "off" => Abreast(n, m) /\ Hears(n, m)

-----------------------------------------------------------------------------
(***************************************************************************)
(* Lemmas about the constants and the counted sets.                        *)
(***************************************************************************)

\* Sets of IDs are finite.
LEMMA FiniteIDs ==
    /\ IsFiniteSet(IDs)
    /\ \A n \in Node : IsFiniteSet(OtherIDs(n)) /\ OtherIDs(n) \subseteq IDs
    /\ IDs \subseteq Nat
<1>1. IsFiniteSet(IDs)
  <2>1. ID \in Surjection(Node, IDs)
    BY ConstantsAssumption DEF Surjection, IDs
  <2> QED
    BY <2>1, FS_Surjection, ConstantsAssumption
<1>2. \A n \in Node : OtherIDs(n) \subseteq IDs
  BY DEF OtherIDs, IDs
<1>3. \A n \in Node : IsFiniteSet(OtherIDs(n))
  BY <1>1, <1>2, FS_Subset
<1>4. IDs \subseteq Nat
  BY ConstantsAssumption DEF IDs
<1> QED
  BY <1>1, <1>2, <1>3, <1>4

\* The bounds on the sending times: each is one period after the one before,
\* and none is after the end.
LEMMA LatestBounds ==
    /\ \A r \in 1..Count : Latest(r) \in Nat /\ Latest(r) <= 2 * Wait
    /\ \A r \in 2..Count : Latest(r - 1) = Latest(r) + PeriodMax
    /\ Wait + PeriodMax = Latest(Count)
<1>1. ASSUME NEW r \in 1..Count
      PROVE  Latest(r) \in Nat /\ Latest(r) <= 2 * Wait
  <2>1. (Count - r + 1) \in 1..Count
    BY ConstantsAssumption
  <2> DEFINE k == Count - r + 1
  <2>2. k * PeriodMax \in Nat /\ k * PeriodMax <= Count * PeriodMax
    <3> HIDE DEF k
    <3>1. k \in Nat /\ Count - k \in Nat
      BY <2>1, ConstantsAssumption DEF k
    <3>2. (Count - k) * PeriodMax >= 0
      BY <3>1, ConstantsAssumption
    <3>3. (Count - k) * PeriodMax = Count * PeriodMax - k * PeriodMax
      BY <3>1, ConstantsAssumption
    <3>4. k * PeriodMax \in Nat /\ Count * PeriodMax \in Nat
      BY <3>1, ConstantsAssumption
    <3> QED
      BY <3>2, <3>3, <3>4
  <2>3. Latest(r) = Wait + k * PeriodMax
    BY DEF Latest
  <2> HIDE DEF k
  <2> QED
    BY <2>2, <2>3, ConstantsAssumption
<1>2. ASSUME NEW r \in 2..Count
      PROVE  Latest(r - 1) = Latest(r) + PeriodMax
  <2>1. (Count - (r - 1) + 1) = (Count - r + 1) + 1
    BY ConstantsAssumption
  <2>2. Count - r + 1 \in Int
    BY ConstantsAssumption
  <2> DEFINE k == Count - r + 1
  <2>3. (k + 1) * PeriodMax = k * PeriodMax + PeriodMax
    <3> HIDE DEF k
    <3>1. k \in Int
      BY <2>2 DEF k
    <3> QED
      BY <3>1, ConstantsAssumption
  <2>4. Latest(r - 1) = Wait + (k + 1) * PeriodMax /\ Latest(r) = Wait + k * PeriodMax
    BY <2>1 DEF Latest
  <2>5. k * PeriodMax \in Int
    BY <2>2, ConstantsAssumption
  <2> HIDE DEF k
  <2> QED
    BY <2>3, <2>4, <2>5, ConstantsAssumption
<1>3. Wait + PeriodMax = Latest(Count)
  <2>1. Count - Count + 1 = 1
    BY ConstantsAssumption
  <2> QED
    BY <2>1, ConstantsAssumption DEF Latest
<1> QED
  BY <1>1, <1>2, <1>3

\* What one more ID does to the counted sets.
LEMMA OneMore ==
    ASSUME NEW n \in Node, NEW S \in SUBSET IDs, NEW i \in IDs, i \notin S
    PROVE  /\ Cardinality(S \cup {i}) = Cardinality(S) + 1
           /\ Cardinality(Lower(n, S \cup {i})) =
                 IF i < ID[n] THEN Cardinality(Lower(n, S)) + 1 ELSE Cardinality(Lower(n, S))
           /\ Cardinality(S) \in Nat
           /\ Cardinality(Lower(n, S)) \in Nat
<1>1. IsFiniteSet(S)
  BY FiniteIDs, FS_Subset
<1>2. IsFiniteSet(Lower(n, S))
  BY <1>1, FS_Subset DEF Lower
<1>3. i \notin Lower(n, S)
  BY DEF Lower
<1>4. CASE i < ID[n]
  <2>1. Lower(n, S \cup {i}) = Lower(n, S) \cup {i}
    BY <1>4 DEF Lower
  <2> QED
    BY <1>1, <1>2, <1>3, <1>4, <2>1, FS_AddElement, FS_CardinalityType
<1>5. CASE ~(i < ID[n])
  <2>1. Lower(n, S \cup {i}) = Lower(n, S)
    BY <1>5 DEF Lower
  <2> QED
    BY <1>1, <1>2, <1>5, <2>1, FS_AddElement, FS_CardinalityType
<1> QED
  BY <1>4, <1>5

-----------------------------------------------------------------------------
(***************************************************************************)
(* The invariant.                                                          *)
(***************************************************************************)

LEMMA InitInv == Init => IInv
<1> SUFFICES ASSUME Init PROVE IInv
  OBVIOUS
<1>1. TypeOK
  BY ConstantsAssumption DEF Init, TypeOK
<1>2. HeardOthers
  BY DEF Init, HeardOthers
<1>3. CountsAgree
  <2>1. \A n \in Node : Lower(n, {}) = {}
    BY DEF Lower
  <2> QED
    BY <2>1, FS_EmptySet DEF Init, CountsAgree
<1>4. TimersInTime
  BY DEF Init, TimersInTime
<1> QED
  BY <1>1, <1>2, <1>3, <1>4 DEF IInv

\* The start sets the timer to the latest time for the first of Count beacons
\* at most.
LEMMA StartInv ==
    ASSUME IInv, NEW n \in Node, beaconing_start(n)
    PROVE  IInv'
<1> USE DEF IInv
<1>0. PICK p \in Periods : due' = [due EXCEPT ![n] = Wait + p]
  BY DEF beaconing_start
<1>1. Wait + p \in 0..(2 * Wait) /\ Wait + p <= Latest(Count) /\ Latest(Count) <= 2 * Wait
  BY LatestBounds, ConstantsAssumption DEF Periods
<1>2. TypeOK'
  BY <1>0, <1>1, ConstantsAssumption DEF beaconing_start, TypeOK, countVars
<1>3. HeardOthers' /\ CountsAgree'
  BY DEF beaconing_start, HeardOthers, CountsAgree, Lower, countVars
<1>4. TimersInTime'
  BY <1>0, <1>1, LatestBounds, ConstantsAssumption
  DEF beaconing_start, TimersInTime, TypeOK, countVars
<1> QED
  BY <1>2, <1>3, <1>4

\* A beacon carries the ID of its sender to others, and is followed by another
\* in time or by the end.
LEMMA SendInv ==
    ASSUME IInv, NEW n \in Node, SendBeacon(n)
    PROVE  IInv'
<1> USE DEF IInv
<1>1. PICK to \in Receivers(n) :
         inbox' = [m \in Node |-> IF m \in to THEN inbox[m] \cup {ID[n]} ELSE inbox[m]]
  BY DEF SendBeacon
<1>2. to \subseteq Node \ {n}
  BY DEF Receivers, Listeners, Beaconing
<1>3. /\ remaining[n] \in 1..Count /\ remaining' = [remaining EXCEPT ![n] = remaining[n] - 1]
      /\ due[n] = 0 /\ elapsed[n] <= Latest(remaining[n])
      /\ elapsed[n] \in 0..(2 * Wait)
  BY ConstantsAssumption DEF SendBeacon, TypeOK, TimersInTime
<1>4. PICK d \in 0..(2 * Wait) :
        /\ due' = [due EXCEPT ![n] = d]
        /\ elapsed[n] + d <= 2 * Wait
        /\ remaining[n] > 1 => elapsed[n] + d <= Latest(remaining[n] - 1)
  <2>1. CASE remaining[n] > 1
    <3>1. PICK p \in Periods : due' = [due EXCEPT ![n] = p]
      BY <2>1 DEF SendBeacon
    <3>2. /\ Latest(remaining[n] - 1) = Latest(remaining[n]) + PeriodMax
          /\ Latest(remaining[n] - 1) <= 2 * Wait
          /\ Latest(remaining[n]) \in Nat
      BY <1>3, <2>1, LatestBounds, ConstantsAssumption
    <3>3. p \in 0..PeriodMax /\ PeriodMax \in Nat /\ Wait \in Nat
      BY ConstantsAssumption DEF Periods
    <3>4. p \in 0..(2 * Wait) /\ elapsed[n] + p <= Latest(remaining[n] - 1)
          /\ elapsed[n] + p <= 2 * Wait
      BY <1>3, <3>2, <3>3
    <3> QED
      BY <3>1, <3>4
  <2>2. CASE remaining[n] = 1
    <3>1. due' = [due EXCEPT ![n] = 2 * Wait - elapsed[n]]
      BY <2>2 DEF SendBeacon
    <3>2. 2 * Wait - elapsed[n] \in 0..(2 * Wait)
      BY <1>3, ConstantsAssumption
    <3>3. elapsed[n] + (2 * Wait - elapsed[n]) = 2 * Wait
      BY <1>3, ConstantsAssumption
    <3>4. ~(remaining[n] > 1)
      BY <2>2
    <3>5. elapsed[n] + (2 * Wait - elapsed[n]) <= 2 * Wait
      BY <3>3, ConstantsAssumption
    <3> DEFINE e == 2 * Wait - elapsed[n]
    <3>6. e \in 0..(2 * Wait) /\ due' = [due EXCEPT ![n] = e] /\ elapsed[n] + e <= 2 * Wait
      BY <3>1, <3>2, <3>5
    <3> HIDE DEF e
    <3>7. e \in 0..(2 * Wait)
      BY <3>6
    <3> USE <3>7
    <3> WITNESS e \in 0..(2 * Wait)
    <3> QED
      BY <3>4, <3>6
  <2> QED
    BY <1>3, <2>1, <2>2, ConstantsAssumption
<1>5. TypeOK'
  <2>1. ID[n] \in IDs
    BY DEF IDs
  <2>2. inbox' \in [Node -> SUBSET IDs]
    BY <1>1, <2>1 DEF TypeOK
  <2>3. remaining' \in [Node -> 0..Count]
    BY <1>3, ConstantsAssumption DEF TypeOK
  <2> QED
    BY <1>4, <2>2, <2>3 DEF SendBeacon, TypeOK, countVars
<1>6. HeardOthers'
  <2>1. \A m \in to : ID[n] \in OtherIDs(m)
    BY <1>2 DEF OtherIDs
  <2>2. \A m \in Node : inbox'[m] \subseteq OtherIDs(m)
    BY <1>1, <2>1 DEF HeardOthers
  <2> QED
    BY <2>2 DEF SendBeacon, HeardOthers, countVars, OtherIDs
<1>7. CountsAgree'
  BY DEF SendBeacon, CountsAgree, Lower, countVars
<1>8. TimersInTime'
  BY <1>3, <1>4, ConstantsAssumption DEF SendBeacon, TimersInTime, TypeOK, Latest
<1> QED
  BY <1>5, <1>6, <1>7, <1>8

\* A beacon that is handled counts once.
LEMMA HandleInv ==
    ASSUME IInv, NEW n \in Node, NEW i \in IDs, _handle_beacon(n, i)
    PROVE  IInv'
<1> USE DEF IInv
<1>1. PICK hit \in bloom_check(neighbors[n], i) :
        IF hit THEN UNCHANGED countVars
        ELSE /\ neighbors' = [neighbors EXCEPT ![n] = @ \cup {i}]
             /\ size' = [size EXCEPT ![n] = @ + 1]
             /\ position' = [position EXCEPT ![n] = IF i < ID[n] THEN @ + 1 ELSE @]
  BY DEF _handle_beacon
<1>2. i \in OtherIDs(n)
  BY DEF _handle_beacon, HeardOthers
<1>3. inbox' = [inbox EXCEPT ![n] = @ \ {i}]
  BY DEF _handle_beacon
<1>4. TimersInTime'
  BY DEF _handle_beacon, TimersInTime, timerVars, Latest
<1>5. CASE hit
  <2>1. TypeOK'
    BY <1>1, <1>3, <1>5 DEF _handle_beacon, TypeOK, timerVars, countVars
  <2>2. HeardOthers'
    BY <1>1, <1>3, <1>5 DEF HeardOthers, TypeOK, countVars, OtherIDs
  <2>3. CountsAgree'
    BY <1>1, <1>5 DEF CountsAgree, Lower, countVars
  <2> QED
    BY <1>4, <2>1, <2>2, <2>3
<1>6. CASE ~hit
  <2>1. i \notin neighbors[n]
    BY <1>1, <1>6 DEF bloom_check
  <2>2. /\ neighbors' = [neighbors EXCEPT ![n] = neighbors[n] \cup {i}]
        /\ size' = [size EXCEPT ![n] = size[n] + 1]
        /\ position' = [position EXCEPT ![n] = IF i < ID[n] THEN position[n] + 1 ELSE position[n]]
    BY <1>1, <1>6
  <2>3. neighbors[n] \in SUBSET IDs
    BY DEF TypeOK
  <2>4. TypeOK'
    BY <1>3, <2>2 DEF _handle_beacon, TypeOK, timerVars
  <2>5. HeardOthers'
    BY <1>2, <1>3, <2>2 DEF HeardOthers, TypeOK, OtherIDs
  <2>6. CountsAgree'
    <3> SUFFICES ASSUME NEW m \in Node
                 PROVE  /\ size'[m] = Cardinality(neighbors'[m]) + 1
                        /\ position'[m] = Cardinality(Lower(m, neighbors'[m]))
      BY DEF CountsAgree, Lower
    <3>1. CASE m = n
      <4>1. /\ neighbors'[n] = neighbors[n] \cup {i}
            /\ size'[n] = size[n] + 1
            /\ position'[n] = IF i < ID[n] THEN position[n] + 1 ELSE position[n]
        BY <2>2 DEF TypeOK
      <4>2. /\ size[n] = Cardinality(neighbors[n]) + 1
            /\ position[n] = Cardinality(Lower(n, neighbors[n]))
        BY DEF CountsAgree
      <4> QED
        BY <2>1, <2>3, <3>1, <4>1, <4>2, OneMore
    <3>2. CASE m # n
      <4>1. /\ neighbors'[m] = neighbors[m]
            /\ size'[m] = size[m]
            /\ position'[m] = position[m]
        BY <2>2, <3>2 DEF TypeOK
      <4> QED
        BY <4>1 DEF CountsAgree
    <3> QED
      BY <3>1, <3>2
  <2> QED
    BY <1>4, <2>4, <2>5, <2>6
<1> QED
  BY <1>5, <1>6

LEMMA EndInv ==
    ASSUME IInv, NEW n \in Node, EndBeaconing(n)
    PROVE  IInv'
<1> USE DEF IInv, EndBeaconing, timerVars, countVars
<1>1. TypeOK'
  BY DEF TypeOK
<1>2. HeardOthers'
  BY DEF HeardOthers, TypeOK, OtherIDs
<1>3. CountsAgree'
  BY DEF CountsAgree, Lower
<1>4. TimersInTime'
  BY DEF TimersInTime, TypeOK, Latest
<1> QED
  BY <1>1, <1>2, <1>3, <1>4

\* Time moves what is due and what has elapsed together.
LEMMA TickInv ==
    ASSUME IInv, Tick
    PROVE  IInv'
<1> USE DEF IInv
<1>1. \A n \in Node : /\ due[n] \in 0..(2 * Wait) /\ elapsed[n] \in 0..(2 * Wait)
                      /\ remaining[n] \in 0..Count
  BY DEF TypeOK
<1>2. \A n \in Node : n \in Beaconing =>
         /\ phase[n] = "beaconing" /\ due[n] > 0
         /\ due'[n] = due[n] - 1 /\ elapsed'[n] = elapsed[n] + 1
         /\ elapsed[n] + due[n] <= 2 * Wait
  BY DEF Tick, Beaconing, TimersInTime
<1>3. \A n \in Node : n \notin Beaconing =>
         /\ phase[n] # "beaconing" /\ due'[n] = due[n] /\ elapsed'[n] = elapsed[n]
  BY DEF Tick, Beaconing
<1>4. TypeOK'
  <2>1. \A n \in Node : due'[n] \in 0..(2 * Wait) /\ elapsed'[n] \in 0..(2 * Wait)
    BY <1>1, <1>2, <1>3, ConstantsAssumption
  <2>2. due' \in [Node -> 0..(2 * Wait)] /\ elapsed' \in [Node -> 0..(2 * Wait)]
    BY <2>1 DEF Tick
  <2>3. clock' \in 0..MaxSkew
    BY ConstantsAssumption DEF Tick, TypeOK
  <2> QED
    BY <2>2, <2>3 DEF Tick, TypeOK, countVars
<1>5. HeardOthers' /\ CountsAgree'
  BY DEF Tick, HeardOthers, CountsAgree, Lower, OtherIDs, countVars
<1>6. TimersInTime'
  <2> SUFFICES ASSUME NEW n \in Node
               PROVE  /\ phase[n] = "off" => elapsed'[n] = 0
                      /\ phase[n] = "beaconing" =>
                            /\ elapsed'[n] + due'[n] <= 2 * Wait
                            /\ remaining[n] > 0 => elapsed'[n] + due'[n] <= Latest(remaining[n])
    BY DEF Tick, TimersInTime, Latest
  <2>1. CASE n \in Beaconing
    <3>1. elapsed'[n] + due'[n] = elapsed[n] + due[n]
      BY <1>1, <1>2, <2>1, ConstantsAssumption
    <3> QED
      BY <1>2, <2>1, <3>1 DEF TimersInTime
  <2>2. CASE n \notin Beaconing
    BY <1>3, <2>2 DEF TimersInTime
  <2> QED
    BY <2>1, <2>2
<1> QED
  BY <1>4, <1>5, <1>6

LEMMA StepInv == IInv /\ [Next]_vars => IInv'
<1> SUFFICES ASSUME IInv, [Next]_vars PROVE IInv'
  OBVIOUS
<1>1. ASSUME NEW n \in Node, beaconing_start(n) PROVE IInv'
  BY <1>1, StartInv
<1>2. ASSUME NEW n \in Node, SendBeacon(n) PROVE IInv'
  BY <1>2, SendInv
<1>3. ASSUME NEW n \in Node, NEW i \in IDs, _handle_beacon(n, i) PROVE IInv'
  BY <1>3, HandleInv
<1>4. ASSUME NEW n \in Node, EndBeaconing(n) PROVE IInv'
  BY <1>4, EndInv
<1>5. CASE Tick
  BY <1>5, TickInv
<1>6. CASE UNCHANGED vars
  BY <1>6 DEF vars, timerVars, countVars, IInv, TypeOK, HeardOthers, CountsAgree,
     TimersInTime, Lower, OtherIDs, Latest
<1> QED
  BY <1>1, <1>2, <1>3, <1>4, <1>5, <1>6 DEF Next

LEMMA AlwaysInv == Spec => []IInv
  BY InitInv, StepInv, PTL DEF Spec

-----------------------------------------------------------------------------
(***************************************************************************)
(* The theorems.                                                           *)
(***************************************************************************)

\* The counters have their ranges, and the timer for the end, an unsigned
\* difference in the code, is set to a time that has not passed.
THEOREM TypeCorrect == Spec => []TypeOK
<1>1. IInv => TypeOK
  BY DEF IInv
<1> QED
  BY <1>1, AlwaysInv, PTL

\* The counters never exceed the truth, and a position lies within its group.
LEMMA InvGivesPlaces == IInv => PlaceIsPossible
<1> SUFFICES ASSUME IInv, NEW n \in Node
             PROVE  /\ position[n] < size[n]
                    /\ position[n] <= Cardinality(Lower(n, OtherIDs(n)))
                    /\ size[n] <= Cardinality(OtherIDs(n)) + 1
  BY DEF PlaceIsPossible
<1>1. /\ neighbors[n] \subseteq OtherIDs(n)
      /\ size[n] = Cardinality(neighbors[n]) + 1
      /\ position[n] = Cardinality(Lower(n, neighbors[n]))
  BY DEF IInv, HeardOthers, CountsAgree
<1>2. IsFiniteSet(OtherIDs(n)) /\ IsFiniteSet(neighbors[n])
  BY <1>1, FiniteIDs, FS_Subset
<1>3. /\ Lower(n, neighbors[n]) \subseteq neighbors[n]
      /\ Lower(n, neighbors[n]) \subseteq Lower(n, OtherIDs(n))
      /\ Lower(n, OtherIDs(n)) \subseteq OtherIDs(n)
  BY <1>1 DEF Lower
<1>4. IsFiniteSet(Lower(n, OtherIDs(n))) /\ IsFiniteSet(Lower(n, neighbors[n]))
  BY <1>2, <1>3, FS_Subset
<1>5. /\ Cardinality(Lower(n, neighbors[n])) <= Cardinality(neighbors[n])
      /\ Cardinality(Lower(n, neighbors[n])) <= Cardinality(Lower(n, OtherIDs(n)))
      /\ Cardinality(neighbors[n]) <= Cardinality(OtherIDs(n))
  BY <1>1, <1>2, <1>3, <1>4, FS_Subset
<1>6. /\ Cardinality(neighbors[n]) \in Nat
      /\ Cardinality(Lower(n, neighbors[n])) \in Nat
      /\ Cardinality(OtherIDs(n)) \in Nat
      /\ Cardinality(Lower(n, OtherIDs(n))) \in Nat
  BY <1>2, <1>4, FS_CardinalityType
<1> QED
  BY <1>1, <1>5, <1>6

\* A node's position is below its group size, and neither counts more than
\* there is, whatever beacons are lost and whatever the filter mistakes.
THEOREM PlacesArePossible == Spec => []PlaceIsPossible
  BY AlwaysInv, InvGivesPlaces, PTL

\* The node with the lowest ID has position 0.
THEOREM TheLowestLeads == Spec => []LowestLeads
<1>1. IInv => LowestLeads
  <2> SUFFICES ASSUME IInv, NEW n \in Node, \A m \in Node : ID[n] <= ID[m]
               PROVE  position[n] = 0
    BY DEF LowestLeads
  <2>1. \A i \in neighbors[n] : ~(i < ID[n])
    BY ConstantsAssumption DEF IInv, HeardOthers, OtherIDs
  <2>2. Lower(n, neighbors[n]) = {}
    BY <2>1 DEF Lower
  <2> QED
    BY <2>2, FS_EmptySet DEF IInv, CountsAgree
<1> QED
  BY <1>1, AlwaysInv, PTL

-----------------------------------------------------------------------------
(***************************************************************************)
(* Undisturbed beaconing ends with the right order, if the waits are longer *)
(* than the starts are apart.                                              *)
(***************************************************************************)

\* Every step leaves a node on its schedule.
LEMMA StepOnSchedule ==
    ASSUME IInv, OnSchedule, [Next]_vars
    PROVE  OnSchedule'
<1> DEFINE On(n) ==
       phase[n] # "off" =>
        /\ remaining[n] < Count => elapsed[n] >= Wait
        /\ remaining[n] = Count => phase[n] = "beaconing"
        /\ remaining[n] = Count => elapsed[n] + due[n] <= Wait + PeriodMax
        /\ remaining[n] = Count => elapsed[n] + due[n] >= Wait
        /\ phase[n] = "beaconing" /\ remaining[n] = 0 => elapsed[n] + due[n] = 2 * Wait
        /\ phase[n] = "done" => elapsed[n] = 2 * Wait
<1>0. \A m \in Node : /\ due[m] \in 0..(2 * Wait) /\ elapsed[m] \in 0..(2 * Wait)
                      /\ remaining[m] \in 0..Count
  BY DEF IInv, TypeOK
<1>1. ASSUME NEW n \in Node, beaconing_start(n) PROVE OnSchedule'
  <2>1. PICK p \in Periods : due' = [due EXCEPT ![n] = Wait + p]
    BY <1>1 DEF beaconing_start
  <2>2. /\ phase'[n] = "beaconing" /\ remaining'[n] = Count /\ elapsed'[n] = 0
        /\ due'[n] = Wait + p
    BY <1>1, <2>1 DEF beaconing_start, IInv, TypeOK, TimersInTime
  <2>3. On(n)'
    BY <2>2, ConstantsAssumption DEF Periods
  <2>4. ASSUME NEW m \in Node \ {n} PROVE On(m)'
    <3>1. /\ phase'[m] = phase[m] /\ remaining'[m] = remaining[m]
          /\ elapsed'[m] = elapsed[m] /\ due'[m] = due[m]
      BY <1>1, <2>1 DEF beaconing_start, IInv, TypeOK
    <3> QED
      BY <3>1 DEF OnSchedule
  <2> QED
    BY <2>3, <2>4 DEF OnSchedule
<1>2. ASSUME NEW n \in Node, SendBeacon(n) PROVE OnSchedule'
  <2>1. /\ phase[n] = "beaconing" /\ phase' = phase /\ elapsed' = elapsed
        /\ due[n] = 0 /\ remaining[n] > 0
        /\ remaining' = [remaining EXCEPT ![n] = remaining[n] - 1]
    BY <1>2 DEF SendBeacon
  <2>2. elapsed[n] >= Wait
    BY <1>0, <2>1, ConstantsAssumption DEF OnSchedule
  <2>3. remaining'[n] = remaining[n] - 1
    BY <2>1 DEF IInv, TypeOK
  <2>4. remaining[n] = 1 => due'[n] = 2 * Wait - elapsed[n]
    BY <1>2 DEF SendBeacon, IInv, TypeOK
  <2>5. On(n)'
    BY <1>0, <2>1, <2>2, <2>3, <2>4, ConstantsAssumption
  <2>6. ASSUME NEW m \in Node \ {n} PROVE On(m)'
    <3>1. due'[m] = due[m]
      BY <1>2 DEF SendBeacon, IInv, TypeOK
    <3>2. remaining'[m] = remaining[m]
      BY <2>1 DEF IInv, TypeOK
    <3> QED
      BY <2>1, <3>1, <3>2 DEF OnSchedule
  <2> QED
    BY <2>5, <2>6 DEF OnSchedule
<1>3. ASSUME NEW n \in Node, NEW i \in IDs, _handle_beacon(n, i) PROVE OnSchedule'
  BY <1>3 DEF _handle_beacon, timerVars, OnSchedule
<1>4. ASSUME NEW n \in Node, EndBeaconing(n) PROVE OnSchedule'
  <2>1. /\ phase[n] = "beaconing" /\ due[n] = 0 /\ remaining[n] = 0
        /\ phase' = [phase EXCEPT ![n] = "done"]
        /\ remaining' = remaining /\ elapsed' = elapsed /\ due' = due
    BY <1>4 DEF EndBeaconing, timerVars
  <2>2. phase'[n] = "done" /\ \A m \in Node \ {n} : phase'[m] = phase[m]
    BY <2>1 DEF IInv, TypeOK
  <2>3. On(n)'
    BY <1>0, <2>1, <2>2, ConstantsAssumption DEF OnSchedule
  <2>4. \A m \in Node \ {n} : On(m)'
    BY <2>1, <2>2 DEF OnSchedule
  <2> QED
    BY <2>3, <2>4 DEF OnSchedule
<1>5. CASE Tick
  <2>1. phase' = phase /\ remaining' = remaining
    BY <1>5 DEF Tick
  <2>2. ASSUME NEW n \in Node PROVE On(n)'
    <3>1. CASE phase[n] = "beaconing"
      <4>1. due'[n] = due[n] - 1 /\ elapsed'[n] = elapsed[n] + 1
        BY <1>5, <3>1 DEF Tick, Beaconing
      <4>2. elapsed'[n] + due'[n] = elapsed[n] + due[n]
        BY <1>0, <4>1, ConstantsAssumption
      <4> QED
        BY <1>0, <2>1, <3>1, <4>1, <4>2, ConstantsAssumption DEF OnSchedule
    <3>2. CASE phase[n] # "beaconing"
      <4>1. due'[n] = due[n] /\ elapsed'[n] = elapsed[n]
        BY <1>5, <3>2 DEF Tick, Beaconing
      <4> QED
        BY <2>1, <4>1 DEF OnSchedule
    <3> QED
      BY <3>1, <3>2
  <2> QED
    BY <2>2 DEF OnSchedule
<1>6. CASE UNCHANGED vars
  BY <1>6 DEF vars, timerVars, OnSchedule
<1> QED
  BY <1>1, <1>2, <1>3, <1>4, <1>5, <1>6 DEF Next

\* What an undisturbed step leaves between two nodes that had started before.
LEMMA StepHears ==
    ASSUME Together \in Nat, Together + PeriodMax < Wait,
           IInv, OnSchedule, [Next]_vars, Undisturbed,
           NEW n \in Node, NEW m \in Node, n # m,
           phase[n] # "off", phase[m] # "off",
           Abreast(n, m), Abreast(m, n), Hears(n, m)
    PROVE  Abreast(n, m)' /\ Hears(n, m)'
<1>0. \A k \in Node : /\ due[k] \in 0..(2 * Wait) /\ elapsed[k] \in 0..(2 * Wait)
                      /\ remaining[k] \in 0..Count
                      /\ phase[k] \in {"off", "beaconing", "done"}
  BY DEF IInv, TypeOK
<1>1. elapsed[m] - elapsed[n] <= Together /\ elapsed[n] - elapsed[m] <= Together
  BY DEF Abreast
<1>2. phase[n] = "done" => ID[m] \in neighbors[n]
  <2> SUFFICES ASSUME phase[n] = "done" PROVE ID[m] \in neighbors[n]
    OBVIOUS
  <2>1. elapsed[n] = 2 * Wait
    BY DEF OnSchedule
  <2>2. elapsed[m] > Wait + PeriodMax
    BY <1>0, <1>1, <2>1, ConstantsAssumption
  <2> QED
    BY <2>2 DEF Hears
<1>3. ASSUME NEW k \in Node, beaconing_start(k) PROVE Abreast(n, m)' /\ Hears(n, m)'
  <2>1. k # n /\ k # m
    BY <1>3 DEF beaconing_start
  <2>2. remaining'[m] = remaining[m] /\ elapsed' = elapsed
        /\ inbox' = inbox /\ neighbors' = neighbors
    BY <1>3, <2>1 DEF beaconing_start, countVars, IInv, TypeOK
  <2> QED
    BY <2>2 DEF Abreast, Hears
<1>4. ASSUME NEW k \in Node, SendBeacon(k) PROVE Abreast(n, m)' /\ Hears(n, m)'
  <2>1. elapsed' = elapsed /\ neighbors' = neighbors
    BY <1>4 DEF SendBeacon, countVars
  <2>2. inbox[n] \subseteq inbox'[n]
    BY <1>4 DEF SendBeacon
  <2>3. CASE k # m
    <3>1. remaining'[m] = remaining[m]
      BY <1>4, <2>3 DEF SendBeacon, IInv, TypeOK
    <3> QED
      BY <2>1, <2>2, <3>1 DEF Abreast, Hears
  <2>4. CASE k = m
    <3>1. remaining'[m] < remaining[m]
      BY <1>0, <1>4, <2>4, ConstantsAssumption DEF SendBeacon, IInv, TypeOK
    <3>2. \A l \in Listeners(m) : ID[m] \in inbox'[l]
      BY <3>1 DEF Undisturbed
    <3>3. phase[n] = "beaconing" => ID[m] \in inbox'[n]
      BY <3>2 DEF Listeners, Beaconing
    <3>4. ID[m] \in inbox'[n] \cup neighbors'[n]
      BY <1>0, <1>2, <2>1, <3>3
    <3> QED
      BY <2>1, <3>4 DEF Abreast, Hears
  <2> QED
    BY <2>3, <2>4
<1>5. ASSUME NEW k \in Node, NEW i \in IDs, _handle_beacon(k, i)
      PROVE  Abreast(n, m)' /\ Hears(n, m)'
  <2>1. elapsed' = elapsed /\ remaining' = remaining /\ phase' = phase
    BY <1>5 DEF _handle_beacon, timerVars
  <2>2. neighbors[n] \subseteq neighbors'[n]
    BY <1>5 DEF _handle_beacon, countVars, IInv, TypeOK
  <2>3. phase[n] = "beaconing" => inbox[n] \ inbox'[n] \subseteq neighbors'[n]
    BY <2>1 DEF Undisturbed
  <2>4. phase[n] # "beaconing" => inbox'[n] = inbox[n]
    BY <1>5 DEF _handle_beacon, IInv, TypeOK
  <2>5. inbox[n] \cup neighbors[n] \subseteq inbox'[n] \cup neighbors'[n]
    BY <2>2, <2>3, <2>4
  <2> QED
    BY <2>1, <2>2, <2>5 DEF Abreast, Hears
<1>6. ASSUME NEW k \in Node, EndBeaconing(k) PROVE Abreast(n, m)' /\ Hears(n, m)'
  <2>1. elapsed' = elapsed /\ remaining' = remaining /\ neighbors' = neighbors
    BY <1>6 DEF EndBeaconing, timerVars, countVars
  <2>2. CASE k # n
    <3>1. inbox'[n] = inbox[n]
      BY <1>6, <2>2 DEF EndBeaconing, IInv, TypeOK
    <3> QED
      BY <2>1, <3>1 DEF Abreast, Hears
  <2>3. CASE k = n
    <3>1. elapsed[n] = 2 * Wait
      BY <1>0, <1>6, <2>3, ConstantsAssumption DEF EndBeaconing, OnSchedule
    <3>2. elapsed[m] > Wait + PeriodMax
      BY <1>0, <1>1, <3>1, ConstantsAssumption
    <3>3. ID[m] \in neighbors[n]
      BY <3>2 DEF Hears
    <3> QED
      BY <2>1, <3>3 DEF Abreast, Hears
  <2> QED
    BY <2>2, <2>3
<1>7. CASE Tick
  <2>1. phase' = phase /\ remaining' = remaining /\ inbox' = inbox /\ neighbors' = neighbors
    BY <1>7 DEF Tick, countVars
  <2>2. \A k \in {n, m} :
           /\ phase[k] = "beaconing" => /\ due[k] > 0 /\ inbox[k] = {}
                                        /\ elapsed'[k] = elapsed[k] + 1
           /\ phase[k] = "done" => elapsed[k] = 2 * Wait /\ elapsed'[k] = 2 * Wait
    BY <1>7 DEF Tick, Beaconing, OnSchedule
  <2>3. elapsed[n] + due[n] <= 2 * Wait \/ phase[n] = "done"
    BY <1>0 DEF IInv, TimersInTime
  <2>4. elapsed[m] + due[m] <= 2 * Wait \/ phase[m] = "done"
    BY <1>0 DEF IInv, TimersInTime
  <2>5. Abreast(n, m)'
    <3>1. elapsed'[m] - elapsed'[n] <= Together
      BY <1>0, <1>1, <2>2, <2>3, <2>4, ConstantsAssumption
    <3> QED
      BY <3>1 DEF Abreast
  <2>6. elapsed'[m] > Wait + PeriodMax => ID[m] \in neighbors[n]
    <3> SUFFICES ASSUME elapsed'[m] > Wait + PeriodMax, phase[n] = "beaconing"
                 PROVE  ID[m] \in neighbors[n]
      BY <1>0, <1>2
    <3>1. CASE phase[m] = "done"
      <4>1. elapsed[m] > Wait + PeriodMax
        BY <2>2, <3>1
      <4> QED
        BY <4>1 DEF Hears
    <3>2. CASE phase[m] = "beaconing"
      <4>1. elapsed[m] + due[m] > Wait + PeriodMax
        BY <1>0, <2>2, <3>2, ConstantsAssumption
      <4>2. remaining[m] # Count
        BY <1>0, <4>1, ConstantsAssumption DEF OnSchedule
      <4>3. remaining[m] < Count
        BY <1>0, <4>2, ConstantsAssumption
      <4> QED
        BY <2>2, <4>3 DEF Hears
    <3> QED
      BY <1>0, <3>1, <3>2
  <2> QED
    BY <2>1, <2>5, <2>6 DEF Hears
<1>8. CASE UNCHANGED vars
  BY <1>8 DEF vars, timerVars, countVars, Abreast, Hears
<1> QED
  BY <1>3, <1>4, <1>5, <1>6, <1>7, <1>8 DEF Next

\* Who starts while the others are within Together of their own start has
\* missed nothing, and has sent nothing that they could have missed.
LEMMA StartHears ==
    ASSUME Together \in Nat, Together + PeriodMax < Wait,
           IInv, OnSchedule, Undisturbed,
           NEW k \in Node, beaconing_start(k),
           NEW n \in Node, NEW m \in Node, n # m, k \in {n, m},
           phase'[n] # "off", phase'[m] # "off"
    PROVE  Abreast(n, m)' /\ Hears(n, m)'
<1>1. /\ phase[k] = "off" /\ phase' = [phase EXCEPT ![k] = "beaconing"]
      /\ remaining' = [remaining EXCEPT ![k] = Count] /\ elapsed' = elapsed
  BY DEF beaconing_start
<1>2. phase[k] # phase'[k] /\ elapsed[k] = 0
  BY <1>1 DEF IInv, TypeOK, TimersInTime
<1>3. \A l \in Node : elapsed[l] <= Together /\ elapsed[l] \in Nat
  BY <1>1, <1>2, ConstantsAssumption DEF Undisturbed, IInv, TypeOK
<1>4. remaining'[m] = Count
  <2>1. CASE m = k
    BY <1>1, <2>1 DEF IInv, TypeOK
  <2>2. CASE m # k
    <3>1. phase[m] # "off" /\ remaining'[m] = remaining[m]
      BY <1>1, <2>2 DEF IInv, TypeOK
    <3>2. ~(remaining[m] < Count) /\ remaining[m] \in 0..Count
      BY <1>3, <3>1, ConstantsAssumption DEF OnSchedule, IInv, TypeOK
    <3> QED
      BY <3>1, <3>2, ConstantsAssumption
  <2> QED
    BY <2>1, <2>2
<1>5. elapsed[m] - elapsed[n] <= Together /\ ~(elapsed[m] > Wait + PeriodMax)
  BY <1>3, ConstantsAssumption
<1>6. ~(remaining'[m] < Count)
  BY <1>4, ConstantsAssumption
<1> QED
  BY <1>1, <1>5, <1>6 DEF Abreast, Hears

\* So every step keeps the nodes informed as long as nothing disturbs them.
LEMMA StepAllHear ==
    ASSUME Together \in Nat, Together + PeriodMax < Wait,
           IInv, OnSchedule, AllHear, [MCNext]_<<vars, undisturbed>>
    PROVE  AllHear'
<1> SUFFICES ASSUME undisturbed',
                    NEW n \in Node, NEW m \in Node, n # m,
                    phase'[n] # "off", phase'[m] # "off"
             PROVE  Abreast(n, m)' /\ Hears(n, m)'
  BY DEF AllHear
<1>1. CASE UNCHANGED <<vars, undisturbed>>
  BY <1>1 DEF AllHear, vars, timerVars, countVars, Abreast, Hears
<1>2. CASE MCNext
  <2>1. undisturbed /\ Undisturbed /\ Next
    BY <1>2 DEF MCNext
  <2>2. CASE phase[n] # "off" /\ phase[m] # "off"
    <3>1. Abreast(n, m) /\ Abreast(m, n) /\ Hears(n, m)
      BY <2>1, <2>2 DEF AllHear
    <3> QED
      BY <2>1, <2>2, <3>1, StepHears
  <2>3. CASE phase[n] = "off" \/ phase[m] = "off"
    <3>1. PICK k \in {n, m} : phase[k] = "off" /\ phase'[k] # "off"
      BY <2>3
    <3>2. \E l \in Node : beaconing_start(l)
      <4> SUFFICES ASSUME ~ \E l \in Node : beaconing_start(l) PROVE FALSE
        OBVIOUS
      <4>1. ASSUME NEW l \in Node, SendBeacon(l) PROVE FALSE
        BY <3>1, <4>1 DEF SendBeacon
      <4>2. ASSUME NEW l \in Node, NEW i \in IDs, _handle_beacon(l, i) PROVE FALSE
        BY <3>1, <4>2 DEF _handle_beacon
      <4>3. ASSUME NEW l \in Node, EndBeaconing(l) PROVE FALSE
        BY <3>1, <4>3 DEF EndBeaconing, IInv, TypeOK
      <4>4. CASE Tick
        BY <3>1, <4>4 DEF Tick
      <4> QED
        BY <2>1, <4>1, <4>2, <4>3, <4>4 DEF Next
    <3>3. beaconing_start(k)
      <4>1. PICK l \in Node : beaconing_start(l)
        BY <3>2
      <4>2. l = k
        BY <3>1, <4>1 DEF beaconing_start, IInv, TypeOK
      <4> QED
        BY <4>1, <4>2
    <3> QED
      BY <2>1, <3>3, StartHears
  <2> QED
    BY <2>2, <2>3
<1> QED
  BY <1>1, <1>2

\* When all have decided, each has every other ID in its filter.
LEMMA InvGivesRanks ==
    ASSUME Together \in Nat, Together + PeriodMax < Wait, IInv, OnSchedule, AllHear
    PROVE  PositionsAreRanks
<1> SUFFICES ASSUME undisturbed, Decided, NEW n \in Node
             PROVE  /\ position[n] = Cardinality(Lower(n, IDs))
                    /\ size[n] = Cardinality(OtherIDs(n)) + 1
  BY DEF PositionsAreRanks
<1>1. \A m \in Node : phase[m] = "done" /\ elapsed[m] = 2 * Wait
  BY DEF Decided, OnSchedule
<1>2. ASSUME NEW m \in Node \ {n} PROVE ID[m] \in neighbors[n]
  <2>1. Hears(n, m)
    BY <1>1 DEF AllHear
  <2>2. elapsed[m] > Wait + PeriodMax
    BY <1>1, ConstantsAssumption
  <2> QED
    BY <2>1, <2>2 DEF Hears
<1>3. neighbors[n] = OtherIDs(n)
  BY <1>2 DEF IInv, HeardOthers, OtherIDs
<1>4. Lower(n, OtherIDs(n)) = Lower(n, IDs)
  BY ConstantsAssumption DEF Lower, OtherIDs, IDs
<1> QED
  BY <1>3, <1>4 DEF IInv, CountsAgree

\* If no beacon is lost, the filter errs nowhere and no node starts more than
\* Together after another, and if that and the spread of the first beacon are
\* shorter than the wait of _dow_start(), the positions are the order of the IDs.
THEOREM RanksAreFound ==
    ASSUME Together \in Nat, Together + PeriodMax < Wait
    PROVE  MCSpec => []PositionsAreRanks
<1>1. MCInit => IInv /\ OnSchedule /\ AllHear
  <2> SUFFICES ASSUME MCInit PROVE IInv /\ OnSchedule /\ AllHear
    OBVIOUS
  <2>1. \A n \in Node : phase[n] = "off"
    BY DEF MCInit, Init
  <2> QED
    BY <2>1, InitInv DEF MCInit, OnSchedule, AllHear
<1>2. IInv /\ OnSchedule /\ AllHear /\ [MCNext]_<<vars, undisturbed>>
      => (IInv /\ OnSchedule /\ AllHear)'
  <2> SUFFICES ASSUME IInv, OnSchedule, AllHear, [MCNext]_<<vars, undisturbed>>
               PROVE  IInv' /\ OnSchedule' /\ AllHear'
    OBVIOUS
  <2>1. [Next]_vars
    BY DEF MCNext
  <2> QED
    BY <2>1, StepInv, StepOnSchedule, StepAllHear
<1>3. IInv /\ OnSchedule /\ AllHear => PositionsAreRanks
  BY InvGivesRanks
<1> QED
  BY <1>1, <1>2, <1>3, PTL DEF MCSpec

=============================================================================
