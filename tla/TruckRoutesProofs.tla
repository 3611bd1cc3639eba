------------------------- MODULE TruckRoutesProofs -------------------------
(***************************************************************************)
(* Proofs about TruckRoutes, for any bins and any number of trucks.        *)
(***************************************************************************)
EXTENDS TruckRoutes, FiniteSetTheorems, WellFoundedInduction, TLAPS

-----------------------------------------------------------------------------
(***************************************************************************)
(* Types.                                                                  *)
(***************************************************************************)

LEMMA CardType ==
  ASSUME NEW S \in SUBSET Bins
  PROVE  IsFiniteSet(S) /\ Cardinality(S) \in Nat
<1>1. IsFiniteSet(S)
  BY RoutesAssumption, FS_Subset
<1> QED BY <1>1, FS_CardinalityType

\* What a sorted list holds.
LEMMA SortedFacts ==
  ASSUME NEW S \in SUBSET Bins, NEW p \in Sorted(S)
  PROVE  p \in [Bins -> Nat] /\ {b \in Bins : p[b] > 0} = S
<1>1. 0 .. Cardinality(S) \subseteq Nat
  BY CardType
<1>2. p \in [Bins -> 0 .. Cardinality(S)] /\ \A b \in Bins : p[b] > 0 <=> b \in S
  BY DEF Sorted
<1> QED BY <1>1, <1>2

LEMMA WithoutFacts ==
  ASSUME TypeOK, NEW S
  PROVE  /\ Without(S) \in [Bins -> Nat]
         /\ {b \in Bins : Without(S)[b] > 0} = overflowing_bins \ S
  BY DEF TypeOK, Without, overflowing_bins

LEMMA SliceType ==
  ASSUME NEW k, NEW per
  PROVE  Slice(k, per) \subseteq overflowing_bins /\ overflowing_bins \subseteq Bins
  BY DEF Slice, overflowing_bins

\* The truck that was sent is a truck.
Sent == pc["op"] \in {"drive", "empty"} => truck \in Trucks

\* A thread that assigns is at a truck.
Assigns == \A t \in Threads : pc[t] = "assign" => assigning[t] \in Trucks

TInv == TypeOK /\ Sent /\ Assigns

\* What Note does to alone.
NoteType == alone' \in [Threads -> BOOLEAN]

LEMMA TInit == Init => TInv
<1> SUFFICES ASSUME Init PROVE TInv
  OBVIOUS
<1>1. pc \in [Threads -> Steps] /\ Sent /\ Assigns
  BY DEF Init, Steps, Threads, Sent, Assigns
<1>2. /\ place \in [Bins -> Nat] /\ route_bins \in [Trucks -> SUBSET Bins]
      /\ scan \in [Threads -> SUBSET Bins] /\ routes \in [Threads -> SUBSET Trucks]
      /\ per_truck \in [Threads -> Nat] /\ assigning \in [Threads -> 0 .. K]
      /\ alone \in [Threads -> BOOLEAN]
  BY RoutesAssumption DEF Init
<1>3. /\ full \subseteq Bins /\ marked \subseteq Bins /\ zone_id \subseteq zone_bins
      /\ zone_bins \subseteq Bins /\ slipped \subseteq Bins /\ active \subseteq Trucks
  BY RoutesAssumption DEF Init
<1>4. /\ alerted \subseteq Bins /\ was \in BOOLEAN /\ truck \in 0 .. K
      /\ held \subseteq Bins /\ current \in BOOLEAN
      /\ serviced \subseteq Bins /\ left \subseteq serviced
  <2>1. 0 \in 0 .. K
    BY RoutesAssumption
  <2> QED BY <2>1 DEF Init
<1> QED BY <1>1, <1>2, <1>3, <1>4 DEF TInv, TypeOK

LEMMA TPlan ==
  ASSUME TInv, NoteType, NEW t \in Threads, Plan(t)
  PROVE  TypeOK' /\ Sent' /\ Assigns'
<1> USE DEF TInv, NoteType
<1>1. CASE Read(t)
  BY <1>1 DEF TypeOK, Read, Goto, Steps, Sent, Assigns, fills, ownership, plans, tick,
     driving
<1>2. CASE List(t)
  <2>1. scan[t] \in SUBSET Bins /\ place' \in Sorted(scan[t])
    BY <1>2 DEF TypeOK, List
  <2>2. place' \in [Bins -> Nat]
    BY <2>1, SortedFacts
  <2> QED BY <1>2, <2>2 DEF TypeOK, List, Goto, Steps, Sent, Assigns, fills, ownership,
         tick, driving
<1>3. CASE Count(t)
  <2>1. overflowing_bins \in SUBSET Bins
    BY DEF overflowing_bins
  <2>2. Cardinality(overflowing_bins) \div K \in Nat
    BY <2>1, CardType, RoutesAssumption
  <2>3. 1 \in Trucks /\ 1 \in 0 .. K
    BY RoutesAssumption DEF Trucks
  <2>4. per_truck' \in [Threads -> Nat] /\ assigning' \in [Threads -> 0 .. K]
    BY <1>3, <2>2, <2>3 DEF TypeOK, Count
  <2>5. pc' \in [Threads -> Steps]
    BY <1>3 DEF TypeOK, Count, Goto, Steps
  <2>6. Assigns'
    BY <1>3, <2>3 DEF TypeOK, Count, Goto, Assigns
  <2>7. Sent'
    BY <1>3 DEF TypeOK, Count, Goto, Sent, Threads, driving
  <2> QED BY <1>3, <2>4, <2>5, <2>6, <2>7 DEF TypeOK, Count, fills, ownership, plans,
         tick, driving
<1>4. CASE Assign(t)
  <2> DEFINE k == assigning[t]
  <2>1. k \in Trucks
    BY <1>4 DEF Assign, Assigns
  <2>2. Slice(k, per_truck[t]) \subseteq Bins
    BY SliceType
  <2>3. /\ active' \subseteq Trucks /\ route_bins' \in [Trucks -> SUBSET Bins]
        /\ routes' \in [Threads -> SUBSET Trucks] /\ current' \in BOOLEAN
    <3>1. CASE Slice(k, per_truck[t]) = {}
      BY <1>4, <3>1 DEF TypeOK, Assign
    <3>2. CASE Slice(k, per_truck[t]) # {}
      <4>1. /\ active' = active \cup {k}
            /\ route_bins' = [route_bins EXCEPT ![k] = Slice(k, per_truck[t]) \cap full]
            /\ routes' = [routes EXCEPT ![t] = @ \cup {k}]
            /\ current' = (current /\ truck # k)
        BY <1>4, <3>2 DEF Assign
      <4> HIDE DEF k
      <4> QED BY <2>1, <2>2, <4>1 DEF TypeOK
    <3> QED BY <3>1, <3>2
  <2>4. k # K => k + 1 \in Trucks /\ k + 1 \in 0 .. K
    BY <2>1, RoutesAssumption DEF Trucks
  <2>5. 0 \in 0 .. K /\ 0 \in Nat
    BY RoutesAssumption
  <2>6. /\ assigning' \in [Threads -> 0 .. K] /\ per_truck' \in [Threads -> Nat]
        /\ pc' \in [Threads -> Steps]
    BY <1>4, <2>4, <2>5 DEF TypeOK, Assign, LastTruck, Goto, Steps
  <2>7. Assigns'
    BY <1>4, <2>4 DEF TypeOK, Assign, LastTruck, Goto, Assigns
  <2>8. Sent'
    BY <1>4 DEF TypeOK, Assign, Goto, Sent, Threads
  <2> QED BY <1>4, <2>3, <2>6, <2>7, <2>8 DEF TypeOK, Assign, fills, ownership, tick
<1> QED BY <1>1, <1>2, <1>3, <1>4 DEF Plan

LEMMA TAlert ==
  ASSUME TInv, NoteType, AlertStep \/ \E b \in Bins : Visit(b)
  PROVE  TypeOK' /\ Sent' /\ Assigns'
<1> USE DEF TInv, NoteType
<1>0. "alert" \in Threads /\ "op" \in Threads /\ "alert" # "op"
  BY DEF Threads
<1>1. ASSUME NEW b \in Bins, Visit(b) PROVE TypeOK' /\ Sent' /\ Assigns'
  BY <1>0, <1>1 DEF TypeOK, Visit, WasOverflowing, Goto, Steps, Sent, Assigns, fills,
     ownership, plans, driving
<1>2. CASE Grow
  BY <1>0, <1>2 DEF TypeOK, Grow, Goto, Steps, Sent, Assigns, ownership, plans, driving
<1>3. CASE Mark
  BY <1>0, <1>3 DEF TypeOK, Mark, Goto, Steps, Sent, Assigns, ownership, plans, driving
<1>4. CASE Replan
  <2>1. overflowing_bins \cup alerted \in SUBSET Bins
    BY DEF TypeOK, overflowing_bins
  <2>2. place' \in [Bins -> Nat]
    BY <1>4, <2>1, SortedFacts DEF Replan, TypeOK
  <2> QED BY <1>0, <1>4, <2>2 DEF TypeOK, Replan, Goto, Steps, Sent, Assigns, fills,
         ownership, planning, tick, driving
<1>5. CASE Plan("alert")
  BY <1>0, <1>5, TPlan
<1>6. CASE Alerted
  BY <1>0, <1>6 DEF TypeOK, Alerted, Goto, Steps, Sent, Assigns, fills, ownership,
     plans, driving
<1> QED BY <1>1, <1>2, <1>3, <1>4, <1>5, <1>6 DEF AlertStep

LEMMA TOperation ==
  ASSUME TInv, NoteType, OperationLoop
  PROVE  TypeOK' /\ Sent' /\ Assigns'
<1> USE DEF TInv, NoteType
<1>0. "alert" \in Threads /\ "op" \in Threads /\ "alert" # "op"
  BY DEF Threads
<1>1. CASE Check
  BY <1>0, <1>1 DEF TypeOK, Check, Goto, Steps, Sent, Assigns, fills, ownership, plans,
     planning, tick, driving
<1>2. CASE Plan("op")
  BY <1>0, <1>2, TPlan
<1>3. CASE Dispatch
  BY <1>0, <1>3 DEF TypeOK, Dispatch, Goto, Steps, Sent, Assigns, fills, ownership,
     plans, planning, tick, driving
<1>4. CASE Send
  <2>1. PICK k \in routes["op"] :
          /\ routes' = [routes EXCEPT !["op"] = @ \ {k}]
          /\ IF k \in active
             THEN /\ truck' = k /\ held' = route_bins[k] /\ current' = TRUE
                  /\ Goto("op", "drive")
             ELSE UNCHANGED <<truck, held, current, pc>>
    BY <1>4 DEF Send
  <2>2. k \in Trucks /\ k \in 0 .. K
    BY <1>0, RoutesAssumption DEF TypeOK, Trucks
  <2>3. CASE k \in active
    <3>1. held' \subseteq Bins /\ current' \in BOOLEAN /\ truck' \in Trucks
      BY <2>1, <2>2, <2>3 DEF TypeOK
    <3>2. pc' \in [Threads -> Steps] /\ Sent' /\ Assigns'
      BY <1>0, <1>4, <2>1, <2>2, <2>3, <3>1 DEF TypeOK, Send, Goto, Steps, Sent, Assigns
    <3>3. routes' \in [Threads -> SUBSET Trucks] /\ truck' \in 0 .. K
      BY <2>1, <2>2, <2>3 DEF TypeOK
    <3> QED BY <1>4, <3>1, <3>2, <3>3 DEF TypeOK, Send, fills, ownership, plans, tick
  <2>4. CASE k \notin active
    BY <1>4, <2>1, <2>4 DEF TypeOK, Send, Sent, Assigns, fills, ownership, plans, tick
  <2> QED BY <2>3, <2>4
<1>5. CASE Return
  BY <1>0, <1>5 DEF TypeOK, Return, Goto, Steps, Sent, Assigns, fills, ownership, plans,
     planning, tick, driving
<1>6. CASE Arrive
  BY <1>0, <1>6 DEF TypeOK, Arrive, Goto, Steps, Sent, Assigns, fills, ownership, plans,
     planning, tick
<1>7. CASE Complete
  <2>1. place' \in [Bins -> Nat]
    BY <1>7, WithoutFacts DEF Complete, Completed, TypeOK
  <2>2. 0 \in 0 .. K
    BY RoutesAssumption
  <2> QED BY <1>0, <1>7, <2>1, <2>2 DEF TypeOK, Complete, Goto, Steps, Sent, Assigns,
         fills, ownership, planning, tick
<1>8. ASSUME NEW b \in Bins, Empty(b) PROVE TypeOK' /\ Sent' /\ Assigns'
  BY <1>8 DEF TypeOK, Empty, Drained, Sent, Assigns, ownership, plans, planning, tick
<1> QED BY <1>1, <1>2, <1>3, <1>4, <1>5, <1>6, <1>7, <1>8 DEF OperationLoop

LEMMA TEnvironment ==
  ASSUME TInv, NoteType, NEW b \in Bins, Environment(b)
  PROVE  TypeOK' /\ Sent' /\ Assigns'
<1> USE DEF TInv, NoteType
<1>1. CASE Adopt(b)
  <2>1. zone_bins' \cap full \in SUBSET Bins
    BY <1>1 DEF TypeOK, Adopt
  <2>2. place' \in [Bins -> Nat]
    BY <1>1, <2>1, SortedFacts DEF Adopt
  <2> QED BY <1>1, <2>2 DEF TypeOK, Adopt, Sent, Assigns, fills, planning, tick, driving
<1>2. CASE HandOver(b)
  BY <1>2 DEF TypeOK, HandOver, Sent, Assigns, fills, plans, planning, tick, driving
<1>3. CASE Release(b)
  <2>1. place' \in [Bins -> Nat]
    BY <1>3, WithoutFacts DEF Release
  <2>2. active' \subseteq Trucks /\ route_bins' \in [Trucks -> SUBSET Bins]
    BY <1>3 DEF TypeOK, Release, Pruned
  <2>3. current' \in BOOLEAN
    BY <1>3 DEF TypeOK, Release
  <2>4. held' \subseteq Bins
    <3>1. CASE held' = held
      BY <3>1 DEF TypeOK
    <3>2. CASE held' = Pruned(truck, {b}) /\ pc["op"] = "drive"
      BY <3>2 DEF TypeOK, Sent, Pruned
    <3> QED BY <1>3, <3>1, <3>2 DEF Release
  <2> QED BY <1>3, <2>1, <2>2, <2>3, <2>4 DEF TypeOK, Release, Sent, Assigns, fills,
         planning, tick
<1>4. CASE EmptyBin(b)
  BY <1>4 DEF TypeOK, EmptyBin, Drained, Sent, Assigns, ownership, plans, planning,
     tick, driving
<1> QED BY <1>1, <1>2, <1>3, <1>4 DEF Environment

LEMMA TStep == TInv /\ [Next]_vars => TInv'
<1> SUFFICES ASSUME TInv, [Next]_vars PROVE TInv'
  OBVIOUS
<1>1. CASE UNCHANGED vars
  BY <1>1 DEF TInv, TypeOK, Sent, Assigns, vars
<1>2. ASSUME NEW t, Note(t) PROVE NoteType
  BY <1>2 DEF Note, NoteType
<1>3. TypeOK' /\ Sent' /\ Assigns'
  BY <1>1, <1>2, TAlert, TOperation, TEnvironment DEF Next, TInv
<1> QED BY <1>3 DEF TInv

\* Every variable keeps its type (RouteManager, BinSimulator).
THEOREM RoutesTyped == Spec => []TypeOK
<1>1. TInv => TypeOK
  BY DEF TInv
<1> QED BY TInit, TStep, <1>1, PTL DEF Spec
-----------------------------------------------------------------------------
(***************************************************************************)
(* Bins that were handed over.  The plan the truck drives is followed from *)
(* the dispatch to the completion: while it is the one in active_routes it *)
(* holds no bin the truck does not empty.                                  *)
(***************************************************************************)

Own == zone_bins \cup slipped

\* What a thread is about to list was owned when it was found.
OwnInHand ==
  /\ \A t \in Threads : scan[t] \subseteq Own
  /\ pc["alert"] = "replan" => alerted \subseteq Own

OwnListed ==
  /\ overflowing_bins \subseteq Own
  /\ \A k \in active : route_bins[k] \subseteq Own

\* The plan the truck drives.
Driven ==
  /\ current => pc["op"] \in {"drive", "empty"} /\ truck \in active
  /\ (current /\ pc["op"] = "drive") => held = route_bins[truck]
  /\ (current /\ pc["op"] = "empty") => held = {} /\ route_bins[truck] \subseteq serviced

OInv == TInv /\ OwnInHand /\ OwnListed /\ Driven

LEMMA OInit == Init => OInv
<1> SUFFICES ASSUME Init PROVE OInv
  OBVIOUS
<1>1. OwnInHand /\ OwnListed /\ Driven
  BY DEF Init, OwnInHand, OwnListed, Driven, overflowing_bins, Threads
<1> QED BY <1>1, TInit DEF OInv

LEMMA OPlan ==
  ASSUME OInv, TInv', NEW t \in Threads, Plan(t)
  PROVE  OwnInHand' /\ OwnListed' /\ Driven'
<1> USE DEF OInv
<1>0. "alert" \in Threads /\ "op" \in Threads /\ "alert" # "op"
  BY DEF Threads
<1>1. CASE Read(t)
  BY <1>0, <1>1 DEF TInv, TypeOK, Read, Goto, OwnInHand, OwnListed, Driven, Own, fills,
     ownership, plans, tick, driving, overflowing_bins
<1>2. CASE List(t)
  <2>1. overflowing_bins' = scan[t]
    <3>1. scan[t] \in SUBSET Bins /\ place' \in Sorted(scan[t])
      BY <1>2 DEF TInv, TypeOK, List
    <3> QED BY <3>1, SortedFacts DEF overflowing_bins
  <2> QED BY <1>0, <1>2, <2>1 DEF TInv, TypeOK, List, Goto, OwnInHand, OwnListed,
         Driven, Own, fills, ownership, tick, driving
<1>3. CASE Count(t)
  BY <1>0, <1>3 DEF TInv, TypeOK, Count, Goto, OwnInHand, OwnListed, Driven, Own, fills,
     ownership, plans, tick, driving, overflowing_bins
<1>4. CASE Assign(t)
  <2> DEFINE k == assigning[t]
             S == Slice(k, per_truck[t])
  <2>1. k \in Trucks /\ S \subseteq overflowing_bins
    BY <1>4, SliceType DEF Assign, TInv, Assigns
  <2>2. overflowing_bins' = overflowing_bins /\ Own' = Own /\ scan' = scan
    BY <1>4 DEF Assign, overflowing_bins, Own, ownership
  <2>3. pc'["op"] \in {"drive", "empty"} <=> pc["op"] \in {"drive", "empty"}
    BY <1>0, <1>4 DEF Assign, Goto, TInv, TypeOK
  <2>4. (pc["op"] \in {"drive", "empty"} => pc'["op"] = pc["op"])
    BY <1>0, <1>4 DEF Assign, Goto, TInv, TypeOK
  <2>5. pc'["alert"] # "replan" \/ pc["alert"] = "replan"
    BY <1>0, <1>4 DEF Assign, Goto, TInv, TypeOK
  <2>6. OwnInHand'
    BY <1>4, <2>2, <2>5 DEF OwnInHand, Assign, tick
  <2>7. CASE S = {}
    <3>1. UNCHANGED <<active, route_bins, routes, current, truck, held, serviced>>
      BY <1>4, <2>7 DEF Assign
    <3> QED BY <2>2, <2>3, <2>4, <2>6, <3>1 DEF OwnListed, Driven
  <2>8. CASE S # {}
    <3>1. /\ active' = active \cup {k}
          /\ route_bins' = [route_bins EXCEPT ![k] = S \cap full]
          /\ current' = (current /\ truck # k)
          /\ UNCHANGED <<truck, held, serviced>>
      BY <1>4, <2>8 DEF Assign
    <3>2. \A l \in Trucks : route_bins'[l] = IF l = k THEN S \cap full ELSE route_bins[l]
      BY <3>1 DEF TInv, TypeOK
    <3>3. active \subseteq Trucks
      BY DEF TInv, TypeOK
    <3> HIDE DEF k, S
    <3>4. OwnListed'
      BY <2>1, <2>2, <3>1, <3>2, <3>3 DEF OwnListed
    <3>5. Driven'
      BY <2>3, <2>4, <3>1, <3>2, <3>3 DEF Driven
    <3> QED BY <2>6, <3>4, <3>5
  <2> QED BY <2>7, <2>8
<1> QED BY <1>1, <1>2, <1>3, <1>4 DEF Plan

LEMMA OAlert ==
  ASSUME OInv, TInv', AlertStep \/ \E b \in Bins : Visit(b)
  PROVE  OwnInHand' /\ OwnListed' /\ Driven'
<1> USE DEF OInv
<1>0. "alert" \in Threads /\ "op" \in Threads /\ "alert" # "op"
  BY DEF Threads
<1>1. ASSUME NEW b \in Bins, Visit(b) PROVE OwnInHand' /\ OwnListed' /\ Driven'
  BY <1>0, <1>1 DEF TInv, TypeOK, Visit, Goto, OwnInHand, OwnListed, Driven, Own, fills,
     ownership, plans, driving, overflowing_bins
<1>2. CASE Grow
  BY <1>0, <1>2 DEF TInv, TypeOK, Grow, Goto, OwnInHand, OwnListed, Driven, Own,
     ownership, plans, driving, overflowing_bins
<1>3. CASE Mark
  BY <1>0, <1>3 DEF TInv, TypeOK, Mark, Goto, OwnInHand, OwnListed, Driven, Own,
     ownership, plans, driving, overflowing_bins
<1>4. CASE Replan
  <2>1. overflowing_bins' = overflowing_bins \cup alerted
    <3>1. CASE alerted \subseteq overflowing_bins
      BY <1>4, <3>1 DEF Replan, overflowing_bins
    <3>2. CASE ~(alerted \subseteq overflowing_bins)
      <4>1. /\ overflowing_bins \cup alerted \in SUBSET Bins
            /\ place' \in Sorted(overflowing_bins \cup alerted)
        BY <1>4, <3>2 DEF Replan, TInv, TypeOK, overflowing_bins
      <4>2. {b \in Bins : place'[b] > 0} = overflowing_bins \cup alerted
        BY <4>1, SortedFacts
      <4> QED BY <4>2 DEF overflowing_bins
    <3> QED BY <3>1, <3>2
  <2> QED BY <1>0, <1>4, <2>1 DEF TInv, TypeOK, Replan, Goto, OwnInHand, OwnListed,
         Driven, Own, fills, ownership, planning, tick, driving
<1>5. CASE Plan("alert")
  BY <1>0, <1>5, OPlan
<1>6. CASE Alerted
  BY <1>0, <1>6 DEF TInv, TypeOK, Alerted, Goto, OwnInHand, OwnListed, Driven, Own,
     fills, ownership, plans, driving, overflowing_bins
<1> QED BY <1>1, <1>2, <1>3, <1>4, <1>5, <1>6 DEF AlertStep

LEMMA OOperation ==
  ASSUME OInv, TInv', OperationLoop
  PROVE  OwnInHand' /\ OwnListed' /\ Driven'
<1> USE DEF OInv
<1>0. "alert" \in Threads /\ "op" \in Threads /\ "alert" # "op"
  BY DEF Threads
<1>1. CASE Check
  BY <1>0, <1>1 DEF TInv, TypeOK, Check, Goto, OwnInHand, OwnListed, Driven, Own, fills,
     ownership, plans, planning, tick, driving, overflowing_bins
<1>2. CASE Plan("op")
  BY <1>0, <1>2, OPlan
<1>3. CASE Dispatch
  BY <1>0, <1>3 DEF TInv, TypeOK, Dispatch, Goto, OwnInHand, OwnListed, Driven, Own,
     fills, ownership, plans, planning, tick, driving, overflowing_bins
<1>4. CASE Send
  <2>1. PICK k \in routes["op"] :
          IF k \in active
          THEN /\ truck' = k /\ held' = route_bins[k] /\ current' = TRUE
               /\ Goto("op", "drive")
          ELSE UNCHANGED <<truck, held, current, pc>>
    BY <1>4 DEF Send
  <2>2. ~current
    BY <1>4 DEF Send, Driven
  <2>3. OwnInHand' /\ OwnListed'
    BY <1>0, <1>4, <2>1 DEF TInv, TypeOK, Send, Goto, OwnInHand, OwnListed, Own, fills,
       ownership, plans, tick, overflowing_bins
  <2>4. Driven'
    BY <1>0, <1>4, <2>1, <2>2 DEF TInv, TypeOK, Send, Goto, Driven, plans
  <2> QED BY <2>3, <2>4
<1>5. CASE Return
  BY <1>0, <1>5 DEF TInv, TypeOK, Return, Goto, OwnInHand, OwnListed, Driven, Own, fills,
     ownership, plans, planning, tick, driving, overflowing_bins
<1>6. CASE Arrive
  BY <1>0, <1>6 DEF TInv, TypeOK, Arrive, Goto, OwnInHand, OwnListed, Driven, Own, fills,
     ownership, plans, planning, tick, overflowing_bins
<1>7. CASE Complete
  <2>1. overflowing_bins' \subseteq overflowing_bins
    BY <1>7, WithoutFacts DEF Complete, Completed, TInv, overflowing_bins
  <2>2. \A k \in active' : k \in active /\ route_bins'[k] = route_bins[k]
    BY <1>7 DEF Complete, TInv, TypeOK
  <2>3. OwnInHand'
    BY <1>0, <1>7 DEF Complete, Goto, TInv, TypeOK, OwnInHand, Own, planning, tick,
       ownership
  <2>4. OwnListed'
    BY <1>7, <2>1, <2>2 DEF Complete, OwnListed, Own, ownership
  <2> QED BY <1>7, <2>3, <2>4 DEF Complete, Driven
<1>8. ASSUME NEW b \in Bins, Empty(b) PROVE OwnInHand' /\ OwnListed' /\ Driven'
  BY <1>8 DEF Empty, OwnInHand, OwnListed, Driven, Own, ownership, plans, planning, tick,
     overflowing_bins
<1> QED BY <1>1, <1>2, <1>3, <1>4, <1>5, <1>6, <1>7, <1>8 DEF OperationLoop

LEMMA OEnvironment ==
  ASSUME OInv, TInv', NEW b \in Bins, Environment(b)
  PROVE  OwnInHand' /\ OwnListed' /\ Driven'
<1> USE DEF OInv
<1>0. "alert" \in Threads /\ "op" \in Threads /\ "alert" # "op"
  BY DEF Threads
<1>1. CASE Adopt(b)
  <2>1. overflowing_bins' \subseteq zone_bins'
    <3>1. zone_bins' \cap full \in SUBSET Bins /\ place' \in Sorted(zone_bins' \cap full)
      BY <1>1 DEF TInv, TypeOK, Adopt
    <3>2. {c \in Bins : place'[c] > 0} = zone_bins' \cap full
      BY <3>1, SortedFacts
    <3> QED BY <3>2 DEF overflowing_bins
  <2>2. Own \subseteq Own'
    BY <1>1 DEF Adopt, Own
  <2> QED BY <1>1, <2>1, <2>2 DEF Adopt, OwnInHand, OwnListed, Driven, Own, planning,
         tick, driving
<1>2. CASE HandOver(b)
  BY <1>2 DEF HandOver, OwnInHand, OwnListed, Driven, Own, fills, plans, planning, tick,
     driving, overflowing_bins
<1>3. CASE Release(b)
  <2>1. Own \ {b} \subseteq Own' /\ (b \in InHand => b \in Own')
    BY <1>3 DEF Release, Own
  <2>2. OwnInHand'
    <3>1. \A t \in Threads : scan[t] \subseteq Own'
      BY <2>1 DEF OwnInHand, InHand
    <3>2. pc["alert"] = "replan" => alerted \subseteq Own'
      <4> SUFFICES ASSUME pc["alert"] = "replan" PROVE alerted \subseteq Own'
        OBVIOUS
      <4>1. alerted \subseteq Own
        BY DEF OwnInHand
      <4>2. alerted \subseteq InHand
        BY DEF InHand
      <4> QED BY <2>1, <4>1, <4>2
    <3> QED BY <1>3, <3>1, <3>2 DEF Release, OwnInHand, planning, tick
  <2>3. overflowing_bins' \subseteq Own'
    BY <1>3, <2>1, WithoutFacts DEF Release, TInv, overflowing_bins, OwnListed
  <2>4. \A k \in active' : /\ k \in active /\ route_bins[k] # {b}
                          /\ route_bins'[k] = route_bins[k] \ {b}
    BY <1>3 DEF Release, Pruned, TInv, TypeOK
  <2>5. OwnListed'
    BY <2>1, <2>3, <2>4 DEF OwnListed
  <2>6. current' => current /\ truck \in active' /\ truck' = truck
    BY <1>3 DEF Release, Driven
  <2>7. current' /\ pc["op"] = "drive" => held' = route_bins[truck] \ {b}
    BY <1>3, <2>6 DEF Release, Pruned
  <2>8. current' /\ pc["op"] = "empty" => held' = held
    BY <1>3 DEF Release
  <2>9. Driven'
    BY <1>3, <2>4, <2>6, <2>7, <2>8 DEF Release, Driven
  <2> QED BY <2>2, <2>5, <2>9
<1>4. CASE EmptyBin(b)
  BY <1>4 DEF EmptyBin, OwnInHand, OwnListed, Driven, Own, ownership, plans, planning,
     tick, driving, overflowing_bins
<1> QED BY <1>1, <1>2, <1>3, <1>4 DEF Environment

LEMMA OStep == OInv /\ [Next]_vars => OInv'
<1> SUFFICES ASSUME OInv, [Next]_vars PROVE OInv'
  OBVIOUS
<1>1. TInv'
  BY TStep DEF OInv
<1>2. CASE UNCHANGED vars
  BY <1>1, <1>2 DEF OInv, OwnInHand, OwnListed, Driven, Own, overflowing_bins, vars
<1>3. CASE Next
  BY <1>1, <1>3, OAlert, OOperation, OEnvironment DEF Next, OInv
<1> QED BY <1>2, <1>3

\* A zone lists, plans and starts a drive to bins it owns only, but for bins released
\* while a thread had them in hand (RouteManager.release_bins).
THEOREM OwnedPlanned == Spec => []OnlyOwnedPlanned
<1>1. OInv => OnlyOwnedPlanned
  <2> SUFFICES ASSUME OInv PROVE OnlyOwnedPlanned
    OBVIOUS
  <2>1. current => held \subseteq Own
    BY DEF OInv, OwnListed, Driven
  <2> QED BY <2>1 DEF OInv, OwnListed, OnlyOwnedPlanned, Own
<1> QED BY OInit, OStep, <1>1, PTL DEF Spec

\* A step that ends the emptying completes the route.
LEMMA EndsEmptying ==
  ASSUME TypeOK, [Next]_vars, pc["op"] = "empty", pc'["op"] = "send"
  PROVE  Complete
<1>0. "alert" \in Threads /\ "op" \in Threads /\ "alert" # "op"
  BY DEF Threads
<1>1. ~UNCHANGED vars
  BY DEF vars
<1>2. ASSUME AlertStep \/ \E b \in Bins : Visit(b) PROVE FALSE
  BY <1>0, <1>2 DEF TypeOK, AlertStep, Visit, Grow, Mark, Replan, Alerted, Plan, Read,
     List, Count, Assign, Goto
<1>3. ASSUME \E b \in Bins : Environment(b) PROVE FALSE
  BY <1>3 DEF Environment, Adopt, HandOver, Release, EmptyBin
<1>4. OperationLoop
  BY <1>1, <1>2, <1>3 DEF Next
<1>5. ~Check /\ ~Dispatch /\ ~Send /\ ~Return /\ ~Arrive
  BY DEF Check, Dispatch, Send, Return, Arrive
<1>6. ~Plan("op")
  BY DEF Plan, Read, List, Count, Assign
<1>7. ASSUME NEW b \in Bins PROVE ~Empty(b)
  BY DEF Empty
<1> QED BY <1>4, <1>5, <1>6, <1>7 DEF OperationLoop

\* Completing a route that was not replaced takes off the list only bins its truck
\* emptied (empty_bins_in_route, complete_route).
THEOREM EmptiedLeave == Spec => OnlyEmptiedLeave
<1>1. OInv /\ [Next]_vars =>
        [(current /\ pc["op"] = "empty" /\ pc'["op"] = "send")
           => overflowing_bins \ overflowing_bins' \subseteq serviced]_vars
  <2> SUFFICES ASSUME OInv, [Next]_vars, current, pc["op"] = "empty", pc'["op"] = "send"
               PROVE  overflowing_bins \ overflowing_bins' \subseteq serviced
    OBVIOUS
  <2>1. Complete /\ TypeOK
    BY EndsEmptying DEF OInv, TInv
  <2>2. truck \in active /\ route_bins[truck] \subseteq serviced
    BY DEF OInv, Driven
  <2>3. place' = Without(route_bins[truck])
    BY <2>1, <2>2 DEF Complete, Completed
  <2>4. overflowing_bins' = overflowing_bins \ route_bins[truck]
    BY <2>1, <2>3, WithoutFacts DEF overflowing_bins
  <2> QED BY <2>2, <2>4
<1> QED BY OInit, OStep, <1>1, PTL DEF Spec, OnlyEmptiedLeave
-----------------------------------------------------------------------------
(***************************************************************************)
(* A planning that nobody disturbs.  Each listed bin has a rank in the     *)
(* list; the trucks take the ranks part by part, the last one the rest.    *)
(***************************************************************************)

\* Nothing is planned before a planning assigns.
Unplanned ==
  /\ pc["alert"] \in {"fill", "grow", "mark", "replan", "read", "list", "count"}
       => routes["alert"] = {}
  /\ pc["op"] \in {"check", "read", "list", "count"} => routes["op"] = {}

\* What a thread has planned so far, if it was left alone.
Planned(t) ==
  /\ pc[t] = "list" => scan[t] \subseteq full
  /\ pc[t] \in {"count", "assign", "planned"} => overflowing_bins \subseteq full
  /\ pc[t] = "assign" =>
       routes[t] = {k \in 1 .. assigning[t] - 1 : Slice(k, per_truck[t]) # {}}
  /\ pc[t] = "assign" =>
       \A k \in routes[t] : route_bins[k] = Slice(k, per_truck[t])
  /\ pc[t] = "planned" =>
       \E per \in Nat :
         /\ routes[t] = {k \in Trucks : Slice(k, per) # {}}
         /\ \A k \in routes[t] : route_bins[k] = Slice(k, per)

PlannedAlone ==
  \A t \in Threads : alone[t] =>
    pc[t] \in {"list", "count", "assign", "planned"} /\ Planned(t)

PInv == TInv /\ Unplanned /\ PlannedAlone

LEMMA RankType ==
  ASSUME TypeOK, NEW b \in overflowing_bins
  PROVE  Rank(b) \in Nat \ {0}
<1> DEFINE S == {c \in overflowing_bins : place[c] <= place[b]}
<1>2. S \in SUBSET Bins /\ b \in Bins /\ place[b] \in Nat
  BY DEF overflowing_bins, TypeOK
<1>3. b \in S
  BY <1>2
<1>4. IsFiniteSet(S) /\ Cardinality(S) \in Nat
  BY <1>2, CardType
<1>5. Cardinality(S) # 0
  BY <1>3, <1>4, FS_EmptySet
<1> QED BY <1>4, <1>5 DEF Rank

LEMMA LeastOf ==
  ASSUME NEW S \in SUBSET Nat, S # {}
  PROVE  \E m \in S : \A n \in S : m <= n
<1>1. PICK x \in S : \A y \in S : ~(<<y, x>> \in OpToRel(<, Nat))
  BY WFMin, NatLessThanWellFounded
<1>2. \A y \in S : x <= y
  <2> SUFFICES ASSUME NEW y \in S PROVE x <= y
    OBVIOUS
  <2>1. x \in Nat /\ y \in Nat /\ <<y, x>> \in Nat \X Nat
    OBVIOUS
  <2>2. ~(y < x)
    BY <1>1, <2>1 DEF OpToRel
  <2> QED BY <2>1, <2>2
<1> QED BY <1>1, <1>2

\* plan_routes leaves no listed bin out.
LEMMA EachHasTruck ==
  ASSUME TypeOK, NEW per \in Nat, NEW b \in overflowing_bins
  PROVE  \E k \in Trucks : b \in Slice(k, per)
<1> DEFINE r == Rank(b)
<1>1. r \in Nat /\ r > 0 /\ K \in Nat /\ K > 0
  BY RankType, RoutesAssumption
<1> HIDE DEF r
<1>2. CASE (K - 1) * per < r
  BY <1>1, <1>2 DEF Slice, Trucks, r
<1>3. CASE ~((K - 1) * per < r)
  <2> DEFINE S == {k \in Nat : r <= k * per}
  <2>1. K - 1 \in S
    <3>1. K - 1 \in Nat /\ (K - 1) * per \in Nat
      BY <1>1
    <3> QED BY <1>1, <1>3, <3>1
  <2>2. PICK m \in S : \A n \in S : m <= n
    BY <2>1, LeastOf
  <2>3. m \in Nat /\ r <= m * per /\ m <= K - 1
    BY <2>1, <2>2
  <2>4. m # 0
    BY <1>1, <2>3
  <2>5. m - 1 \in Nat /\ m - 1 \notin S
    <3>1. m - 1 \in Nat /\ m - 1 < m
      BY <2>3, <2>4
    <3> QED BY <2>2, <2>3, <3>1
  <2>6. (m - 1) * per < r
    <3>1. (m - 1) * per \in Nat
      BY <2>5
    <3> QED BY <1>1, <2>5, <3>1
  <2>7. m \in Trucks /\ b \in Slice(m, per)
    BY <1>1, <2>3, <2>4, <2>6 DEF Slice, Trucks, r
  <2> QED BY <2>7
<1> QED BY <1>2, <1>3

\* plan_routes gives no listed bin to two trucks.
LEMMA NoneHasTwo ==
  ASSUME TypeOK, NEW per \in Nat, NEW k \in Trucks, NEW l \in Trucks, k # l
  PROVE  Slice(k, per) \cap Slice(l, per) = {}
<1>1. ASSUME NEW i \in Trucks, NEW j \in Trucks, i < j,
             NEW b \in Slice(i, per), b \in Slice(j, per)
      PROVE  FALSE
  <2>1. b \in overflowing_bins /\ i < K /\ K \in Nat /\ i \in Nat /\ j \in Nat
    BY <1>1, RoutesAssumption DEF Slice, Trucks
  <2>2. Rank(b) \in Nat
    BY <2>1, RankType
  <2>3. Rank(b) <= i * per /\ (j - 1) * per < Rank(b)
    BY <1>1, <2>1 DEF Slice
  <2>4. i * per <= (j - 1) * per
    <3>1. PICK d \in Nat : j - 1 = i + d
      <4>1. j - 1 - i \in Nat /\ j - 1 = i + (j - 1 - i)
        BY <1>1, <2>1
      <4> QED BY <4>1
    <3>2. (i + d) * per = i * per + d * per /\ d * per \in Nat /\ i * per \in Nat
      BY <2>1, <3>1
    <3> QED BY <3>1, <3>2
  <2>5. i * per \in Nat /\ (j - 1) * per \in Int
    BY <1>1, <2>1
  <2> QED BY <2>2, <2>3, <2>4, <2>5
<1>2. k \in Nat /\ l \in Nat /\ (k < l \/ l < k)
  BY RoutesAssumption DEF Trucks
<1> QED BY <1>1, <1>2

LEMMA PlansDivided == PInv => PlansDivideList
<1> SUFFICES ASSUME PInv, NEW t \in Threads, pc[t] = "planned", alone[t]
             PROVE  /\ UNION {route_bins[k] : k \in routes[t]} = overflowing_bins
                    /\ \A k, l \in routes[t] : k # l => route_bins[k] \cap route_bins[l] = {}
  BY DEF PlansDivideList
<1>1. PICK per \in Nat :
        /\ routes[t] = {k \in Trucks : Slice(k, per) # {}}
        /\ \A k \in routes[t] : route_bins[k] = Slice(k, per)
  BY DEF PInv, PlannedAlone, Planned
<1>2. TypeOK
  BY DEF PInv, TInv
<1>3. \A b \in overflowing_bins : \E k \in routes[t] : b \in route_bins[k]
  <2> SUFFICES ASSUME NEW b \in overflowing_bins
               PROVE  \E k \in routes[t] : b \in route_bins[k]
    OBVIOUS
  <2>1. PICK k \in Trucks : b \in Slice(k, per)
    BY <1>2, EachHasTruck
  <2> QED BY <1>1, <2>1
<1>4. \A k \in routes[t] : route_bins[k] \subseteq overflowing_bins
  BY <1>1, SliceType
<1>5. \A k, l \in routes[t] : k # l => route_bins[k] \cap route_bins[l] = {}
  BY <1>1, <1>2, NoneHasTwo
<1> QED BY <1>3, <1>4, <1>5

LEMMA PInit == Init => PInv
<1> SUFFICES ASSUME Init PROVE PInv
  OBVIOUS
<1>1. Unplanned
  BY DEF Init, Unplanned, Threads
<1>2. PlannedAlone
  BY DEF Init, PlannedAlone
<1> QED BY <1>1, <1>2, TInit DEF PInv

LEMMA UPlan ==
  ASSUME PInv, NEW t \in Threads, Plan(t)
  PROVE  Unplanned'
<1>0. "alert" \in Threads /\ "op" \in Threads /\ "alert" # "op" /\ Threads = {"alert", "op"}
  BY DEF Threads
<1>1. CASE Read(t)
  BY <1>0, <1>1 DEF PInv, TInv, TypeOK, Unplanned, Read, Goto
<1>2. CASE List(t)
  BY <1>0, <1>2 DEF PInv, TInv, TypeOK, Unplanned, List, Goto
<1>3. CASE Count(t)
  BY <1>0, <1>3 DEF PInv, TInv, TypeOK, Unplanned, Count, Goto
<1>4. CASE Assign(t)
  BY <1>0, <1>4 DEF PInv, TInv, TypeOK, Unplanned, Assign, Goto
<1> QED BY <1>1, <1>2, <1>3, <1>4 DEF Plan

LEMMA UStep == PInv /\ [Next]_vars => Unplanned'
<1> SUFFICES ASSUME PInv, [Next]_vars PROVE Unplanned'
  OBVIOUS
<1>0. "alert" \in Threads /\ "op" \in Threads /\ "alert" # "op"
  BY DEF Threads
<1>a. pc \in [Threads -> Steps] /\ routes \in [Threads -> SUBSET Trucks]
  BY DEF PInv, TInv, TypeOK
<1>1. CASE UNCHANGED vars
  BY <1>1 DEF PInv, Unplanned, vars
<1>2. ASSUME NEW b \in Bins, Visit(b) PROVE Unplanned'
  BY <1>0, <1>a, <1>2 DEF PInv, Unplanned, Visit, Goto
<1>3. CASE Grow \/ Mark \/ Replan \/ Alerted
  BY <1>0, <1>a, <1>3 DEF PInv, Unplanned, Grow, Mark, Replan, Alerted, Goto, planning
<1>4. CASE Check \/ Dispatch \/ Return \/ Arrive \/ Complete
  BY <1>0, <1>a, <1>4 DEF PInv, Unplanned, Check, Dispatch, Return, Arrive, Complete,
     Goto, planning
<1>5. CASE Send
  <2>1. routes'["alert"] = routes["alert"] /\ pc'["alert"] = pc["alert"]
    BY <1>0, <1>a, <1>5 DEF Send, Goto
  <2>2. pc'["op"] \in {"send", "drive"}
    BY <1>0, <1>a, <1>5 DEF Send, Goto
  <2> QED BY <2>1, <2>2 DEF PInv, Unplanned
<1>6. ASSUME NEW b \in Bins, Empty(b) \/ Environment(b) PROVE Unplanned'
  BY <1>6 DEF PInv, Unplanned, Empty, Environment, Adopt, HandOver, Release, EmptyBin,
     planning
<1>7. CASE Plan("alert") \/ Plan("op")
  BY <1>0, <1>7, UPlan
<1> QED BY <1>1, <1>2, <1>3, <1>4, <1>5, <1>6, <1>7 DEF Next, AlertStep, OperationLoop

\* What a thread's planning works with.
Local(t) == <<pc[t], scan[t], routes[t], per_truck[t], assigning[t]>>

LEMMA LocalPlan ==
  ASSUME TypeOK, NEW u \in Threads, NEW t \in Threads, t # u, Plan(u)
  PROVE  UNCHANGED Local(t)
<1>1. CASE Read(u)
  BY <1>1 DEF TypeOK, Read, Goto, Local
<1>2. CASE List(u)
  BY <1>2 DEF TypeOK, List, Goto, Local
<1>3. CASE Count(u)
  BY <1>3 DEF TypeOK, Count, Goto, Local
<1>4. CASE Assign(u)
  BY <1>4 DEF TypeOK, Assign, Goto, Local
<1> QED BY <1>1, <1>2, <1>3, <1>4 DEF Plan

LEMMA LocalAlert ==
  ASSUME TypeOK, AlertStep \/ \E b \in Bins : Visit(b)
  PROVE  UNCHANGED Local("op")
<1>0. "alert" \in Threads /\ "op" \in Threads /\ "alert" # "op"
  BY DEF Threads
<1>1. ASSUME NEW b \in Bins, Visit(b) PROVE UNCHANGED Local("op")
  BY <1>0, <1>1 DEF TypeOK, Visit, Goto, Local
<1>2. CASE Grow \/ Mark \/ Replan \/ Alerted
  BY <1>0, <1>2 DEF TypeOK, Grow, Mark, Replan, Alerted, Goto, Local, planning
<1>3. CASE Plan("alert")
  BY <1>0, <1>3, LocalPlan
<1> QED BY <1>1, <1>2, <1>3 DEF AlertStep

LEMMA LocalOperation ==
  ASSUME TypeOK, OperationLoop
  PROVE  UNCHANGED Local("alert")
<1>0. "alert" \in Threads /\ "op" \in Threads /\ "alert" # "op"
  BY DEF Threads
<1>1. CASE Check \/ Dispatch \/ Send \/ Return
  BY <1>0, <1>1 DEF TypeOK, Check, Dispatch, Send, Return, Goto, Local, planning
<1>2. CASE Arrive \/ Complete \/ \E b \in Bins : Empty(b)
  BY <1>0, <1>2 DEF TypeOK, Arrive, Complete, Empty, Goto, Local, planning
<1>3. CASE Plan("op")
  BY <1>0, <1>3, LocalPlan
<1> QED BY <1>1, <1>2, <1>3 DEF OperationLoop

\* A planning stays as it is while its thread does nothing and the others leave the
\* list, the plans and the levels alone.
LEMMA PlannedKept ==
  ASSUME NEW t \in Threads, Planned(t), UNCHANGED Local(t), UNCHANGED <<full, plans>>
  PROVE  Planned(t)'
<1>1. overflowing_bins' = overflowing_bins /\ route_bins' = route_bins
  BY DEF overflowing_bins, plans
<1>2. \A b : Rank(b)' = Rank(b)
  BY <1>1 DEF Rank, plans
<1>3. \A k, per : Slice(k, per)' = Slice(k, per)
  BY <1>1, <1>2 DEF Slice
<1>4. /\ pc'[t] = pc[t] /\ scan'[t] = scan[t] /\ routes'[t] = routes[t]
      /\ per_truck'[t] = per_truck[t] /\ assigning'[t] = assigning[t]
  BY DEF Local
<1> QED BY <1>1, <1>3, <1>4 DEF Planned

\* A thread's own step: only planning keeps it alone.
LEMMA OwnStepAlone ==
  ASSUME PInv, NEW t \in Threads, Note(t), alone'[t]
  PROVE  /\ pc[t] \in {"read", "list", "count", "assign", "planned"}
         /\ pc[t] # "read" => alone[t] /\ pc'[t] \in {"list", "count", "assign", "planned"}
  BY DEF PInv, PlannedAlone, Note

LEMMA PlannedPlan ==
  ASSUME PInv, NEW t \in Threads, Plan(t), Note(t), alone'[t]
  PROVE  pc'[t] \in {"list", "count", "assign", "planned"} /\ Planned(t)'
<1>a. TypeOK /\ pc \in [Threads -> Steps] /\ scan \in [Threads -> SUBSET Bins]
  BY DEF PInv, TInv, TypeOK
<1>b. pc[t] # "read" => alone[t] /\ Planned(t)
  BY OwnStepAlone DEF PInv, PlannedAlone
<1>c. pc[t] \in {"list", "count"} => routes[t] = {}
  BY DEF PInv, Unplanned, Threads
<1>1. CASE Read(t)
  BY <1>a, <1>1 DEF Read, Goto, Planned, fills
<1>2. CASE List(t)
  <2>1. overflowing_bins' = scan[t]
    <3>1. scan[t] \in SUBSET Bins /\ place' \in Sorted(scan[t])
      BY <1>a, <1>2 DEF List
    <3> QED BY <3>1, SortedFacts DEF overflowing_bins
  <2> QED BY <1>a, <1>b, <1>2, <2>1 DEF List, Goto, Planned, fills
<1>3. CASE Count(t)
  <2>1. overflowing_bins' = overflowing_bins /\ full' = full /\ routes' = routes
    BY <1>3 DEF Count, overflowing_bins, plans, fills
  <2>2. routes'[t] = {} /\ overflowing_bins' \subseteq full'
    BY <1>b, <1>c, <1>3, <2>1 DEF Count, Planned
  <2>3. CASE overflowing_bins = {}
    <3>1. pc'[t] = "planned"
      BY <1>a, <1>3, <2>3 DEF Count, Goto
    <3>2. \A k : Slice(k, 0)' = {}
      BY <2>1, <2>3 DEF Slice
    <3>3. 0 \in Nat
      OBVIOUS
    <3> QED BY <2>2, <3>1, <3>2, <3>3 DEF Planned
  <2>4. CASE overflowing_bins # {}
    <3>1. pc'[t] = "assign" /\ assigning'[t] = 1
      BY <1>a, <1>3, <2>4 DEF Count, Goto, TypeOK
    <3>2. 1 .. assigning'[t] - 1 = {}
      BY <3>1
    <3> QED BY <2>2, <3>1, <3>2 DEF Planned
  <2> QED BY <2>3, <2>4
<1>4. CASE Assign(t)
  <2> DEFINE k == assigning[t]
             per == per_truck[t]
  <2>1. k \in Trucks /\ per \in Nat /\ K \in Nat
    BY <1>a, <1>4, RoutesAssumption DEF Assign, PInv, TInv, Assigns, TypeOK
  <2>2. /\ overflowing_bins \subseteq full
        /\ routes[t] = {i \in 1 .. k - 1 : Slice(i, per) # {}}
        /\ \A i \in routes[t] : route_bins[i] = Slice(i, per)
    BY <1>b, <1>4 DEF Assign, Planned
  <2>3. overflowing_bins' = overflowing_bins /\ full' = full /\ place' = place
    BY <1>4 DEF Assign, overflowing_bins, fills
  <2>4. \A i, p : Slice(i, p)' = Slice(i, p)
    BY <2>3 DEF Slice, Rank
  <2>5. 1 .. k = (1 .. k - 1) \cup {k} /\ k \notin 1 .. k - 1
    BY <2>1 DEF Trucks
  <2>6. /\ routes'[t] = {i \in 1 .. k : Slice(i, per) # {}}
        /\ \A i \in routes'[t] : route_bins'[i] = Slice(i, per)
    <3>1. CASE Slice(k, per) = {}
      <4>1. routes' = routes /\ route_bins' = route_bins
        BY <1>4, <3>1 DEF Assign
      <4> QED BY <2>2, <2>5, <3>1, <4>1
    <3>2. CASE Slice(k, per) # {}
      <4>1. Slice(k, per) \cap full = Slice(k, per)
        BY <2>2, SliceType
      <4>2. /\ route_bins' = [route_bins EXCEPT ![k] = Slice(k, per) \cap full]
            /\ routes' = [routes EXCEPT ![t] = @ \cup {k}]
        BY <1>4, <3>2 DEF Assign
      <4> HIDE DEF k, per
      <4>3. routes'[t] = routes[t] \cup {k}
        BY <1>a, <4>2 DEF TypeOK
      <4>4. \A i \in Trucks : route_bins'[i] = IF i = k THEN Slice(k, per) ELSE route_bins[i]
        BY <1>a, <4>1, <4>2 DEF TypeOK
      <4>5. routes[t] \subseteq Trucks
        BY <1>a DEF TypeOK
      <4> QED BY <2>1, <2>2, <2>5, <3>2, <4>3, <4>4, <4>5
    <3> QED BY <3>1, <3>2
  <2>7. CASE k = K
    <3>1. pc'[t] = "planned"
      BY <1>a, <1>4, <2>7 DEF Assign, LastTruck, Goto
    <3> QED BY <2>1, <2>2, <2>3, <2>4, <2>6, <2>7, <3>1 DEF Planned, Trucks
  <2>8. CASE k # K
    <3>1. pc'[t] = "assign" /\ assigning'[t] = k + 1 /\ per_truck'[t] = per
      BY <1>a, <1>4, <2>8 DEF Assign, LastTruck, TypeOK
    <3>2. assigning'[t] - 1 = k
      BY <2>1, <3>1 DEF Trucks
    <3> QED BY <2>2, <2>3, <2>4, <2>6, <3>1, <3>2 DEF Planned
  <2> QED BY <2>7, <2>8
<1> QED BY <1>1, <1>2, <1>3, <1>4 DEF Plan

LEMMA PStep == PInv /\ [Next]_vars => PInv'
<1> SUFFICES ASSUME PInv, [Next]_vars PROVE PInv'
  OBVIOUS
<1>0. "alert" \in Threads /\ "op" \in Threads /\ "alert" # "op" /\ Threads = {"alert", "op"}
  BY DEF Threads
<1>1. TInv' /\ Unplanned' /\ TypeOK
  BY TStep, UStep DEF PInv, TInv
<1> DEFINE Good(t) == alone'[t] =>
             pc'[t] \in {"list", "count", "assign", "planned"} /\ Planned(t)'
<1>2. ASSUME NEW t \in Threads, NEW u, u # t, Note(u), UNCHANGED Local(t) PROVE Good(t)
  <2> SUFFICES ASSUME alone'[t]
               PROVE  pc'[t] \in {"list", "count", "assign", "planned"} /\ Planned(t)'
    OBVIOUS
  <2>1. alone[t] /\ UNCHANGED <<full, plans>>
    BY <1>2 DEF Note
  <2>2. Planned(t) /\ pc'[t] = pc[t] /\ pc[t] \in {"list", "count", "assign", "planned"}
    BY <1>2, <2>1 DEF PInv, PlannedAlone, Local
  <2> QED BY <1>2, <2>1, <2>2, PlannedKept
<1>3. CASE UNCHANGED vars
  <2>1. \A t \in Threads : UNCHANGED Local(t)
    BY <1>3 DEF vars, Local
  <2>2. UNCHANGED <<full, plans>> /\ alone' = alone /\ pc' = pc
    BY <1>3 DEF vars, plans
  <2>3. \A t \in Threads : alone[t] => Planned(t)'
    BY <2>1, <2>2, PlannedKept DEF PInv, PlannedAlone
  <2> QED BY <1>1, <2>2, <2>3 DEF PInv, PlannedAlone
<1>4. CASE (AlertStep \/ \E b \in Bins : Visit(b)) /\ Note("alert")
  <2>1. Good("op")
    BY <1>0, <1>1, <1>2, <1>4, LocalAlert
  <2>2. Good("alert")
    <3> SUFFICES ASSUME alone'["alert"]
                 PROVE  /\ pc'["alert"] \in {"list", "count", "assign", "planned"}
                        /\ Planned("alert")'
      OBVIOUS
    <3>1. /\ pc["alert"] \in {"read", "list", "count", "assign", "planned"}
          /\ pc["alert"] # "read" => pc'["alert"] \in {"list", "count", "assign", "planned"}
      BY <1>0, <1>4, OwnStepAlone
    <3>2. ~Grow /\ ~Mark /\ ~Replan /\ \A b \in Bins : ~Visit(b)
      BY <3>1 DEF Grow, Mark, Replan, Visit
    <3>3. ~Alerted
      BY <1>0, <1>1, <3>1 DEF Alerted, Goto, TypeOK
    <3>4. Plan("alert")
      BY <1>4, <3>2, <3>3 DEF AlertStep
    <3> QED BY <1>0, <1>4, <3>4, PlannedPlan
  <2> QED BY <1>0, <1>1, <2>1, <2>2 DEF PInv, PlannedAlone
<1>5. CASE OperationLoop /\ Note("op")
  <2>1. Good("alert")
    BY <1>0, <1>1, <1>2, <1>5, LocalOperation
  <2>2. Good("op")
    <3> SUFFICES ASSUME alone'["op"]
                 PROVE  /\ pc'["op"] \in {"list", "count", "assign", "planned"}
                        /\ Planned("op")'
      OBVIOUS
    <3>1. /\ pc["op"] \in {"read", "list", "count", "assign", "planned"}
          /\ pc["op"] # "read" => pc'["op"] \in {"list", "count", "assign", "planned"}
      BY <1>0, <1>5, OwnStepAlone
    <3>2. ~Check /\ ~Send /\ ~Return /\ ~Arrive /\ ~Complete /\ \A b \in Bins : ~Empty(b)
      BY <3>1 DEF Check, Send, Return, Arrive, Complete, Empty
    <3>3. ~Dispatch
      BY <1>0, <1>1, <3>1 DEF Dispatch, Goto, TypeOK
    <3>4. Plan("op")
      BY <1>5, <3>2, <3>3 DEF OperationLoop
    <3> QED BY <1>0, <1>5, <3>4, PlannedPlan
  <2> QED BY <1>0, <1>1, <2>1, <2>2 DEF PInv, PlannedAlone
<1>6. CASE (\E b \in Bins : Environment(b)) /\ Note("others")
  <2>1. \A t \in Threads : UNCHANGED Local(t)
    BY <1>6 DEF Environment, Adopt, HandOver, Release, EmptyBin, Local, planning
  <2>2. \A t \in Threads : Good(t)
    BY <1>0, <1>2, <1>6, <2>1
  <2> QED BY <1>1, <2>2 DEF PInv, PlannedAlone
<1> QED BY <1>3, <1>4, <1>5, <1>6 DEF Next

\* A planning nobody disturbs puts every listed bin in the plan of one truck and of
\* one truck only, for any number of bins and of trucks (RouteManager.plan_routes).
THEOREM ListDivided == Spec => []PlansDivideList
  BY PInit, PStep, PlansDivided, PTL DEF Spec
=============================================================================
