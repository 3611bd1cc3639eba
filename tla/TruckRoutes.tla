---------------------------- MODULE TruckRoutes ----------------------------
(***************************************************************************)
(* The bins and trucks of one zone.  The simulation thread of BinSimulator *)
(* fills bins and, on an overflow, replans the routes; the operation loop  *)
(* plans and drives; the delivery thread hands bins over and takes bins    *)
(* in; an operator empties bins.  None of them locks the RouteManager, so  *)
(* planning is a sequence of steps.  The fill level is kept as overflowing *)
(* or not: the order of a list sorted by priority is then any order.       *)
(***************************************************************************)
EXTENDS Naturals, Sequences, FiniteSets

CONSTANTS
  Bins,      \* every bin of the simulation
  Home,      \* the bins the zone starts with
  Movable,   \* bound: the bins that change zones
  K          \* truck_count

ASSUME RoutesAssumption ==
  /\ IsFiniteSet(Bins)
  /\ Home \subseteq Bins
  /\ Movable \subseteq Bins
  /\ K \in Nat \ {0}

Trucks == 1 .. K
Threads == {"alert", "op"}

VARIABLES
  full,        \* the bins whose fill level is at or above 80
  marked,      \* overflowing_bin_ids of the simulator
  zone_id,     \* the bins whose zone_id is this zone
  zone_bins,   \* the bins the zone owns
  place,       \* overflowing_bins: the place of each listed bin, 0 of the others
  active,      \* the trucks that have a plan in active_routes
  route_bins,  \* the bins of the plan of each truck
  pc,          \* per thread, the step it is at
  alerted,     \* the bin the simulation thread has in hand, if any
  was,         \* was_overflowing: whether that bin was marked
  scan,        \* per thread, the overflowing bins it found
  per_truck,   \* per thread, bins_per_truck
  assigning,   \* per thread, the truck its planning has come to
  routes,      \* per thread, the trucks it planned a route for and has not sent
  truck,       \* the truck that was sent, 0 if none
  held,        \* the bins of the plan the truck was sent with
  current,     \* whether that plan is still the one in active_routes
  serviced,    \* the bins the truck empties on its tour
  left,        \* those it has not emptied yet
  alone,       \* ghost, per thread: nothing disturbed its planning so far
  slipped      \* ghost: bins released while a thread had them in hand

fills == <<full, marked>>
tick == <<alerted, was>>
ownership == <<zone_id, zone_bins, slipped>>
plans == <<place, active, route_bins>>
planning == <<tick, scan, per_truck, assigning, routes>>
driving == <<truck, held, current, serviced, left>>
vars == <<full, marked, zone_id, zone_bins, slipped, place, active, route_bins, pc,
          alerted, was, scan, per_truck, assigning, routes, truck, held, current,
          serviced, left, alone>>

Steps == {"fill", "grow", "mark", "replan", "check", "read", "list", "count", "assign",
          "planned", "send", "drive", "empty"}

\* The bins in the list.
overflowing_bins == {b \in Bins : place[b] > 0}

\* sort_bins_by_priority: the bins in S, each at a place of its own.
Sorted(S) ==
  {p \in [Bins -> 0 .. Cardinality(S)] :
     /\ \A b \in Bins : p[b] > 0 <=> b \in S
     /\ \A b, c \in S : p[b] = p[c] => b = c}

\* The list without the bins in S.
Without(S) == [b \in Bins |-> IF b \in S THEN 0 ELSE place[b]]

\* How many bins of the list come up to b, b included.
Rank(b) == Cardinality({c \in overflowing_bins : place[c] <= place[b]})

\* Faulty variant of Slice: the last truck does not take the rest.
Slice_Even(k, per) ==
  {b \in overflowing_bins : (k - 1) * per < Rank(b) /\ Rank(b) <= k * per}

\* plan_routes: the part of the list that truck k gets.
Slice(k, per) ==
  {b \in overflowing_bins :
     (k - 1) * per < Rank(b) /\ (k < K => Rank(b) <= k * per)}

\* plan_routes goes through the trucks.
LastTruck(k) == k = K

\* Faulty variant of Completed: the list is cleared.
Completed_All(k) == Without(Bins)

\* empty_bins_in_route: the list without the bins of the truck's plan.
Completed(k) == Without(route_bins[k])

\* Faulty variant of Pruned: release_bins leaves the plans alone.
Pruned_Kept(k, S) == route_bins[k]

\* release_bins: the plan of truck k without the bins in S.
Pruned(k, S) == route_bins[k] \ S

\* Faulty variant of WasOverflowing: the level is asked instead of the mark.
WasOverflowing_Level(b) == b \in full

\* was_overflowing
WasOverflowing(b) == b \in marked

\* Faulty variant of HasWork: one bin is not worth a tour.
HasWork_Many == Cardinality(overflowing_bins) > 1

\* The operation loop plans if bins are listed.
HasWork == overflowing_bins # {}

\* empty_bin: the fill level goes to 0.
Drained(b) == full \ {b}

Goto(t, step) == pc' = [pc EXCEPT ![t] = step]

-----------------------------------------------------------------------------
\* The fill levels start at most at 30, and nothing is planned.
Init ==
  /\ full = {} /\ marked = {}
  /\ zone_id = Home /\ zone_bins = Home /\ slipped = {}
  /\ place = [b \in Bins |-> 0]
  /\ active = {} /\ route_bins = [k \in Trucks |-> {}]
  /\ pc = [t \in Threads |-> IF t = "op" THEN "check" ELSE "fill"]
  /\ alerted = {} /\ was = FALSE
  /\ scan = [t \in Threads |-> {}]
  /\ per_truck = [t \in Threads |-> 0]
  /\ assigning = [t \in Threads |-> 0]
  /\ routes = [t \in Threads |-> {}]
  /\ truck = 0 /\ held = {} /\ current = FALSE /\ serviced = {} /\ left = {}
  /\ alone = [t \in Threads |-> FALSE]

-----------------------------------------------------------------------------
(***************************************************************************)
(* plan_routes, run by both threads.                                       *)
(***************************************************************************)

\* update_overflowing_bins looks for overflowing bins among the zone's ...
Read(t) ==
  /\ pc[t] = "read"
  /\ scan' = [scan EXCEPT ![t] = zone_bins \cap full]
  /\ Goto(t, "list")
  /\ UNCHANGED <<fills, ownership, plans, tick, per_truck, assigning, routes,
                 driving>>

\* ... and lists what it found, sorted by priority.
List(t) ==
  /\ pc[t] = "list"
  /\ place' \in Sorted(scan[t])
  /\ scan' = [scan EXCEPT ![t] = {}]
  /\ Goto(t, "count")
  /\ UNCHANGED <<fills, ownership, active, route_bins, tick, per_truck,
                 assigning, routes, driving>>

\* bins_per_truck, or nothing to do.
Count(t) ==
  /\ pc[t] = "count"
  /\ IF overflowing_bins = {}
     THEN Goto(t, "planned") /\ UNCHANGED <<per_truck, assigning>>
     ELSE /\ per_truck' = [per_truck EXCEPT ![t] = Cardinality(overflowing_bins) \div K]
          /\ assigning' = [assigning EXCEPT ![t] = 1]
          /\ Goto(t, "assign")
  /\ UNCHANGED <<fills, ownership, plans, tick, scan, routes, driving>>

\* One truck gets its part of the list; compute_route leaves out bins emptied
\* meanwhile.  A truck without bins keeps the plan it has.
Assign(t) ==
  /\ pc[t] = "assign"
  /\ LET k == assigning[t]
         slice == Slice(k, per_truck[t])
     IN /\ IF slice = {}
           THEN UNCHANGED <<active, route_bins, routes, current>>
           ELSE /\ active' = active \cup {k}
                /\ route_bins' = [route_bins EXCEPT ![k] = slice \cap full]
                /\ routes' = [routes EXCEPT ![t] = @ \cup {k}]
                /\ current' = (current /\ truck # k)
        /\ IF LastTruck(k)
           THEN /\ assigning' = [assigning EXCEPT ![t] = 0]
                /\ per_truck' = [per_truck EXCEPT ![t] = 0]
                /\ Goto(t, "planned")
           ELSE /\ assigning' = [assigning EXCEPT ![t] = k + 1]
                /\ UNCHANGED <<per_truck, pc>>
  /\ UNCHANGED <<fills, ownership, place, tick, scan, truck, held, serviced, left>>

Plan(t) == Read(t) \/ List(t) \/ Count(t) \/ Assign(t)

-----------------------------------------------------------------------------
(***************************************************************************)
(* The simulation thread of BinSimulator.                                  *)
(***************************************************************************)

\* update_fill_levels comes to a bin whose level gets to 80 or stays above it: it
\* looks whether the bin is marked and reads its level ...
Visit(b) ==
  /\ pc["alert"] = "fill"
  /\ alerted' = {b} /\ was' = WasOverflowing(b)
  /\ Goto("alert", "grow")
  /\ UNCHANGED <<fills, ownership, plans, scan, per_truck, assigning, routes, driving>>

\* ... writes the new one, whatever happened to the bin in between, and raises an
\* alert if the bin was not marked.
Grow ==
  /\ pc["alert"] = "grow"
  /\ full' = full \cup alerted
  /\ was' = FALSE
  /\ IF was
     THEN Goto("alert", "fill") /\ alerted' = {}
     ELSE Goto("alert", "mark") /\ UNCHANGED alerted
  /\ UNCHANGED <<marked, ownership, plans, scan, per_truck, assigning, routes,
                 driving>>

\* The bin is marked, and the node of its zone_id is told.
Mark ==
  /\ pc["alert"] = "mark"
  /\ marked' = marked \cup alerted
  /\ IF alerted \subseteq zone_id
     THEN Goto("alert", "replan") /\ UNCHANGED alerted
     ELSE Goto("alert", "fill") /\ alerted' = {}
  /\ UNCHANGED <<full, was, ownership, plans, scan, per_truck, assigning, routes,
                 driving>>

\* replan_route_on_new_overflow lists the bin, if it is not, and plans.
Replan ==
  /\ pc["alert"] = "replan"
  /\ IF alerted \subseteq overflowing_bins
     THEN UNCHANGED place
     ELSE place' \in Sorted(overflowing_bins \cup alerted)
  /\ Goto("alert", "read")
  /\ UNCHANGED <<fills, ownership, active, route_bins, planning, driving>>

\* The routes are planned, the alert is over.
Alerted ==
  /\ pc["alert"] = "planned"
  /\ alerted' = {}
  /\ routes' = [routes EXCEPT !["alert"] = {}]
  /\ Goto("alert", "fill")
  /\ UNCHANGED <<fills, was, ownership, plans, scan, per_truck, assigning, driving>>

AlertStep == Grow \/ Mark \/ Replan \/ Plan("alert") \/ Alerted

-----------------------------------------------------------------------------
(***************************************************************************)
(* The operation loop.                                                     *)
(***************************************************************************)

\* It plans if there is work.
Check ==
  /\ pc["op"] = "check"
  /\ HasWork
  /\ Goto("op", "read")
  /\ UNCHANGED <<fills, ownership, plans, planning, driving>>

\* The trucks it planned for are sent one after the other, ...
Dispatch ==
  /\ pc["op"] = "planned"
  /\ Goto("op", "send")
  /\ UNCHANGED <<fills, ownership, plans, planning, driving>>

\* ... each with the plan active_routes has for it now: execute_route.
Send ==
  /\ pc["op"] = "send"
  /\ \E k \in routes["op"] :
       /\ \A l \in routes["op"] : k <= l
       /\ routes' = [routes EXCEPT !["op"] = @ \ {k}]
       /\ IF k \in active
          THEN /\ truck' = k /\ held' = route_bins[k] /\ current' = TRUE
               /\ Goto("op", "drive")
          ELSE UNCHANGED <<truck, held, current, pc>>
  /\ UNCHANGED <<fills, ownership, plans, tick, scan, per_truck, assigning,
                 serviced, left>>

\* All are back.
Return ==
  /\ pc["op"] = "send"
  /\ routes["op"] = {}
  /\ Goto("op", "check")
  /\ UNCHANGED <<fills, ownership, plans, planning, driving>>

\* The drive is over: the truck empties the bins its plan has now.
Arrive ==
  /\ pc["op"] = "drive"
  /\ serviced' = held /\ left' = held /\ held' = {}
  /\ Goto("op", "empty")
  /\ UNCHANGED <<fills, ownership, plans, planning, truck, current>>

\* empty_bin
Empty(b) ==
  /\ pc["op"] = "empty"
  /\ b \in left
  /\ full' = Drained(b) /\ marked' = marked \ {b}
  /\ left' = left \ {b}
  /\ UNCHANGED <<ownership, plans, pc, planning, truck, held, current, serviced>>

\* empty_bins_in_route and complete_route: the truck's plan of now is done.
Complete ==
  /\ pc["op"] = "empty"
  /\ left = {}
  /\ place' = IF truck \in active THEN Completed(truck) ELSE place
  /\ active' = active \ {truck}
  /\ route_bins' = [route_bins EXCEPT ![truck] = {}]
  /\ truck' = 0 /\ serviced' = {} /\ current' = FALSE
  /\ Goto("op", "send")
  /\ UNCHANGED <<fills, ownership, planning, held, left>>

OperationLoop ==
  \/ Check \/ Plan("op") \/ Dispatch \/ Send \/ Return \/ Arrive \/ Complete
  \/ \E b \in Bins : Empty(b)

-----------------------------------------------------------------------------
(***************************************************************************)
(* The delivery thread, the other zones and an operator.                   *)
(***************************************************************************)

\* _handle_spillover_adopted: the zone takes a bin in and lists what overflows.
Adopt(b) ==
  /\ b \in Movable \ zone_bins
  /\ zone_id' = zone_id \cup {b}
  /\ zone_bins' = zone_bins \cup {b}
  /\ slipped' = slipped \ {b}
  /\ place' \in Sorted(zone_bins' \cap full)
  /\ UNCHANGED <<fills, active, route_bins, pc, planning, driving>>

\* A peer adopts the bin: its zone_id changes first ...
HandOver(b) ==
  /\ b \in Movable \cap zone_bins \cap zone_id
  /\ zone_id' = zone_id \ {b}
  /\ UNCHANGED <<fills, zone_bins, slipped, plans, pc, planning, driving>>

\* The bins a thread is about to list.
InHand ==
  (UNION {scan[t] : t \in Threads})
    \cup (IF pc["alert"] = "replan" THEN alerted ELSE {})

\* ... then _handle_spillover_completed releases it: release_bins drops it from the
\* list, prunes the plans in place and deletes those that end up empty.
Release(b) ==
  /\ b \in zone_bins \ zone_id
  /\ zone_bins' = zone_bins \ {b}
  /\ slipped' = slipped \cup (InHand \cap {b})
  /\ place' = Without({b})
  /\ LET emptied == {k \in active : route_bins[k] = {b}}
     IN /\ active' = active \ emptied
        /\ route_bins' = [k \in Trucks |->
             IF k \in emptied THEN {}
             ELSE IF k \in active THEN Pruned(k, {b}) ELSE route_bins[k]]
        /\ current' = (current /\ truck \notin emptied)
        /\ held' = IF current /\ truck \notin emptied /\ pc["op"] = "drive"
                   THEN Pruned(truck, {b}) ELSE held
  /\ UNCHANGED <<fills, zone_id, pc, planning, truck, serviced, left>>

\* Another zone's truck empties the bin.
EmptyBin(b) ==
  /\ b \in full
  /\ full' = Drained(b) /\ marked' = marked \ {b}
  /\ UNCHANGED <<ownership, plans, pc, planning, driving>>

\* Whether a thread's planning has been left alone since it looked for bins.
Note(t) ==
  alone' = [u \in Threads |->
    IF u = t THEN pc[t] = "read" \/ (alone[t] /\ pc'[t] \in {"list", "count", "assign", "planned"})
    ELSE alone[u] /\ UNCHANGED <<full, zone_bins, plans>>]

Environment(b) == Adopt(b) \/ HandOver(b) \/ Release(b) \/ EmptyBin(b)

Next ==
  \/ (AlertStep \/ \E b \in Bins : Visit(b)) /\ Note("alert")
  \/ OperationLoop /\ Note("op")
  \/ (\E b \in Bins : Environment(b)) /\ Note("others")

Spec == Init /\ [][Next]_vars

\* The threads are scheduled: an alert is finished, the operation loop goes on.  A
\* bin that overflows stays so until it is emptied, and the simulation visits every
\* bin on every tick.
FairSpec ==
  /\ Spec
  /\ WF_vars(AlertStep /\ Note("alert"))
  /\ WF_vars(OperationLoop /\ Note("op"))
  /\ \A b \in Bins : SF_vars(b \in full /\ Visit(b) /\ Note("alert"))

-----------------------------------------------------------------------------
TypeOK ==
  /\ full \subseteq Bins /\ marked \subseteq Bins
  /\ zone_id \subseteq zone_bins /\ zone_bins \subseteq Bins /\ slipped \subseteq Bins
  /\ place \in [Bins -> Nat]
  /\ active \subseteq Trucks /\ route_bins \in [Trucks -> SUBSET Bins]
  /\ pc \in [Threads -> Steps]
  /\ alerted \subseteq Bins /\ was \in BOOLEAN
  /\ scan \in [Threads -> SUBSET Bins]
  /\ per_truck \in [Threads -> Nat]
  /\ assigning \in [Threads -> 0 .. K]
  /\ routes \in [Threads -> SUBSET Trucks]
  /\ truck \in 0 .. K /\ held \subseteq Bins /\ current \in BOOLEAN
  /\ serviced \subseteq Bins /\ left \subseteq serviced
  /\ alone \in [Threads -> BOOLEAN]

\* A planning nobody disturbs divides the list: every listed bin is in the plan of
\* one truck and of one truck only (plan_routes).
PlansDivideList ==
  \A t \in Threads : (pc[t] = "planned" /\ alone[t]) =>
    /\ UNION {route_bins[k] : k \in routes[t]} = overflowing_bins
    /\ \A k, l \in routes[t] : k # l => route_bins[k] \cap route_bins[l] = {}

\* The zone lists, plans and starts a drive to bins it owns only, except bins that
\* were released while a thread had them in hand to list them (release_bins).
OnlyOwnedPlanned ==
  /\ overflowing_bins \subseteq zone_bins \cup slipped
  /\ \A k \in active : route_bins[k] \subseteq zone_bins \cup slipped
  /\ current => held \subseteq zone_bins \cup slipped

\* Completing a route whose plan was not replaced takes off the list only bins that
\* the truck emptied (empty_bins_in_route).
OnlyEmptiedLeave ==
  [][(current /\ pc["op"] = "empty" /\ pc'["op"] = "send")
       => overflowing_bins \ overflowing_bins' \subseteq serviced]_vars

\* A bin that overflows without being marked, as when the simulation writes back the
\* level it read before the bin was emptied, is marked in the end unless it is
\* emptied: no overflow escapes the simulator for good (update_fill_levels).
Noticed ==
  \A b \in Bins : (b \in full /\ b \notin marked) ~> (b \in marked \/ b \notin full)

\* Alerts and transfers have ended.
Calm == <>[][zone_bins' = zone_bins /\ pc'["alert"] \in {"fill", "grow"}]_vars

\* Once alerts and transfers have ended, a bin does not stay on the list without
\* being emptied (_operation_loop, plan_routes, execute_route).
Serviced ==
  \A b \in Bins : (Calm /\ <>[](b \in overflowing_bins)) => []<>(b \notin full)
=============================================================================
