--------------------------- MODULE RouteOptimizer ---------------------------
(***************************************************************************)
(* How a truck's tour is computed: BinPriorityManager ranks bins by fill   *)
(* level, RouteOptimizer orders the overflowing ones by nearest neighbour. *)
(* The telemetry is shared with the simulation, so levels change while a   *)
(* route is computed; one step is one turn of the loop.  Fill levels are   *)
(* whole percents.                                                         *)
(***************************************************************************)
EXTENDS Naturals, Sequences, FiniteSets

CONSTANTS
  Bins,      \* the bins
  Start,     \* the truck's position
  Dist,      \* Dist[p][b]: the distance from a position to a bin
  Levels,    \* bound: the fill levels that occur
  Lists,     \* bound: the lists of bins that are handed in
  Spares     \* bound: the spare_capacity that is asked for

ASSUME OptimizerAssumption ==
  /\ Start \notin Bins
  /\ Dist \in [Bins \cup {Start} -> [Bins -> Nat]]
  /\ Levels \subseteq 0 .. 100
  /\ Lists \subseteq Seq(Bins)
  /\ Spares \subseteq Nat

VARIABLES
  fill_level,        \* the fill level of each bin
  pc,                \* "idle", or "loop" while a route is computed
  overflowing_bins,  \* the bins to visit, as a list
  visited_bins,      \* those visited so far
  current_position,  \* where the truck is on its tour
  route_bins,        \* the tour so far
  total_distance,    \* its length
  plan,              \* the last plan: its bins and its length
  wanted             \* ghost: the bins the last replanning was to route

computing == <<overflowing_bins, visited_bins, current_position, route_bins,
               total_distance>>
vars == <<fill_level, pc, computing, plan, wanted>>

-----------------------------------------------------------------------------
(***************************************************************************)
(* Priorities.                                                             *)
(***************************************************************************)
CRITICAL_THRESHOLD == 90
HIGH_THRESHOLD == 80
MEDIUM_THRESHOLD == 60
overflow_threshold == 80

PRIORITY_ORDER == <<"low", "medium", "high", "critical">>
Tiers == {PRIORITY_ORDER[i] : i \in DOMAIN PRIORITY_ORDER}
ROUTABLE_PRIORITIES == {"critical", "high"}

\* get_bin_priority of a fill level.
Priority(f) ==
  IF f >= CRITICAL_THRESHOLD THEN "critical"
  ELSE IF f >= HIGH_THRESHOLD THEN "high"
  ELSE IF f >= MEDIUM_THRESHOLD THEN "medium" ELSE "low"

\* priority_weights, times a hundred.
priority_weights == [critical |-> 300, high |-> 200, medium |-> 150, low |-> 100]

\* get_priority_score
Score(f) == priority_weights[Priority(f)] + f

IsOverflowing(f) == f >= overflow_threshold
IsRoutable(f) == Priority(f) \in ROUTABLE_PRIORITIES

\* The elements of s at the indices in I, in order.
At(s, I) ==
  [k \in 1 .. Cardinality(I) |->
     s[CHOOSE i \in I : Cardinality({j \in I : j <= i}) = k]]

\* The elements of s that satisfy a test on their fill level, in order.
Where(s, Test(_)) == At(s, {i \in DOMAIN s : Test(fill_level[s[i]])})

\* sort_bins_by_priority: descending, elements of equal score in their old order.
Before(s, i, j) ==
  LET a == Score(fill_level[s[i]])
      b == Score(fill_level[s[j]])
  IN a > b \/ (a = b /\ i <= j)

Sorted(s) ==
  [k \in DOMAIN s |->
     s[CHOOSE i \in DOMAIN s : Cardinality({j \in DOMAIN s : Before(s, j, i)}) = k]]

IsMedium(f) == Priority(f) = "medium"

\* Faulty variant of Deferred: one bin more than there is capacity for.
Deferred_More(s, spare) ==
  LET medium == Where(s, IsMedium)
  IN SubSeq(medium, 1, IF spare < Len(medium) THEN spare + 1 ELSE Len(medium))

\* The Medium bins the spare capacity is used for.
Deferred(s, spare) ==
  LET medium == Where(s, IsMedium)
  IN SubSeq(medium, 1, IF spare < Len(medium) THEN spare ELSE Len(medium))

\* get_routable_bins
RoutableBins(s, spare) ==
  Where(Sorted(s), IsRoutable) \o Deferred(Sorted(s), spare)

\* get_priority_distribution
Distribution(s) ==
  [t \in Tiers |-> Cardinality({i \in DOMAIN s : Priority(fill_level[s[i]]) = t})]

\* filter_by_priority
AtOrAbove(s, min_priority) ==
  LET Index(t) == CHOOSE i \in DOMAIN PRIORITY_ORDER : PRIORITY_ORDER[i] = t
  IN At(s, {i \in DOMAIN s : Index(Priority(fill_level[s[i]])) >= Index(min_priority)})

-----------------------------------------------------------------------------
(***************************************************************************)
(* Routes.                                                                 *)
(***************************************************************************)
Listed(s) == {s[i] : i \in DOMAIN s}

\* The indices of the bins still to visit.
Unvisited == {i \in DOMAIN overflowing_bins : overflowing_bins[i] \notin visited_bins}

To(i) == Dist[current_position][overflowing_bins[i]]

\* Faulty variant of Nearest: the last of the nearest ones.
Nearest_Last(i) == \A j \in Unvisited : To(i) < To(j) \/ (To(i) = To(j) /\ j <= i)

\* find_nearest_unvisited_bin: the first of the nearest ones.
Nearest(i) == \A j \in Unvisited : To(i) < To(j) \/ (To(i) = To(j) /\ i <= j)

\* Faulty variant of Merged: the bin is taken to be among the others.
Merged_Assumed(s, b) == At(s, {i \in DOMAIN s : \A j \in 1 .. i - 1 : s[j] # s[i]})

\* The candidates of replan_on_overflow: each bin once, the new one added.
Merged(s, b) ==
  LET once == At(s, {i \in DOMAIN s : \A j \in 1 .. i - 1 : s[j] # s[i]})
  IN IF b \in Listed(s) THEN once ELSE Append(once, b)

\* The distance of the leg that ends at the i-th bin of a route.
Leg(r, i) == Dist[IF i = 1 THEN Start ELSE r[i - 1]][r[i]]

-----------------------------------------------------------------------------
Init ==
  /\ fill_level \in [Bins -> Levels]
  /\ pc = "idle"
  /\ overflowing_bins = <<>> /\ visited_bins = {} /\ current_position = Start
  /\ route_bins = <<>> /\ total_distance = 0
  /\ plan = [route_bins |-> <<>>, route_distance |-> 0]
  /\ wanted = {}

\* The simulation fills and empties bins.
SetLevel(b, f) ==
  /\ fill_level' = [fill_level EXCEPT ![b] = f]
  /\ UNCHANGED <<pc, computing, plan, wanted>>

\* compute_route begins: the bins that overflow now are to be visited.
Begin(s) ==
  /\ pc = "idle"
  /\ pc' = "loop"
  /\ overflowing_bins' = Where(s, IsOverflowing)
  /\ visited_bins' = {} /\ current_position' = Start
  /\ route_bins' = <<>> /\ total_distance' = 0
  /\ UNCHANGED <<fill_level, plan>>

ComputeRoute(s) == Begin(s) /\ wanted' = {}

\* What replanning owes: the new bin and the overflowing bins of the old route.
MustRoute(s, b) ==
  {c \in (Listed(plan.route_bins) \cap Listed(s)) \cup {b} : IsOverflowing(fill_level[c])}

\* replan_on_overflow: nothing to do if the bin is on the route.
ReplanOnOverflow(s, b) ==
  IF b \in Listed(plan.route_bins)
  THEN /\ pc = "idle"
       /\ wanted' = MustRoute(s, b)
       /\ UNCHANGED <<fill_level, pc, computing, plan>>
  ELSE Begin(Merged(s, b)) /\ wanted' = MustRoute(s, b)

\* One turn of the loop.
Visit ==
  /\ pc = "loop"
  /\ Cardinality(visited_bins) < Len(overflowing_bins)
  /\ \E i \in Unvisited :
       /\ Nearest(i)
       /\ route_bins' = Append(route_bins, overflowing_bins[i])
       /\ visited_bins' = visited_bins \cup {overflowing_bins[i]}
       /\ total_distance' = total_distance + To(i)
       /\ current_position' = overflowing_bins[i]
  /\ UNCHANGED <<fill_level, pc, overflowing_bins, plan, wanted>>

\* Faulty variant of Finished: the loop ends only by counting.
Finished_Counted == Cardinality(visited_bins) = Len(overflowing_bins)

\* Faulty variant of Finished: one bin too early.
Finished_Early == Cardinality(visited_bins) + 1 >= Len(overflowing_bins)

\* All are counted, or none is left because the list names a bin twice.
Finished == Cardinality(visited_bins) = Len(overflowing_bins) \/ Unvisited = {}

Return ==
  /\ pc = "loop"
  /\ Finished
  /\ pc' = "idle"
  /\ plan' = [route_bins |-> route_bins, route_distance |-> total_distance]
  /\ UNCHANGED <<fill_level, computing, wanted>>

Next ==
  \/ \E b \in Bins, f \in Levels : SetLevel(b, f)
  \/ \E s \in Lists : ComputeRoute(s)
  \/ \E s \in Lists, b \in Bins : ReplanOnOverflow(s, b)
  \/ Visit \/ Return

Spec == Init /\ [][Next]_vars

\* The loop runs.
FairSpec == Spec /\ WF_vars(Visit \/ Return)
-----------------------------------------------------------------------------
TypeOK ==
  /\ fill_level \in [Bins -> Nat]
  /\ pc \in {"idle", "loop"}
  /\ overflowing_bins \in Seq(Bins) /\ visited_bins \subseteq Bins
  /\ current_position \in Bins \cup {Start}
  /\ route_bins \in Seq(Bins) /\ total_distance \in Nat
  /\ plan \in [route_bins : Seq(Bins), route_distance : Nat]
  /\ wanted \subseteq Bins

\* The bins of the plan r are those to visit, each once, also when the list names a
\* bin twice (compute_route).
IsTour(r) ==
  /\ \A i, j \in DOMAIN r : r[i] = r[j] => i = j
  /\ Listed(r) = Listed(overflowing_bins)

\* The length of the route r.
Length(r) ==
  LET upto[i \in 0 .. Len(r)] == IF i = 0 THEN 0 ELSE upto[i - 1] + Leg(r, i)
  IN upto[Len(r)]

\* A plan visits every bin that overflowed when it was computed, once and nothing
\* else, and its distance is the length of that route (compute_route).
RouteIsTour ==
  pc = "idle" =>
    /\ IsTour(plan.route_bins)
    /\ plan.route_distance = Length(plan.route_bins)

\* The first place of a bin on the list.
Place(b) ==
  CHOOSE i \in DOMAIN overflowing_bins :
    /\ overflowing_bins[i] = b
    /\ \A j \in DOMAIN overflowing_bins : overflowing_bins[j] = b => i <= j

\* From every stop the plan goes on to a nearest bin of the rest of the route; of
\* bins at the same distance, the one that is listed first and so has the higher
\* priority (find_nearest_unvisited_bin).
NearestFirst ==
  LET r == plan.route_bins
      From(i) == Dist[IF i = 1 THEN Start ELSE r[i - 1]]
  IN pc = "idle" =>
       \A i, j \in DOMAIN r :
         i < j => \/ From(i)[r[i]] < From(i)[r[j]]
                  \/ From(i)[r[i]] = From(i)[r[j]] /\ Place(r[i]) < Place(r[j])

\* Replanning routes the bin that began to overflow, whether or not the list of all
\* bins names it yet, and keeps the bins of the old route that still overflow
\* (replan_on_overflow).
Rerouted == pc = "idle" => wanted \subseteq Listed(plan.route_bins)

\* get_routable_bins gives all overflowing bins, fullest first, and after them Medium
\* bins, fullest first, as many as there are or capacity is left for, and never a
\* Low one: the tiers of BinPriorityManager and the threshold of RouteOptimizer agree,
\* also in what filter_by_priority keeps and get_priority_distribution counts.
RoutableFirst ==
  \A s \in Lists, n \in Spares :
    LET full == Where(s, IsOverflowing)
        medium == Where(s, IsMedium)
        r == RoutableBins(s, n)
        Descending(t) ==
          \A i, j \in DOMAIN t : i < j => fill_level[t[i]] >= fill_level[t[j]]
        head == SubSeq(r, 1, Len(full))
        tail == SubSeq(r, Len(full) + 1, Len(r))
    IN /\ Listed(head) = Listed(full) /\ Descending(head)
       /\ Listed(tail) \subseteq Listed(medium) /\ Descending(tail)
       /\ Len(tail) = (IF n < Len(medium) THEN n ELSE Len(medium))
       /\ \A b \in Listed(medium) \ Listed(tail), c \in Listed(tail) :
            fill_level[b] <= fill_level[c]
       /\ AtOrAbove(s, "high") = full
       /\ Distribution(s)["high"] + Distribution(s)["critical"] = Len(full)
       /\ AtOrAbove(s, "medium") = Where(s, LAMBDA f : IsMedium(f) \/ IsRoutable(f))

\* A route is computed in the end, whatever the list names (compute_route).
Terminates == pc = "loop" ~> pc = "idle"
=============================================================================
