----------------------------- MODULE Spillover -----------------------------
(***************************************************************************)
(* Load balancing between the fog nodes of the waste management system:    *)
(* a zone whose list of overflowing bins grows beyond the threshold hands  *)
(* bins over to its least loaded peer (modules/inter_fog_comm).            *)
(*                                                                         *)
(* The module composes what one FogNode object runs: SpilloverManager,     *)
(* the state part of GossipProtocol, InterFogCommunicator with its         *)
(* message queue, RouteManager with one truck (the default), and the       *)
(* operation loop.  Bins are the shared telemetry objects of BinSimulator. *)
(*                                                                         *)
(* One action is one handler, or one stretch of the operation loop between *)
(* two of its sleeps.  Queues are FIFO per sender; heads of the queues of  *)
(* different senders are delivered in any order (DeliveryThread.tla has    *)
(* the order of the simulator's single delivery thread).                   *)
(***************************************************************************)
EXTENDS Integers, Sequences, FiniteSets

CONSTANTS
  Zones,       \* the fog nodes
  Bins,        \* the bins of the simulator
  Home,        \* Home[b]: the zone that owns bin b at the start
  Threshold,   \* overload_threshold of every SpilloverManager
  Fanout,      \* gossip_fanout of every GossipProtocol
  MaxBacklog,  \* model bound: bins overflow only while queues are this short
  Filling,     \* model bound: the bins that overflow during a behaviour
  HandEmptied, \* model bound: the bins the operator ever empties by hand
  Looping      \* model bound: the zones whose operation loop gets to run

ASSUME ZonesAssumption == IsFiniteSet(Zones)
ASSUME HomeAssumption == IsFiniteSet(Bins) /\ Home \in [Bins -> Zones]
ASSUME ThresholdAssumption == Threshold \in Nat
ASSUME FanoutAssumption == Fanout \in Nat \ {0}
ASSUME BoundsAssumption ==
  /\ MaxBacklog \in Nat
  /\ Filling \subseteq Bins /\ HandEmptied \subseteq Bins
  /\ Looping \subseteq Zones

VARIABLES
  zone_bins,           \* FogNode.zone_bins: the bins each node owns
  zone_id,             \* BinTelemetry.zone_id of each bin, one shared object
  overflowing,         \* the bins filled to the overflow level or above
  overflowing_bins,    \* RouteManager.overflowing_bins of each node
  active_route,        \* bins of the truck's entry in active_routes, {}: none
  op_loop,             \* where the operation loop of each node stands
  truck,               \* bins of the route the truck is driving, {}: parked
  plan_current,        \* the driven route is the object in active_routes
  current_state,       \* load in InterFogCommunicator.current_state
  peer_states,         \* peer_states[z][p]: load of p as z last heard it
  pending_spillovers,  \* pending_spillovers[z][t]: bins z asked t to take
  attempted_peers,     \* peers tried during the current overload episode
  message_queue        \* MessageRouter.message_queue of each node, a FIFO

nodeVars == <<zone_bins, zone_id, overflowing>>
routeVars == <<active_route, op_loop, truck, plan_current>>
spillVars == <<pending_spillovers, attempted_peers>>
vars == <<nodeVars, routeVars, spillVars, overflowing_bins, current_state,
          peer_states, message_queue>>

Unknown == -1                       \* Python's None for a load
Loads == Nat \cup {Unknown}
Phases == {"plan", "execute", "publish"}

StateMsg == [kind : {"state"}, to : SUBSET Zones, load : Nat]
RequestMsg == [kind : {"request"}, to : Zones, bins : SUBSET Bins]
ResponseMsg ==
  [kind : {"response"}, to : Zones, accepted : BOOLEAN, bins : SUBSET Bins]
Message == StateMsg \cup RequestMsg \cup ResponseMsg

\* Faulty variant of State: publishes the excess over the threshold.
State_Excess(to, n) ==
  [kind |-> "state", to |-> to, load |-> n - Threshold]

State(to, n) == [kind |-> "state", to |-> to, load |-> n]
Request(t, S) == [kind |-> "request", to |-> t, bins |-> S]
Response(z, ok, S) ==
  [kind |-> "response", to |-> z, accepted |-> ok, bins |-> S]

-----------------------------------------------------------------------------
(***************************************************************************)
(* Gossip.  Publishing a load some peer was already told, and has not been *)
(* told otherwise since, changes nothing at that peer: such a message is   *)
(* left out, which keeps the periodic publication finite.                  *)
(***************************************************************************)
Peers(z) == Zones \ {z}

\* select_gossip_targets: everybody, or Fanout peers drawn at random.
GossipTargets(z) ==
  IF Cardinality(Peers(z)) <= Fanout
    THEN {Peers(z)}
    ELSE {G \in SUBSET Peers(z) : Cardinality(G) = Fanout}

AlreadyTold(z, p, n) ==
  LET q == message_queue[z]
      news == {i \in DOMAIN q : q[i].kind = "state" /\ p \in q[i].to}
  IN  IF news = {}
        THEN peer_states[p][z] = n
        ELSE \E i \in news : q[i].load = n /\ \A j \in news : j <= i

\* The messages of gossip_to_peers: at most one entry, for the peers in G.
News(z, G, n) ==
  LET fresh == {p \in G : ~AlreadyTold(z, p, n)}
  IN  IF fresh = {} THEN <<>> ELSE <<State(fresh, n)>>

-----------------------------------------------------------------------------
(***************************************************************************)
(* InterFogCommunicator.update_state and SpilloverManager.                 *)
(***************************************************************************)
Overloaded(n) == n > Threshold

\* The peers initiate_spillover may ask: not tried in this episode, heard
\* of, and not overloaded as far as z knows.
Candidates(z) ==
  {t \in Peers(z) \ attempted_peers[z] :
     peer_states[z][t] # Unknown /\ ~Overloaded(peer_states[z][t])}

LeastLoaded(z) ==
  {t \in Candidates(z) :
     \A p \in Candidates(z) : peer_states[z][t] <= peer_states[z][p]}

Least(m, n) == IF m <= n THEN m ELSE n

\* bins_to_transfer: no more than the excess, the room t is known to have,
\* and the bins there are.
Amount(z, t, n) ==
  Least(Least(n - Threshold, Threshold - peer_states[z][t]), n)

\* Faulty variant of NoneOutstanding: asks although a request is pending.
NoneOutstanding_Dropped(z) == TRUE

\* One outstanding request at a time.
NoneOutstanding(z) == \A t \in Zones : pending_spillovers[z][t] = {}

\* initiate_spillover sends a request for a list of n bins.
Initiates(z, n) ==
  /\ Overloaded(n)
  /\ NoneOutstanding(z)
  /\ \E t \in LeastLoaded(z) : Amount(z, t, n) > 0

\* The bins at the low-priority end of the list: which ones they are depends
\* on fill levels, so any subset of the right size.
Selections(L, k) == {S \in SUBSET L : Cardinality(S) = k}

\* update_state with the list L and the queues Q so far: the state goes out,
\* then the request it may lead to, then the reply the handler ends with (each
\* a sequence of at most one message).
Publish(z, L, Q, request, reply) ==
  /\ overflowing_bins' = [overflowing_bins EXCEPT ![z] = L]
  /\ current_state' = [current_state EXCEPT ![z] = Cardinality(L)]
  /\ \E G \in GossipTargets(z) :
       message_queue' =
         [Q EXCEPT ![z] =
            ((@ \o News(z, G, Cardinality(L))) \o request) \o reply]

\* attempted_peers after initiate_spillover did not ask anybody.  It is not
\* even called for an empty list (_check_spillover_needs returns first).
EpisodeOver(L) == L # {} /\ ~Overloaded(Cardinality(L))

AttemptedAfter(z, L) == IF EpisodeOver(L) THEN {} ELSE attempted_peers[z]

InitiateSpillover(z, L, Q, reply) ==
  /\ Initiates(z, Cardinality(L))
  /\ \E t \in LeastLoaded(z) :
       \E S \in Selections(L, Amount(z, t, Cardinality(L))) :
         /\ pending_spillovers' = [pending_spillovers EXCEPT ![z][t] = S]
         /\ attempted_peers' = [attempted_peers EXCEPT ![z] = @ \cup {t}]
         /\ Publish(z, L, Q, <<Request(t, S)>>, reply)

NoSpillover(z, L, Q, reply) ==
  /\ ~Initiates(z, Cardinality(L))
  /\ attempted_peers' = [attempted_peers EXCEPT ![z] = AttemptedAfter(z, L)]
  /\ Publish(z, L, Q, <<>>, reply)
  /\ UNCHANGED pending_spillovers

UpdateState(z, L, Q, reply) ==
  InitiateSpillover(z, L, Q, reply) \/ NoSpillover(z, L, Q, reply)

-----------------------------------------------------------------------------
(***************************************************************************)
(* Bins overflow, routes are planned and driven.                           *)
(***************************************************************************)
Short(q) == Len(q) <= MaxBacklog

\* The bins plan_routes and update_overflowing_bins put on the list.
ToService(z) == overflowing \cap zone_bins[z]

\* update_fill_levels takes bin b over the overflow level; the alert goes to
\* the zone named in the telemetry, which replans and publishes its state.
Overflow(b) ==
  LET z == zone_id[b]
      L == (overflowing \cup {b}) \cap zone_bins[z]
  IN  /\ b \in Filling \ overflowing
      /\ \A y \in Zones : Short(message_queue[y])
      /\ overflowing' = overflowing \cup {b}
      /\ active_route' = IF L = {} THEN active_route
                                   ELSE [active_route EXCEPT ![z] = L]
      /\ plan_current' = IF L = {} THEN plan_current
                                   ELSE [plan_current EXCEPT ![z] = FALSE]
      /\ UpdateState(z, L, message_queue, <<>>)
      /\ UNCHANGED <<zone_bins, zone_id, op_loop, truck, peer_states>>

\* The operator's "empty bin" button of the web console.
EmptyBin(b) ==
  /\ b \in HandEmptied \cap overflowing
  /\ overflowing' = overflowing \ {b}
  /\ UNCHANGED <<zone_bins, zone_id, overflowing_bins, current_state,
                 peer_states, message_queue, routeVars, spillVars>>

\* Top of _operation_loop with bins to service: plan, and send the truck off.
Dispatch(z) ==
  /\ op_loop[z] = "plan"
  /\ overflowing_bins[z] # {}
  /\ ToService(z) # {}
  /\ overflowing_bins' = [overflowing_bins EXCEPT ![z] = ToService(z)]
  /\ active_route' = [active_route EXCEPT ![z] = ToService(z)]
  /\ truck' = [truck EXCEPT ![z] = ToService(z)]
  /\ plan_current' = [plan_current EXCEPT ![z] = TRUE]
  /\ op_loop' = [op_loop EXCEPT ![z] = "execute"]
  /\ UNCHANGED <<nodeVars, spillVars, current_state, peer_states,
                 message_queue>>

\* Top of _operation_loop with nothing to service (plan_routes returns []).
NothingToPlan(z) ==
  /\ op_loop[z] = "plan"
  /\ overflowing_bins[z] = {} \/ ToService(z) = {}
  /\ overflowing_bins' = [overflowing_bins EXCEPT ![z] = {}]
  /\ op_loop' = [op_loop EXCEPT ![z] = "publish"]
  /\ UNCHANGED <<nodeVars, spillVars, active_route, truck, plan_current,
                 current_state, peer_states, message_queue>>

\* empty_bins_in_route: what the plan now in active_routes names leaves the
\* list, whichever plan the truck drove.
Unlisted(z) == overflowing_bins[z] \ active_route[z]

\* execute_route after its sleep: the bins of the route held since before the
\* sleep are emptied, the active plan is completed, the state is published.
ExecuteRoute(z) ==
  /\ op_loop[z] = "execute"
  /\ overflowing' = overflowing \ truck[z]
  /\ active_route' = [active_route EXCEPT ![z] = {}]
  /\ truck' = [truck EXCEPT ![z] = {}]
  /\ plan_current' = [plan_current EXCEPT ![z] = FALSE]
  /\ op_loop' = [op_loop EXCEPT ![z] = "publish"]
  /\ UpdateState(z, Unlisted(z), message_queue, <<>>)
  /\ UNCHANGED <<zone_bins, zone_id, peer_states>>

\* End of an iteration of _operation_loop: update_zone_state.
UpdateZoneState(z) ==
  /\ op_loop[z] = "publish"
  /\ op_loop' = [op_loop EXCEPT ![z] = "plan"]
  /\ UpdateState(z, overflowing_bins[z], message_queue, <<>>)
  /\ UNCHANGED <<nodeVars, active_route, truck, plan_current, peer_states>>

-----------------------------------------------------------------------------
(***************************************************************************)
(* Delivery.  z is the sender at the head of whose queue the message is.   *)
(***************************************************************************)
Waiting(z, kind) ==
  message_queue[z] # <<>> /\ Head(message_queue[z]).kind = kind

Popped(z) == [message_queue EXCEPT ![z] = Tail(@)]

\* receive_gossip: p keeps the last state of zone z it was told.
Learned(p, z, load) == [peer_states[p] EXCEPT ![z] = load]

\* _handle_zone_state at every receiver of the publication.
ReceiveState(z) ==
  /\ Waiting(z, "state")
  /\ LET m == Head(message_queue[z])
     IN  peer_states' = [p \in Zones |->
           IF p \in m.to THEN Learned(p, z, m.load)
                         ELSE peer_states[p]]
  /\ message_queue' = Popped(z)
  /\ UNCHANGED <<nodeVars, routeVars, spillVars, overflowing_bins,
                 current_state>>

\* receive_spillover_request: room for the bins, judged by current_state.
CanAccept(t, S) ==
  /\ current_state[t] # Unknown
  /\ current_state[t] + Cardinality(S) <= Threshold

\* Faulty variant of Adopted: takes only bins already marked as its own.
Adopted_Marked(t, S) == {b \in S : zone_id[b] = t}

\* _handle_spillover_adopted skips the bins the node owns already.
Adopted(t, S) == S \ zone_bins[t]

\* Faulty variant of Acceptance: names only the bins newly adopted.
Acceptance_Adopted(z, t, S) == Response(z, TRUE, Adopted(t, S))

\* The accepting answer names the bins asked for, adopted or not.
Acceptance(z, t, S) == Response(z, TRUE, S)

\* Accepted: t takes the bins over, relists and publishes, then answers.
AdoptRequest(z) ==
  /\ Waiting(z, "request")
  /\ LET m == Head(message_queue[z])
         t == m.to
         mine == zone_bins[t] \cup Adopted(t, m.bins)
     IN  /\ CanAccept(t, m.bins)
         /\ Adopted(t, m.bins) # {}
         /\ zone_bins' = [zone_bins EXCEPT ![t] = mine]
         /\ zone_id' = [b \in Bins |->
              IF b \in Adopted(t, m.bins) THEN t ELSE zone_id[b]]
         /\ UpdateState(t, overflowing \cap mine, Popped(z),
                        <<Acceptance(z, t, m.bins)>>)
  /\ UNCHANGED <<overflowing, routeVars, peer_states>>

\* Accepted, though t owns all of the bins already: it only answers.
AcceptOwned(z) ==
  /\ Waiting(z, "request")
  /\ LET m == Head(message_queue[z])
     IN  /\ CanAccept(m.to, m.bins)
         /\ Adopted(m.to, m.bins) = {}
         /\ message_queue' = [Popped(z) EXCEPT
              ![m.to] = @ \o <<Acceptance(z, m.to, m.bins)>>]
  /\ UNCHANGED <<nodeVars, routeVars, spillVars, overflowing_bins,
                 current_state, peer_states>>

RejectRequest(z) ==
  /\ Waiting(z, "request")
  /\ LET m == Head(message_queue[z])
     IN  /\ ~CanAccept(m.to, m.bins)
         /\ message_queue' = [Popped(z) EXCEPT
              ![m.to] = @ \o <<Response(z, FALSE, {})>>]
  /\ UNCHANGED <<nodeVars, routeVars, spillVars, overflowing_bins,
                 current_state, peer_states>>

\* Faulty variant of RouteReleased: the route keeps the bins handed over.
RouteReleased_Kept(z, S) == active_route

\* release_bins prunes the route in place; a route left without bins is
\* dropped from active_routes, but the object a truck holds is not touched.
RouteReleased(z, S) == [active_route EXCEPT ![z] = @ \ S]

TruckReleased(z, S) ==
  [truck EXCEPT ![z] =
     IF plan_current[z] /\ active_route[z] \ S # {} THEN @ \ S ELSE @]

\* Faulty variant of Released: the sender goes on owning the bins.
Released_Kept(z, S) == zone_bins[z]

\* _handle_spillover_completed: the bins are no longer this zone's.
Released(z, S) == zone_bins[z] \ S

\* Faulty variant of Resolved: the answered request stays pending.
Resolved_Kept(z, t) == pending_spillovers

\* The request t has answered is no longer pending.
Resolved(z, t) == [pending_spillovers EXCEPT ![z][t] = {}]

\* receive_spillover_response, accepted: the sender forgets its rejections,
\* releases the bins, publishes with the request still pending, and only
\* then removes it.
ReceiveAccept(t) ==
  /\ Waiting(t, "response")
  /\ LET m == Head(message_queue[t])
         z == m.to
     IN  /\ m.accepted
         /\ pending_spillovers[z][t] # {}
         /\ zone_bins' = [zone_bins EXCEPT ![z] = Released(z, m.bins)]
         /\ active_route' = RouteReleased(z, m.bins)
         /\ truck' = TruckReleased(z, m.bins)
         /\ plan_current' = [plan_current EXCEPT ![z] =
              @ /\ active_route[z] \ m.bins # {}]
         /\ attempted_peers' = [attempted_peers EXCEPT ![z] = {}]
         /\ Publish(z, overflowing_bins[z] \ m.bins, Popped(t), <<>>, <<>>)
         /\ pending_spillovers' = Resolved(z, t)
  /\ UNCHANGED <<zone_id, overflowing, op_loop, peer_states>>

\* ... rejected: attempted_peers keeps t, the request is removed.
ReceiveReject(t) ==
  /\ Waiting(t, "response")
  /\ LET m == Head(message_queue[t])
         z == m.to
     IN  /\ ~m.accepted
         /\ pending_spillovers[z][t] # {}
         /\ pending_spillovers' = Resolved(z, t)
  /\ message_queue' = Popped(t)
  /\ UNCHANGED <<nodeVars, routeVars, attempted_peers, overflowing_bins,
                 current_state, peer_states>>

-----------------------------------------------------------------------------
\* The system as initialize_with_bins leaves it: nobody has published yet.
Init ==
  /\ zone_bins = [z \in Zones |-> {b \in Bins : Home[b] = z}]
  /\ zone_id = Home
  /\ overflowing = {}
  /\ overflowing_bins = [z \in Zones |-> {}]
  /\ active_route = [z \in Zones |-> {}]
  /\ op_loop = [z \in Zones |-> "plan"]
  /\ truck = [z \in Zones |-> {}]
  /\ plan_current = [z \in Zones |-> FALSE]
  /\ current_state = [z \in Zones |-> Unknown]
  /\ peer_states = [z \in Zones |-> [p \in Zones |-> Unknown]]
  /\ pending_spillovers = [z \in Zones |-> [t \in Zones |-> {}]]
  /\ attempted_peers = [z \in Zones |-> {}]
  /\ message_queue = [z \in Zones |-> <<>>]

Deliver(z) ==
  \/ ReceiveState(z)
  \/ AdoptRequest(z)
  \/ AcceptOwned(z)
  \/ RejectRequest(z)
  \/ ReceiveAccept(z)
  \/ ReceiveReject(z)

OperationLoop(z) ==
  \/ Dispatch(z)
  \/ NothingToPlan(z)
  \/ ExecuteRoute(z)
  \/ UpdateZoneState(z)

Environment(b) == Overflow(b) \/ EmptyBin(b)

Next ==
  \/ \E z \in Zones : Deliver(z)
  \/ \E z \in Looping : OperationLoop(z)
  \/ \E b \in Bins : Environment(b)

Spec == Init /\ [][Next]_vars

\* The delivery thread polls every queue once a second and every operation
\* loop comes round: both are weakly fair.  Bins need not overflow.
Fairness ==
  /\ \A z \in Zones : WF_vars(Deliver(z))
  /\ \A z \in Looping : WF_vars(OperationLoop(z))

-----------------------------------------------------------------------------
(***************************************************************************)
(* Properties.                                                             *)
(***************************************************************************)

\* Every variable keeps its type.
TypeOK ==
  /\ zone_bins \in [Zones -> SUBSET Bins]
  /\ zone_id \in [Bins -> Zones]
  /\ overflowing \in SUBSET Bins
  /\ overflowing_bins \in [Zones -> SUBSET Bins]
  /\ active_route \in [Zones -> SUBSET Bins]
  /\ op_loop \in [Zones -> Phases]
  /\ truck \in [Zones -> SUBSET Bins]
  /\ plan_current \in [Zones -> BOOLEAN]
  /\ current_state \in [Zones -> Loads]
  /\ peer_states \in [Zones -> [Zones -> Loads]]
  /\ pending_spillovers \in [Zones -> [Zones -> SUBSET Bins]]
  /\ attempted_peers \in [Zones -> SUBSET Zones]
  /\ message_queue \in [Zones -> Seq(Message)]

Is(m, kind, to) == m.kind = kind /\ m.to = to

\* The answer m tells z that it may release bin b.
Gives(m, z, b) == Is(m, "response", z) /\ m.accepted /\ b \in m.bins

Grants(q, z, b) == \E i \in DOMAIN q : Gives(q[i], z, b)

\* z is about to release b: the answer is on its way.
Releasing(z, b) == \E t \in Zones : Grants(message_queue[t], z, b)

SettledOwners(b) == {z \in Zones : b \in zone_bins[z] /\ ~Releasing(z, b)}

\* While a transfer is under way both ends own the bins; apart from the ends
\* that will release them, a bin has never more than one owner, however
\* transfers of the same bin chain or cross (receive_spillover_request,
\* receive_spillover_response).
AtMostOneSettledOwner ==
  \A b \in Bins : \A y, z \in SettledOwners(b) : y = z

\* At most one request of a zone is outstanding (initiate_spillover), also
\* across the accepting handler, which publishes before it removes the entry.
OneOutstanding ==
  \A z, t, u \in Zones :
    pending_spillovers[z][t] # {} /\ pending_spillovers[z][u] # {} => t = u

Has(q, kind, to) == \E i \in DOMAIN q : Is(q[i], kind, to)
Once(q, kind, to) ==
  \A i, j \in DOMAIN q : Is(q[i], kind, to) /\ Is(q[j], kind, to) => i = j

\* The bins m names are S, unless m is a rejection, which names none.
Names(m, S) == (m.kind = "response" /\ ~m.accepted) \/ m.bins = S
AllName(q, kind, to, S) ==
  \A i \in DOMAIN q : Is(q[i], kind, to) => Names(q[i], S)

\* A pending request is on its way, or its answer is, never both and never
\* twice, and each names the bins of the pending entry: an answer always
\* finds the request it answers (receive_spillover_response looks it up by
\* the peer alone).
AnswersMatch ==
  \A z, t \in Zones :
    LET out == message_queue[z]
        back == message_queue[t]
        S == pending_spillovers[z][t]
    IN  /\ S # {} <=> Has(out, "request", t) \/ Has(back, "response", z)
        /\ ~(Has(out, "request", t) /\ Has(back, "response", z))
        /\ Once(out, "request", t) /\ Once(back, "response", z)
        /\ AllName(out, "request", t, S) /\ AllName(back, "response", z, S)

\* A zone lists, plans and offers only bins it owns (update_overflowing_bins,
\* release_bins, initiate_spillover): ownership is never offered twice.
OnlyOwnedBins ==
  \A z \in Zones :
    /\ overflowing_bins[z] \cup active_route[z] \subseteq zone_bins[z]
    /\ \A t \in Zones : pending_spillovers[z][t] \subseteq zone_bins[z]

\* Every request is answered and its pending entry removed, so a zone can ask
\* again (receive_spillover_response).
RequestAnswered ==
  \A z, t \in Zones :
    pending_spillovers[z][t] # {} ~> pending_spillovers[z][t] = {}
=============================================================================
