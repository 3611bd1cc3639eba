--------------------------- MODULE PeerDiscovery ---------------------------
(***************************************************************************)
(* Peer discovery of the fog nodes.  A node's states go to the peers it    *)
(* lists and to its roster; the delivery thread registers whoever is       *)
(* heard, and the discovery thread of each node drops peers that have been *)
(* silent for too long.  The two threads share peer_registry and           *)
(* peer_heartbeats without a lock, so both go by single statements.  A     *)
(* link <<z, p>> stands for what node z knows of its peer p.               *)
(***************************************************************************)
EXTENDS Naturals

CONSTANTS
  Zones,     \* the fog nodes
  Links,     \* bound: the links that are followed, the others never change
  Limit      \* heartbeat_timeout, in ticks

ASSUME PeersAssumption ==
  /\ Links \subseteq {l \in Zones \X Zones : l[1] # l[2]}
  /\ Limit \in Nat

VARIABLES
  peer_registry,    \* the links registered
  peer_heartbeats,  \* the links with a heartbeat
  age,              \* the ticks since the heartbeat, up to Limit + 1
  in_flight,        \* the links on which a state is waiting for delivery
  handling,         \* the link whose state the delivery thread is registering
  thread,           \* per node, the step its discovery thread is at
  unseen,           \* the links its iteration over the heartbeats has yet to see
  inserted,         \* whether a heartbeat was inserted since the iteration began
  inactive,         \* inactive_peers, as links
  dropping,         \* the links that left the registry and still have a heartbeat
  raced             \* ghost: the links registered while they were being dropped

records == <<peer_registry, peer_heartbeats, age, raced>>
delivery == <<in_flight, handling>>
check == <<thread, unseen, inserted, inactive, dropping>>
vars == <<peer_registry, peer_heartbeats, age, raced, in_flight, handling, thread,
          unseen, inserted, inactive, dropping>>

Steps == {"sleep", "scan", "drop", "forget", "dead"}

AllLinks == {l \in Zones \X Zones : l[1] # l[2]}

\* The links of node z.
Of(z) == {l \in Links : l[1] = z}

\* Faulty variant of PresenceTargets: the live peers only.
PresenceTargets_Live(p) == {z \in Zones : <<p, z>> \in peer_registry}

\* presence_targets: live peers and the roster, which names every other zone.
PresenceTargets(p) ==
  (Zones \ {p}) \cup {z \in Zones : <<p, z>> \in peer_registry}

\* Faulty variant of Expired: ages end at the bound.
Expired_Never(l) == age[l] > Limit + 1

\* The heartbeat is older than the timeout.
Expired(l) == age[l] > Limit

\* Faulty variant of Forgotten: the heartbeat stays.
Forgotten_Kept(l) == peer_heartbeats

\* The heartbeats without that of a peer that was dropped.
Forgotten(l) == peer_heartbeats \ {l}

\* An age is not counted further once it is beyond the timeout.
Older(l) == IF age[l] > Limit THEN age[l] ELSE age[l] + 1

-----------------------------------------------------------------------------
\* _setup_inter_node_communication: everybody registers everybody.
Init ==
  /\ peer_registry = AllLinks /\ peer_heartbeats = AllLinks
  /\ age = [l \in Links |-> 0]
  /\ raced = {}
  /\ in_flight = {} /\ handling = {}
  /\ thread = [z \in Zones |-> "sleep"]
  /\ unseen = {} /\ inserted = {} /\ inactive = {} /\ dropping = {}

\* Time passes for node z.  An iteration over the heartbeats compares them with the
\* time it began at, and takes no time to speak of: no tick falls into it.
Tick(z) ==
  /\ thread[z] # "scan"
  /\ age' = [l \in Links |-> IF l[1] = z THEN Older(l) ELSE age[l]]
  /\ age' # age
  /\ UNCHANGED <<peer_registry, peer_heartbeats, raced, delivery, check>>

\* gossip_to_peers: the state of node p goes out.  That of a busy node may not for
\* longer than the timeout: the operation loop sleeps while its trucks drive.
Publish(p) ==
  /\ in_flight' = in_flight \cup {l \in Links : l[2] = p /\ l[1] \in PresenceTargets(p)}
  /\ UNCHANGED <<records, handling, check>>

\* _handle_zone_state: register_peer enters the peer into the registry ...
Receive(l) ==
  /\ handling = {}
  /\ l \in in_flight
  /\ in_flight' = in_flight \ {l} /\ handling' = {l}
  /\ peer_registry' = peer_registry \cup {l}
  /\ raced' = IF l \in dropping THEN raced \cup {l} ELSE raced \ {l}
  /\ UNCHANGED <<peer_heartbeats, age, check>>

\* ... and then writes its heartbeat.
Beat(l) ==
  /\ l \in handling
  /\ handling' = {}
  /\ peer_heartbeats' = peer_heartbeats \cup {l}
  /\ age' = [age EXCEPT ![l] = 0]
  /\ inserted' = IF l \in peer_heartbeats THEN inserted ELSE inserted \cup {l}
  /\ UNCHANGED <<peer_registry, raced, in_flight, thread, unseen, inactive, dropping>>

-----------------------------------------------------------------------------
(***************************************************************************)
(* The discovery thread of node z: check_peer_health every five seconds.   *)
(***************************************************************************)
Goto(z, step) == thread' = [thread EXCEPT ![z] = step]

Wake(z) ==
  /\ thread[z] = "sleep"
  /\ Of(z) # {}
  /\ unseen' = unseen \cup (Of(z) \cap peer_heartbeats)
  /\ inserted' = inserted \ Of(z)
  /\ Goto(z, "scan")
  /\ UNCHANGED <<records, delivery, inactive, dropping>>

Examine(z) ==
  /\ thread[z] = "scan" /\ inserted \cap Of(z) = {}
  /\ \E l \in unseen \cap Of(z) :
       /\ unseen' = unseen \ {l}
       /\ inactive' = IF Expired(l) THEN inactive \cup {l} ELSE inactive
  /\ UNCHANGED <<records, delivery, thread, inserted, dropping>>

Examined(z) ==
  /\ thread[z] = "scan" /\ inserted \cap Of(z) = {}
  /\ unseen \cap Of(z) = {}
  /\ Goto(z, "drop")
  /\ UNCHANGED <<records, delivery, unseen, inserted, inactive, dropping>>

\* The iteration finds that the dictionary has grown: the exception ends the thread.
IterationFails(z) ==
  /\ thread[z] = "scan" /\ inserted \cap Of(z) # {}
  /\ unseen' = unseen \ Of(z) /\ inactive' = inactive \ Of(z)
  /\ Goto(z, "dead")
  /\ UNCHANGED <<records, delivery, inserted, dropping>>

\* An inactive peer leaves the registry ...
Drop(z) ==
  /\ thread[z] = "drop"
  /\ inactive \cap Of(z) \cap peer_registry # {}
  /\ \E l \in inactive \cap Of(z) \cap peer_registry :
       /\ peer_registry' = peer_registry \ {l}
       /\ dropping' = dropping \cup {l}
       /\ raced' = IF l \in handling THEN raced \cup {l} ELSE raced
  /\ Goto(z, "forget")
  /\ UNCHANGED <<peer_heartbeats, age, delivery, unseen, inserted, inactive>>

\* ... if it is there: otherwise the exception ends the thread.
DropFails(z) ==
  /\ thread[z] = "drop"
  /\ (inactive \cap Of(z)) \ peer_registry # {}
  /\ inactive' = inactive \ Of(z)
  /\ Goto(z, "dead")
  /\ UNCHANGED <<records, delivery, unseen, inserted, dropping>>

\* ... and its heartbeat is deleted.
Forget(z) ==
  /\ thread[z] = "forget"
  /\ \E l \in dropping \cap Of(z) :
       /\ peer_heartbeats' = Forgotten(l)
       /\ inactive' = inactive \ {l}
       /\ dropping' = dropping \ {l}
  /\ Goto(z, "drop")
  /\ UNCHANGED <<peer_registry, age, raced, delivery, unseen, inserted>>

Sleep(z) ==
  /\ thread[z] = "drop" /\ inactive \cap Of(z) = {}
  /\ Goto(z, "sleep")
  /\ UNCHANGED <<records, delivery, unseen, inserted, inactive, dropping>>

Discovery(z) ==
  \/ Wake(z) \/ Examine(z) \/ Examined(z) \/ IterationFails(z)
  \/ Drop(z) \/ DropFails(z) \/ Forget(z) \/ Sleep(z)

Deliver(l) == Receive(l) \/ Beat(l)

Next ==
  \/ \E z \in Zones : Tick(z)
  \/ \E p \in Zones : Publish(p)
  \/ \E l \in Links : Deliver(l)
  \/ \E z \in Zones : Discovery(z)

Spec == Init /\ [][Next]_vars

\* Time passes, the delivery thread goes through all queues, the discovery threads
\* run.  Whether a node publishes is up to its operation loop.
FairSpec ==
  /\ Spec
  /\ \A l \in Links : WF_vars(Beat(l)) /\ SF_vars(Receive(l))
  /\ \A z \in Zones : WF_vars(Discovery(z)) /\ SF_vars(Tick(z))

-----------------------------------------------------------------------------
TypeOK ==
  /\ peer_registry \subseteq AllLinks /\ peer_heartbeats \subseteq AllLinks
  /\ age \in [Links -> 0 .. Limit + 1]
  /\ raced \subseteq Links /\ in_flight \subseteq Links /\ handling \subseteq Links
  /\ thread \in [Zones -> Steps]
  /\ unseen \subseteq Links /\ inserted \subseteq Links
  /\ inactive \subseteq Links /\ dropping \subseteq inactive

\* Being registered or dropped right now.
InHand(l) == l \in handling \cup dropping

\* A peer is registered exactly if it has a heartbeat, except while it is being
\* registered or dropped and after both happened at once: only then can a check fail
\* on a peer missing from the registry, or a silent peer stay registered for want of
\* a heartbeat (register_peer, check_peer_health).
RecordsAgree ==
  \A l \in Links :
    (~InHand(l) /\ l \notin raced) => (l \in peer_registry <=> l \in peer_heartbeats)

\* A node that goes on publishing is registered again and again at every peer, even
\* after both have lost one another (presence_targets).
Rediscovered ==
  \A l \in Links :
    WF_vars(Publish(l[2])) => []<>(l \in peer_registry)

\* A peer that has fallen silent is dropped in the end, unless the discovery thread
\* has ended or the peer lost its heartbeat to a race (check_peer_health).
SilentIsLost ==
  \A l \in Links :
    <>[](l \notin in_flight)
      => <>[](l \notin peer_registry \/ l \notin peer_heartbeats \/ thread[l[1]] = "dead")
=============================================================================
