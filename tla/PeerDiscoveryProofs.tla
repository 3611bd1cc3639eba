------------------------ MODULE PeerDiscoveryProofs ------------------------
(***************************************************************************)
(* Proofs about PeerDiscovery, for any number of fog nodes and any         *)
(* timeout.                                                                *)
(***************************************************************************)
EXTENDS PeerDiscovery, TLAPS

\* A discovery thread drops one peer at a time, the delivery thread registers one.
OneAtATime ==
  /\ \A z \in Zones :
       /\ thread[z] # "forget" => dropping \cap Of(z) = {}
       /\ \A l, k \in dropping \cap Of(z) : l = k
  /\ \A l, k \in handling : l = k

\* Unless the two threads met at a link, one that is being registered is in the
\* registry already, and one that is being dropped is out of it.
HalfDone ==
  \A l \in Links :
    /\ (l \in handling /\ l \notin raced) => l \in peer_registry
    /\ (l \in dropping /\ l \notin raced) => l \notin peer_registry /\ l \notin handling

Inv == TypeOK /\ OneAtATime /\ HalfDone /\ RecordsAgree

-----------------------------------------------------------------------------
LEMMA LinksTyped ==
  /\ Links \subseteq AllLinks
  /\ \A z : Of(z) \subseteq Links
  /\ \A l \in Links : l[1] \in Zones /\ l \in Of(l[1])
  /\ \A z, y : z # y => Of(z) \cap Of(y) = {}
  BY PeersAssumption DEF AllLinks, Of

LEMMA InvInit == Init => Inv
<1> SUFFICES ASSUME Init PROVE Inv
  OBVIOUS
<1>1. TypeOK
  BY LinksTyped, PeersAssumption DEF Init, TypeOK, Steps
<1>2. OneAtATime /\ HalfDone
  BY DEF Init, OneAtATime, HalfDone
<1>3. RecordsAgree
  BY LinksTyped DEF Init, RecordsAgree
<1> QED BY <1>1, <1>2, <1>3 DEF Inv

LEMMA InvTick ==
  ASSUME Inv, NEW z \in Zones, Tick(z)
  PROVE  Inv'
<1>1. \A l \in Links : Older(l) \in 0 .. Limit + 1
  BY PeersAssumption DEF Inv, TypeOK, Older
<1>2. age' \in [Links -> 0 .. Limit + 1]
  BY <1>1 DEF Inv, TypeOK, Tick
<1> QED BY <1>2 DEF Inv, TypeOK, OneAtATime, HalfDone, RecordsAgree, InHand, Tick,
       delivery, check

LEMMA InvPublish ==
  ASSUME Inv, NEW p \in Zones, Publish(p)
  PROVE  Inv'
  BY DEF Inv, TypeOK, OneAtATime, HalfDone, RecordsAgree, InHand, Publish, records, check

LEMMA InvReceive ==
  ASSUME Inv, NEW l \in Links, Receive(l)
  PROVE  Inv'
<1>1. TypeOK'
  BY LinksTyped DEF Inv, TypeOK, Receive, check
<1>2. OneAtATime'
  BY DEF Inv, OneAtATime, Receive, check
<1>3. HalfDone'
  BY DEF Inv, HalfDone, Receive, check
<1>4. RecordsAgree'
  BY DEF Inv, RecordsAgree, InHand, Receive, check
<1> QED BY <1>1, <1>2, <1>3, <1>4 DEF Inv

LEMMA InvBeat ==
  ASSUME Inv, NEW l \in Links, Beat(l)
  PROVE  Inv'
<1>1. TypeOK'
  <2>1. 0 \in 0 .. Limit + 1
    BY PeersAssumption
  <2> QED BY <2>1, LinksTyped DEF Inv, TypeOK, Beat
<1>2. OneAtATime'
  BY DEF Inv, OneAtATime, Beat
<1>3. HalfDone'
  BY DEF Inv, HalfDone, Beat
<1>4. RecordsAgree'
  BY DEF Inv, OneAtATime, HalfDone, RecordsAgree, InHand, Beat
<1> QED BY <1>1, <1>2, <1>3, <1>4 DEF Inv

LEMMA InvScan ==
  ASSUME Inv, NEW z \in Zones, Wake(z) \/ Examine(z) \/ Examined(z) \/ Sleep(z)
  PROVE  Inv'
<1> USE LinksTyped
<1>1. CASE Wake(z)
  BY <1>1 DEF Inv, TypeOK, OneAtATime, HalfDone, RecordsAgree, InHand, Wake, Goto, Steps,
     records, delivery
<1>2. CASE Examine(z)
  BY <1>2 DEF Inv, TypeOK, OneAtATime, HalfDone, RecordsAgree, InHand, Examine, records,
     delivery
<1>3. CASE Examined(z)
  BY <1>3 DEF Inv, TypeOK, OneAtATime, HalfDone, RecordsAgree, InHand, Examined, Goto,
     Steps, records, delivery
<1>4. CASE Sleep(z)
  BY <1>4 DEF Inv, TypeOK, OneAtATime, HalfDone, RecordsAgree, InHand, Sleep, Goto,
     Steps, records, delivery
<1> QED BY <1>1, <1>2, <1>3, <1>4

LEMMA InvFails ==
  ASSUME Inv, NEW z \in Zones, IterationFails(z) \/ DropFails(z)
  PROVE  Inv'
<1>1. dropping \cap Of(z) = {} /\ dropping \subseteq inactive
  BY DEF Inv, TypeOK, OneAtATime, IterationFails, DropFails
<1>2. dropping \subseteq inactive \ Of(z)
  BY <1>1
<1> QED BY <1>2, LinksTyped DEF Inv, TypeOK, OneAtATime, HalfDone, RecordsAgree, InHand,
       IterationFails, DropFails, Goto, Steps, records, delivery

LEMMA InvDrop ==
  ASSUME Inv, NEW z \in Zones, Drop(z)
  PROVE  Inv'
<1>1. PICK l \in inactive \cap Of(z) \cap peer_registry :
        /\ peer_registry' = peer_registry \ {l}
        /\ dropping' = dropping \cup {l}
        /\ raced' = IF l \in handling THEN raced \cup {l} ELSE raced
  BY DEF Drop
<1>2. TypeOK'
  BY <1>1, LinksTyped DEF Inv, TypeOK, Drop, Goto, Steps, delivery
<1>3. OneAtATime'
  <2>1. dropping \cap Of(z) = {} /\ thread'[z] = "forget"
    BY DEF Inv, TypeOK, OneAtATime, Drop, Goto
  <2>2. \A y \in Zones : y # z => /\ thread'[y] = thread[y]
                                  /\ dropping' \cap Of(y) = dropping \cap Of(y)
    BY <1>1, LinksTyped DEF Inv, TypeOK, Drop, Goto
  <2>3. \A i, j \in dropping' \cap Of(z) : i = j
    BY <1>1, <2>1
  <2> QED BY <2>1, <2>2, <2>3 DEF Inv, OneAtATime, Drop, delivery
<1>4. HalfDone'
  BY <1>1 DEF Inv, HalfDone, Drop, delivery
<1>5. RecordsAgree'
  BY <1>1 DEF Inv, RecordsAgree, InHand, Drop, delivery
<1> QED BY <1>2, <1>3, <1>4, <1>5 DEF Inv

LEMMA InvForget ==
  ASSUME Inv, NEW z \in Zones, Forget(z)
  PROVE  Inv'
<1>1. PICK l \in dropping \cap Of(z) :
        /\ peer_heartbeats' = peer_heartbeats \ {l}
        /\ inactive' = inactive \ {l}
        /\ dropping' = dropping \ {l}
  BY DEF Forget, Forgotten
<1>2. TypeOK'
  BY <1>1, LinksTyped DEF Inv, TypeOK, Forget, Goto, Steps, delivery
<1>3. OneAtATime'
  <2>1. dropping' \cap Of(z) = {}
    BY <1>1 DEF Inv, OneAtATime
  <2>2. \A y \in Zones : y # z => thread'[y] = thread[y] /\ dropping' \subseteq dropping
    BY <1>1 DEF Inv, TypeOK, Forget, Goto
  <2> QED BY <2>1, <2>2 DEF Inv, OneAtATime, Forget, delivery
<1>4. HalfDone'
  BY <1>1 DEF Inv, HalfDone, Forget, delivery
<1>5. RecordsAgree'
  BY <1>1 DEF Inv, HalfDone, RecordsAgree, InHand, Forget, delivery
<1> QED BY <1>2, <1>3, <1>4, <1>5 DEF Inv

LEMMA InvStep == Inv /\ [Next]_vars => Inv'
<1> SUFFICES ASSUME Inv, [Next]_vars PROVE Inv'
  OBVIOUS
<1>1. CASE UNCHANGED vars
  BY <1>1 DEF Inv, TypeOK, OneAtATime, HalfDone, RecordsAgree, InHand, vars
<1>2. CASE Next
  BY <1>2, InvTick, InvPublish, InvReceive, InvBeat, InvScan, InvFails, InvDrop,
     InvForget DEF Next, Deliver, Discovery
<1> QED BY <1>1, <1>2

-----------------------------------------------------------------------------
\* Every variable keeps its type (PeerDiscovery, MessageRouter).
THEOREM PeersTyped == Spec => []TypeOK
<1>1. Inv => TypeOK
  BY DEF Inv
<1> QED BY InvInit, InvStep, <1>1, PTL DEF Spec

\* For any number of nodes, the registry and the heartbeats of a node name the same
\* peers, but for peers its two threads have in hand or had at once (register_peer,
\* check_peer_health).
THEOREM RegistryMatches == Spec => []RecordsAgree
<1>1. Inv => RecordsAgree
  BY DEF Inv
<1> QED BY InvInit, InvStep, <1>1, PTL DEF Spec

-----------------------------------------------------------------------------
(***************************************************************************)
(* When a check can fail, and whom it can drop.                            *)
(***************************************************************************)

\* What a check still has to examine or to drop has a heartbeat; only a check under way
\* has something to examine.
Beating ==
  /\ unseen \cup inactive \subseteq peer_heartbeats
  /\ \A z \in Zones : thread[z] # "scan" => unseen \cap Of(z) = {}

LEMMA BeatingInit == Init => Beating
  BY DEF Init, Beating

\* A discovery step of one node leaves the links of the others alone.
LEMMA BeatingStep == Inv /\ Beating /\ [Next]_vars => Beating'
<1> SUFFICES ASSUME Inv, Beating, [Next]_vars PROVE Beating'
  OBVIOUS
<1> USE LinksTyped
<1>1. ASSUME NEW z \in Zones, Tick(z) PROVE Beating'
  BY <1>1 DEF Beating, Tick, check
<1>2. ASSUME NEW p \in Zones, Publish(p) PROVE Beating'
  BY <1>2 DEF Beating, Publish, records, check
<1>3. ASSUME NEW l \in Links, Deliver(l) PROVE Beating'
  BY <1>3 DEF Beating, Deliver, Receive, Beat, check
<1>4. ASSUME NEW z \in Zones, Wake(z) PROVE Beating'
  <2>1. \A y \in Zones : thread'[y] # "scan" =>
          y # z /\ thread'[y] = thread[y] /\ unseen' \cap Of(y) = unseen \cap Of(y)
    BY <1>4 DEF Inv, TypeOK, Wake, Goto
  <2> QED BY <1>4, <2>1 DEF Beating, Wake, records
<1>5. ASSUME NEW z \in Zones, Examine(z) PROVE Beating'
  BY <1>5 DEF Beating, Examine, records
<1>6. ASSUME NEW z \in Zones, Examined(z) PROVE Beating'
  BY <1>6 DEF Inv, TypeOK, Beating, Examined, Goto, records
<1>7. ASSUME NEW z \in Zones, IterationFails(z) PROVE Beating'
  BY <1>7 DEF Inv, TypeOK, Beating, IterationFails, Goto, records
<1>8. ASSUME NEW z \in Zones, Drop(z) \/ DropFails(z) \/ Sleep(z) PROVE Beating'
  BY <1>8 DEF Inv, TypeOK, Beating, Drop, DropFails, Sleep, Goto, records
<1>9. ASSUME NEW z \in Zones, Forget(z) PROVE Beating'
  <2>1. PICK l \in dropping \cap Of(z) :
          /\ peer_heartbeats' = peer_heartbeats \ {l}
          /\ inactive' = inactive \ {l}
    BY <1>9 DEF Forget, Forgotten
  <2>2. thread[z] = "forget" /\ unseen' = unseen /\ l \notin unseen
    BY <1>9, <2>1 DEF Beating, Forget
  <2>3. unseen' \cup inactive' \subseteq peer_heartbeats'
    BY <2>1, <2>2 DEF Beating
  <2>4. \A y \in Zones : thread'[y] # "scan" => thread[y] # "scan"
    BY <1>9, <2>2 DEF Inv, TypeOK, Forget, Goto
  <2> QED BY <2>2, <2>3, <2>4 DEF Beating
<1>10. CASE UNCHANGED vars
  BY <1>10 DEF Beating, vars
<1> QED BY <1>1, <1>2, <1>3, <1>4, <1>5, <1>6, <1>7, <1>8, <1>9, <1>10
        DEF Next, Discovery

\* A peer that has left the registry still has the heartbeat that is deleted next: the
\* second deletion never fails, only the first can (check_peer_health).
THEOREM HeartbeatIsThere == Spec => [](dropping \subseteq peer_heartbeats)
<1>1. Inv /\ Beating => dropping \subseteq peer_heartbeats
  BY DEF Inv, TypeOK, Beating
<1> QED BY InvInit, InvStep, BeatingInit, BeatingStep, <1>1, PTL DEF Spec

\* The first deletion fails only on a peer whose state the delivery thread was
\* registering while it was dropped: without such a meeting no discovery thread ends
\* there (register_peer, check_peer_health).
THEOREM DropFailsAfterRace ==
  Spec => [][\A z \in Zones : DropFails(z) => inactive \cap Of(z) \cap raced # {}]_vars
<1>1. ASSUME Inv, Beating, NEW z \in Zones, DropFails(z)
      PROVE  inactive \cap Of(z) \cap raced # {}
  <2>1. PICK l \in inactive \cap Of(z) : l \notin peer_registry
    BY <1>1 DEF DropFails
  <2>2. l \in Links /\ l \in peer_heartbeats
    BY <1>1, LinksTyped DEF Inv, TypeOK, Beating
  <2>3. l \notin dropping
    BY <1>1 DEF Inv, OneAtATime, DropFails
  <2>4. l \in raced
    BY <1>1, <2>1, <2>2, <2>3 DEF Inv, HalfDone, RecordsAgree, InHand
  <2> QED BY <2>4
<1>2. Inv /\ Beating /\ [Next]_vars
        => [\A z \in Zones : DropFails(z) => inactive \cap Of(z) \cap raced # {}]_vars
  BY <1>1
<1> QED BY InvInit, InvStep, BeatingInit, BeatingStep, <1>2, PTL DEF Spec

\* A peer whose heartbeat is never older than the timeout stays registered, whatever
\* becomes of the others and of the threads that look after them (check_peer_health).
THEOREM PunctualIsKept ==
  ASSUME NEW l \in Links
  PROVE  Spec /\ []~Expired(l) => [](l \in peer_registry)
<1> DEFINE Safe == l \in peer_registry /\ l \notin inactive
<1>1. Init => Safe
  BY LinksTyped DEF Init
<1>2. Inv /\ Safe /\ ~Expired(l) /\ [Next]_vars => Safe'
  <2> SUFFICES ASSUME Inv, Safe, ~Expired(l), [Next]_vars PROVE Safe'
    OBVIOUS
  <2>1. ASSUME NEW z \in Zones, Discovery(z) PROVE Safe'
    BY <2>1 DEF Discovery, Wake, Examine, Examined, IterationFails, Drop, DropFails,
       Forget, Sleep, records
  <2>2. ASSUME NEW k \in Links, Deliver(k) PROVE Safe'
    BY <2>2 DEF Deliver, Receive, Beat, check
  <2>3. ASSUME NEW z \in Zones, Tick(z) \/ Publish(z) PROVE Safe'
    BY <2>3 DEF Tick, Publish, records, check
  <2>4. CASE UNCHANGED vars
    BY <2>4 DEF vars
  <2> QED BY <2>1, <2>2, <2>3, <2>4 DEF Next
<1>3. Safe => l \in peer_registry
  OBVIOUS
<1> HIDE DEF Safe
<1> QED BY <1>1, <1>2, <1>3, InvInit, InvStep, PTL DEF Spec
============================================================================
