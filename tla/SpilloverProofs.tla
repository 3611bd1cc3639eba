-------------------------- MODULE SpilloverProofs --------------------------
(***************************************************************************)
(* Proofs about Spillover, for any number of zones and bins, and of the    *)
(* simulator's delivery thread as one of its orders of delivery.           *)
(*                                                                         *)
(* The theorem the module is about is OwnershipSafe: apart from the ends   *)
(* of a transfer whose answer is under way, a bin has at most one owner.   *)
(* It is not inductive.  IInv adds what the transfer protocol maintains:   *)
(* a zone asks one peer at a time and only about bins it owns, and the     *)
(* queues hold exactly one message for each pending request.               *)
(***************************************************************************)
EXTENDS DeliveryThread, FiniteSetTheorems, TLAPS

-----------------------------------------------------------------------------
(***************************************************************************)
(* What taking a message off a queue and adding messages to it does to the *)
(* operators the properties are stated with.                               *)
(***************************************************************************)

\* The elements of a concatenation.
LEMMA ConcatElements ==
  ASSUME NEW q \in Seq(Message), NEW e \in Seq(Message)
  PROVE  /\ q \o e \in Seq(Message)
         /\ \A i \in DOMAIN q : i \in DOMAIN (q \o e) /\ (q \o e)[i] = q[i]
         /\ \A i \in DOMAIN e : /\ Len(q) + i \in DOMAIN (q \o e)
                                /\ (q \o e)[Len(q) + i] = e[i]
         /\ \A k \in DOMAIN (q \o e) :
              k \in DOMAIN q \/ k - Len(q) \in DOMAIN e
         /\ \A k \in DOMAIN (q \o e) :
              k \notin DOMAIN q => (q \o e)[k] = e[k - Len(q)]
  OBVIOUS

\* The elements of a tail.
LEMMA TailElements ==
  ASSUME NEW q \in Seq(Message), q # <<>>
  PROVE  /\ Tail(q) \in Seq(Message)
         /\ 1 \in DOMAIN q /\ Head(q) = q[1] /\ Head(q) \in Message
         /\ \A i \in DOMAIN Tail(q) : i + 1 \in DOMAIN q /\ Tail(q)[i] = q[i + 1]
         /\ \A k \in DOMAIN q : k # 1 => k - 1 \in DOMAIN Tail(q)
  OBVIOUS

\* A message is in a concatenation when it is in one of the parts.
LEMMA HasConcat ==
  ASSUME NEW q \in Seq(Message), NEW e \in Seq(Message), NEW kind, NEW to
  PROVE  Has(q \o e, kind, to) <=> Has(q, kind, to) \/ Has(e, kind, to)
<1>1. ASSUME Has(q \o e, kind, to) PROVE Has(q, kind, to) \/ Has(e, kind, to)
  <2>1. PICK k \in DOMAIN (q \o e) : Is((q \o e)[k], kind, to)
    BY <1>1 DEF Has
  <2>2. CASE k \in DOMAIN q
    <3>1. (q \o e)[k] = q[k]
      BY <2>2, ConcatElements
    <3> QED BY <2>1, <2>2, <3>1 DEF Has
  <2>3. CASE k \notin DOMAIN q
    <3>1. k - Len(q) \in DOMAIN e /\ (q \o e)[k] = e[k - Len(q)]
      BY <2>3, ConcatElements
    <3> QED BY <2>1, <3>1 DEF Has
  <2> QED BY <2>2, <2>3
<1>2. ASSUME Has(q, kind, to) PROVE Has(q \o e, kind, to)
  <2>1. PICK i \in DOMAIN q : Is(q[i], kind, to)
    BY <1>2 DEF Has
  <2>2. i \in DOMAIN (q \o e) /\ (q \o e)[i] = q[i]
    BY ConcatElements
  <2> QED BY <2>1, <2>2 DEF Has
<1>3. ASSUME Has(e, kind, to) PROVE Has(q \o e, kind, to)
  <2>1. PICK i \in DOMAIN e : Is(e[i], kind, to)
    BY <1>3 DEF Has
  <2>2. Len(q) + i \in DOMAIN (q \o e) /\ (q \o e)[Len(q) + i] = e[i]
    BY ConcatElements
  <2> QED BY <2>1, <2>2 DEF Has
<1> QED BY <1>1, <1>2, <1>3

\* No message is duplicated by a concatenation of parts that share none.
LEMMA OnceConcat ==
  ASSUME NEW q \in Seq(Message), NEW e \in Seq(Message), NEW kind, NEW to,
         Once(q, kind, to), Once(e, kind, to),
         ~(Has(q, kind, to) /\ Has(e, kind, to))
  PROVE  Once(q \o e, kind, to)
<1> SUFFICES ASSUME NEW i \in DOMAIN (q \o e), NEW j \in DOMAIN (q \o e),
                    Is((q \o e)[i], kind, to), Is((q \o e)[j], kind, to)
             PROVE  i = j
  BY DEF Once
<1>1. CASE i \in DOMAIN q /\ j \in DOMAIN q
  BY <1>1, ConcatElements DEF Once
<1>2. CASE i \notin DOMAIN q /\ j \notin DOMAIN q
  <2>1. i - Len(q) \in DOMAIN e /\ j - Len(q) \in DOMAIN e
    BY <1>2, ConcatElements
  <2>2. i - Len(q) = j - Len(q)
    BY <1>2, <2>1, ConcatElements DEF Once
  <2> QED BY <2>2
<1>3. CASE i \in DOMAIN q /\ j \notin DOMAIN q
  BY <1>3, ConcatElements DEF Has
<1>4. CASE i \notin DOMAIN q /\ j \in DOMAIN q
  BY <1>4, ConcatElements DEF Has
<1> QED BY <1>1, <1>2, <1>3, <1>4

\* The messages of a concatenation name S when those of the parts do.
LEMMA AllNameConcat ==
  ASSUME NEW q \in Seq(Message), NEW e \in Seq(Message), NEW kind, NEW to,
         NEW S, AllName(q, kind, to, S), AllName(e, kind, to, S)
  PROVE  AllName(q \o e, kind, to, S)
  BY ConcatElements DEF AllName

\* An accepting answer is in a concatenation when it is in one of the parts.
LEMMA GrantsConcat ==
  ASSUME NEW q \in Seq(Message), NEW e \in Seq(Message), NEW z, NEW b
  PROVE  Grants(q \o e, z, b) <=> Grants(q, z, b) \/ Grants(e, z, b)
<1>1. ASSUME Grants(q \o e, z, b) PROVE Grants(q, z, b) \/ Grants(e, z, b)
  <2>1. PICK k \in DOMAIN (q \o e) : Gives((q \o e)[k], z, b)
    BY <1>1 DEF Grants
  <2>2. CASE k \in DOMAIN q
    <3>1. (q \o e)[k] = q[k]
      BY <2>2, ConcatElements
    <3> QED BY <2>1, <2>2, <3>1 DEF Grants
  <2>3. CASE k \notin DOMAIN q
    <3>1. k - Len(q) \in DOMAIN e /\ (q \o e)[k] = e[k - Len(q)]
      BY <2>3, ConcatElements
    <3> QED BY <2>1, <3>1 DEF Grants
  <2> QED BY <2>2, <2>3
<1>2. ASSUME Grants(q, z, b) PROVE Grants(q \o e, z, b)
  <2>1. PICK i \in DOMAIN q : Gives(q[i], z, b)
    BY <1>2 DEF Grants
  <2>2. i \in DOMAIN (q \o e) /\ (q \o e)[i] = q[i]
    BY ConcatElements
  <2> QED BY <2>1, <2>2 DEF Grants
<1>3. ASSUME Grants(e, z, b) PROVE Grants(q \o e, z, b)
  <2>1. PICK i \in DOMAIN e : Gives(e[i], z, b)
    BY <1>3 DEF Grants
  <2>2. Len(q) + i \in DOMAIN (q \o e) /\ (q \o e)[Len(q) + i] = e[i]
    BY ConcatElements
  <2> QED BY <2>1, <2>2 DEF Grants
<1> QED BY <1>1, <1>2, <1>3

\* What is in a queue is at its head or in its tail.
LEMMA HasTail ==
  ASSUME NEW q \in Seq(Message), q # <<>>, NEW kind, NEW to
  PROVE  Has(q, kind, to) <=> Is(Head(q), kind, to) \/ Has(Tail(q), kind, to)
  BY TailElements DEF Has

\* A message that is in a queue once is gone when it is taken off.
LEMMA OnceTail ==
  ASSUME NEW q \in Seq(Message), q # <<>>, NEW kind, NEW to, Once(q, kind, to)
  PROVE  /\ Once(Tail(q), kind, to)
         /\ Is(Head(q), kind, to) => ~Has(Tail(q), kind, to)
<1>1. Once(Tail(q), kind, to)
  BY TailElements DEF Once
<1>2. Is(Head(q), kind, to) => ~Has(Tail(q), kind, to)
  BY TailElements DEF Once, Has
<1> QED BY <1>1, <1>2

\* Head and tail of a queue name what its messages name.
LEMMA AllNameTail ==
  ASSUME NEW q \in Seq(Message), q # <<>>, NEW kind, NEW to, NEW S,
         AllName(q, kind, to, S)
  PROVE  /\ AllName(Tail(q), kind, to, S)
         /\ Is(Head(q), kind, to) => Names(Head(q), S)
  BY TailElements DEF AllName

\* An accepting answer in a queue is its head or is in its tail.
LEMMA GrantsTail ==
  ASSUME NEW q \in Seq(Message), q # <<>>, NEW z, NEW b
  PROVE  Grants(q, z, b) <=> Gives(Head(q), z, b) \/ Grants(Tail(q), z, b)
  BY TailElements DEF Grants

\* The operators on a queue of one message.
LEMMA Singleton ==
  ASSUME NEW m \in Message, NEW kind, NEW to, NEW S, NEW b
  PROVE  /\ <<m>> \in Seq(Message)
         /\ Has(<<m>>, kind, to) <=> Is(m, kind, to)
         /\ Once(<<m>>, kind, to)
         /\ AllName(<<m>>, kind, to, S) <=> (Is(m, kind, to) => Names(m, S))
         /\ Grants(<<m>>, to, b) <=> Gives(m, to, b)
  BY DEF Has, Once, AllName, Grants

\* The operators on an empty queue.
LEMMA Empty ==
  ASSUME NEW kind, NEW to, NEW S, NEW b
  PROVE  /\ <<>> \in Seq(Message)
         /\ ~Has(<<>>, kind, to)
         /\ Once(<<>>, kind, to)
         /\ AllName(<<>>, kind, to, S)
         /\ ~Grants(<<>>, to, b)
  BY DEF Has, Once, AllName, Grants

-----------------------------------------------------------------------------
(***************************************************************************)
(* Type correctness.                                                       *)
(***************************************************************************)

\* The messages the handlers send have the type of messages.
LEMMA MessageTypes ==
  /\ \A to \in SUBSET Zones, n \in Nat : State(to, n) \in Message
  /\ \A t \in Zones, S \in SUBSET Bins : Request(t, S) \in Message
  /\ \A z \in Zones, ok \in BOOLEAN, S \in SUBSET Bins :
       Response(z, ok, S) \in Message
  BY DEF State, Request, Response, Message, StateMsg, RequestMsg, ResponseMsg

\* An answer is a queue of one message.
LEMMA AnswerType ==
  ASSUME NEW z \in Zones, NEW t, NEW S \in SUBSET Bins
  PROVE  /\ <<Acceptance(z, t, S)>> \in Seq(Message)
         /\ <<Response(z, FALSE, {})>> \in Seq(Message)
<1>1. Response(z, TRUE, S) \in Message /\ Response(z, FALSE, {}) \in Message
  BY MessageTypes
<1>2. \A m \in Message : <<m>> \in Seq(Message)
  OBVIOUS
<1> QED BY <1>1, <1>2 DEF Acceptance

\* The load of a list of bins is a natural number.
LEMMA LoadType ==
  ASSUME NEW L \in SUBSET Bins
  PROVE  Cardinality(L) \in Nat
  BY HomeAssumption, FS_Subset, FS_CardinalityType

\* Messages the protocol does not look at.
Neutral(e) ==
  /\ \A kind, to, S : kind # "state" =>
       /\ ~Has(e, kind, to) /\ Once(e, kind, to) /\ AllName(e, kind, to, S)
  /\ \A y, b : ~Grants(e, y, b)

\* gossip_to_peers enqueues at most one publication, of the load given.
LEMMA NewsType ==
  ASSUME NEW z \in Zones, NEW G \in GossipTargets(z), NEW n \in Nat
  PROVE  News(z, G, n) \in Seq(Message) /\ Neutral(News(z, G, n))
<1> DEFINE fresh == {p \in G : ~AlreadyTold(z, p, n)}
<1>1. fresh \in SUBSET Zones
  BY DEF GossipTargets, Peers
<1>2. State(fresh, n) \in Message /\ State(fresh, n).kind = "state"
  BY <1>1, MessageTypes DEF State
<1>3. News(z, G, n) = <<>> \/ News(z, G, n) = <<State(fresh, n)>>
  BY DEF News
<1>4. CASE News(z, G, n) = <<>>
  BY <1>4, Empty DEF Neutral
<1>5. CASE News(z, G, n) = <<State(fresh, n)>>
  <2>1. News(z, G, n) \in Seq(Message)
    BY <1>2, <1>5
  <2>2. ASSUME NEW kind, NEW to, NEW S, kind # "state"
        PROVE  /\ ~Has(News(z, G, n), kind, to)
               /\ Once(News(z, G, n), kind, to)
               /\ AllName(News(z, G, n), kind, to, S)
    BY <1>2, <1>5, <2>2, Singleton DEF Is
  <2>3. ASSUME NEW y, NEW b PROVE ~Grants(News(z, G, n), y, b)
    BY <1>2, <1>5 DEF Grants, Gives, Is
  <2> QED BY <2>1, <2>2, <2>3 DEF Neutral
<1> QED BY <1>3, <1>4, <1>5

\* What Publish leaves is typed when what it is given is.
LEMMA PublishType ==
  ASSUME TypeOK,
         NEW z \in Zones, NEW L \in SUBSET Bins,
         NEW Q \in [Zones -> Seq(Message)],
         NEW request \in Seq(Message), NEW reply \in Seq(Message),
         Publish(z, L, Q, request, reply)
  PROVE  /\ overflowing_bins' \in [Zones -> SUBSET Bins]
         /\ current_state' \in [Zones -> Loads]
         /\ message_queue' \in [Zones -> Seq(Message)]
<1>1. overflowing_bins' \in [Zones -> SUBSET Bins]
  BY DEF Publish, TypeOK
<1>2. current_state' \in [Zones -> Loads]
  BY LoadType DEF Publish, TypeOK, Loads
<1>3. PICK G \in GossipTargets(z) :
        message_queue' = [Q EXCEPT ![z] =
          ((@ \o News(z, G, Cardinality(L))) \o request) \o reply]
  BY DEF Publish
<1>4. News(z, G, Cardinality(L)) \in Seq(Message)
  BY LoadType, NewsType
<1>5. ((Q[z] \o News(z, G, Cardinality(L))) \o request) \o reply \in Seq(Message)
  BY <1>4, ConcatElements
<1>6. message_queue' \in [Zones -> Seq(Message)]
  BY <1>3, <1>5
<1> QED BY <1>1, <1>2, <1>6

\* ... and so is what update_state leaves.
LEMMA UpdateStateType ==
  ASSUME TypeOK,
         NEW z \in Zones, NEW L \in SUBSET Bins,
         NEW Q \in [Zones -> Seq(Message)], NEW reply \in Seq(Message),
         UpdateState(z, L, Q, reply)
  PROVE  /\ overflowing_bins' \in [Zones -> SUBSET Bins]
         /\ current_state' \in [Zones -> Loads]
         /\ message_queue' \in [Zones -> Seq(Message)]
         /\ pending_spillovers' \in [Zones -> [Zones -> SUBSET Bins]]
         /\ attempted_peers' \in [Zones -> SUBSET Zones]
<1>1. CASE NoSpillover(z, L, Q, reply)
  <2>1. Publish(z, L, Q, <<>>, reply) /\ UNCHANGED pending_spillovers
    BY <1>1 DEF NoSpillover
  <2>2. attempted_peers' \in [Zones -> SUBSET Zones]
    BY <1>1 DEF NoSpillover, AttemptedAfter, TypeOK
  <2> QED BY <2>1, <2>2, PublishType, Empty DEF TypeOK
<1>2. CASE InitiateSpillover(z, L, Q, reply)
  <2>1. PICK t \in LeastLoaded(z) :
          \E S \in Selections(L, Amount(z, t, Cardinality(L))) :
            /\ pending_spillovers' = [pending_spillovers EXCEPT ![z][t] = S]
            /\ attempted_peers' = [attempted_peers EXCEPT ![z] = @ \cup {t}]
            /\ Publish(z, L, Q, <<Request(t, S)>>, reply)
    BY <1>2 DEF InitiateSpillover
  <2>2. PICK S \in Selections(L, Amount(z, t, Cardinality(L))) :
          /\ pending_spillovers' = [pending_spillovers EXCEPT ![z][t] = S]
          /\ attempted_peers' = [attempted_peers EXCEPT ![z] = @ \cup {t}]
          /\ Publish(z, L, Q, <<Request(t, S)>>, reply)
    BY <2>1
  <2>3. t \in Zones /\ S \in SUBSET Bins
    BY DEF LeastLoaded, Candidates, Peers, Selections
  <2>4. <<Request(t, S)>> \in Seq(Message)
    BY <2>3, MessageTypes
  <2>5. /\ pending_spillovers' \in [Zones -> [Zones -> SUBSET Bins]]
        /\ attempted_peers' \in [Zones -> SUBSET Zones]
    BY <2>2, <2>3 DEF TypeOK
  <2> QED BY <2>2, <2>4, <2>5, PublishType
<1> QED BY <1>1, <1>2 DEF UpdateState

\* The message at the head of a queue, by its kind.
LEMMA HeadType ==
  ASSUME TypeOK, NEW z \in Zones, NEW kind, Waiting(z, kind)
  PROVE  /\ message_queue[z] \in Seq(Message) /\ message_queue[z] # <<>>
         /\ Head(message_queue[z]).kind = kind
         /\ kind = "state" => Head(message_queue[z]) \in StateMsg
         /\ kind = "request" => Head(message_queue[z]) \in RequestMsg
         /\ kind = "response" => Head(message_queue[z]) \in ResponseMsg
         /\ Popped(z) \in [Zones -> Seq(Message)]
<1>1. message_queue[z] \in Seq(Message) /\ message_queue[z] # <<>>
  BY DEF TypeOK, Waiting
<1>2. Head(message_queue[z]) \in Message /\ Head(message_queue[z]).kind = kind
  BY <1>1, TailElements DEF Waiting
<1>3. Popped(z) \in [Zones -> Seq(Message)]
  BY <1>1, TailElements DEF Popped, TypeOK
<1> QED
  BY <1>1, <1>2, <1>3 DEF Message, StateMsg, RequestMsg, ResponseMsg

\* Every action keeps the types.
LEMMA TypeStep == TypeOK /\ [Next]_vars => TypeOK'
<1> SUFFICES ASSUME TypeOK, [Next]_vars PROVE TypeOK'
  OBVIOUS
<1>1. ASSUME NEW b \in Bins, Overflow(b) PROVE TypeOK'
  <2> DEFINE z == zone_id[b]
             L == (overflowing \cup {b}) \cap zone_bins[z]
  <2>1. z \in Zones /\ L \in SUBSET Bins
    BY DEF TypeOK
  <2>2. UpdateState(z, L, message_queue, <<>>)
    BY <1>1 DEF Overflow
  <2>3. message_queue \in [Zones -> Seq(Message)] /\ <<>> \in Seq(Message)
    BY DEF TypeOK
  <2>4. /\ overflowing_bins' \in [Zones -> SUBSET Bins]
        /\ current_state' \in [Zones -> Loads]
        /\ message_queue' \in [Zones -> Seq(Message)]
        /\ pending_spillovers' \in [Zones -> [Zones -> SUBSET Bins]]
        /\ attempted_peers' \in [Zones -> SUBSET Zones]
    BY <2>1, <2>2, <2>3, UpdateStateType
  <2>5. /\ overflowing' \in SUBSET Bins
        /\ active_route' \in [Zones -> SUBSET Bins]
        /\ plan_current' \in [Zones -> BOOLEAN]
    BY <1>1, <2>1 DEF Overflow, TypeOK
  <2> QED BY <1>1, <2>4, <2>5 DEF Overflow, TypeOK
<1>2. ASSUME NEW b \in Bins, EmptyBin(b) PROVE TypeOK'
  BY <1>2 DEF EmptyBin, TypeOK, routeVars, spillVars
<1>3. ASSUME NEW z \in Zones, Dispatch(z) PROVE TypeOK'
  BY <1>3 DEF Dispatch, ToService, TypeOK, Phases, nodeVars, spillVars
<1>4. ASSUME NEW z \in Zones, NothingToPlan(z) PROVE TypeOK'
  BY <1>4 DEF NothingToPlan, TypeOK, Phases, nodeVars, spillVars
<1>5. ASSUME NEW z \in Zones, ExecuteRoute(z) PROVE TypeOK'
  <2>1. Unlisted(z) \in SUBSET Bins /\ <<>> \in Seq(Message)
    BY DEF Unlisted, TypeOK
  <2>2. /\ overflowing_bins' \in [Zones -> SUBSET Bins]
        /\ current_state' \in [Zones -> Loads]
        /\ message_queue' \in [Zones -> Seq(Message)]
        /\ pending_spillovers' \in [Zones -> [Zones -> SUBSET Bins]]
        /\ attempted_peers' \in [Zones -> SUBSET Zones]
    BY <1>5, <2>1, UpdateStateType DEF ExecuteRoute, TypeOK
  <2> QED BY <1>5, <2>2 DEF ExecuteRoute, TypeOK, Phases
<1>6. ASSUME NEW z \in Zones, UpdateZoneState(z) PROVE TypeOK'
  <2>1. /\ overflowing_bins' \in [Zones -> SUBSET Bins]
        /\ current_state' \in [Zones -> Loads]
        /\ message_queue' \in [Zones -> Seq(Message)]
        /\ pending_spillovers' \in [Zones -> [Zones -> SUBSET Bins]]
        /\ attempted_peers' \in [Zones -> SUBSET Zones]
    BY <1>6, UpdateStateType, Empty DEF UpdateZoneState, TypeOK
  <2> QED BY <1>6, <2>1 DEF UpdateZoneState, TypeOK, Phases, nodeVars
<1>7. ASSUME NEW z \in Zones, ReceiveState(z) PROVE TypeOK'
  <2>1. Popped(z) \in [Zones -> Seq(Message)]
    BY <1>7, HeadType DEF ReceiveState
  <2>2. Head(message_queue[z]).load \in Loads
    BY <1>7, HeadType DEF ReceiveState, StateMsg, Loads
  <2>3. peer_states' \in [Zones -> [Zones -> Loads]]
    BY <1>7, <2>2 DEF ReceiveState, Learned, TypeOK
  <2> QED
    BY <1>7, <2>1, <2>3
    DEF ReceiveState, TypeOK, nodeVars, routeVars, spillVars
<1>8. ASSUME NEW z \in Zones, AdoptRequest(z) PROVE TypeOK'
  <2> DEFINE m == Head(message_queue[z])
             mine == zone_bins[m.to] \cup Adopted(m.to, m.bins)
  <2>1. m.to \in Zones /\ m.bins \in SUBSET Bins /\ Popped(z) \in [Zones -> Seq(Message)]
    BY <1>8, HeadType DEF AdoptRequest, RequestMsg
  <2>2. mine \in SUBSET Bins
    BY <2>1 DEF Adopted, TypeOK
  <2>3. <<Acceptance(z, m.to, m.bins)>> \in Seq(Message)
    BY <2>1, AnswerType
  <2>4. UpdateState(m.to, overflowing \cap mine, Popped(z),
                    <<Acceptance(z, m.to, m.bins)>>)
    BY <1>8 DEF AdoptRequest
  <2>5. /\ overflowing_bins' \in [Zones -> SUBSET Bins]
        /\ current_state' \in [Zones -> Loads]
        /\ message_queue' \in [Zones -> Seq(Message)]
        /\ pending_spillovers' \in [Zones -> [Zones -> SUBSET Bins]]
        /\ attempted_peers' \in [Zones -> SUBSET Zones]
    BY <2>1, <2>2, <2>3, <2>4, UpdateStateType
  <2>6. /\ zone_bins' \in [Zones -> SUBSET Bins]
        /\ zone_id' \in [Bins -> Zones]
    BY <1>8, <2>1, <2>2 DEF AdoptRequest, TypeOK
  <2> QED BY <1>8, <2>5, <2>6 DEF AdoptRequest, TypeOK, routeVars
<1>9. ASSUME NEW z \in Zones, AcceptOwned(z) \/ RejectRequest(z) PROVE TypeOK'
  <2> DEFINE m == Head(message_queue[z])
  <2>1. m.to \in Zones /\ m.bins \in SUBSET Bins /\ Popped(z) \in [Zones -> Seq(Message)]
    BY <1>9, HeadType DEF AcceptOwned, RejectRequest, RequestMsg
  <2>2. /\ <<Acceptance(z, m.to, m.bins)>> \in Seq(Message)
        /\ <<Response(z, FALSE, {})>> \in Seq(Message)
    BY <2>1, AnswerType
  <2>3. /\ Popped(z)[m.to] \o <<Acceptance(z, m.to, m.bins)>> \in Seq(Message)
        /\ Popped(z)[m.to] \o <<Response(z, FALSE, {})>> \in Seq(Message)
    BY <2>1, <2>2, ConcatElements
  <2>4. message_queue' \in [Zones -> Seq(Message)]
    BY <1>9, <2>1, <2>3 DEF AcceptOwned, RejectRequest
  <2> QED
    BY <1>9, <2>4
    DEF AcceptOwned, RejectRequest, TypeOK, nodeVars, routeVars, spillVars
<1>10. ASSUME NEW t \in Zones, ReceiveAccept(t) PROVE TypeOK'
  <2> DEFINE m == Head(message_queue[t])
             z == m.to
  <2>1. z \in Zones /\ m.bins \in SUBSET Bins /\ Popped(t) \in [Zones -> Seq(Message)]
    BY <1>10, HeadType DEF ReceiveAccept, ResponseMsg
  <2>2. overflowing_bins[z] \ m.bins \in SUBSET Bins
    BY <2>1 DEF TypeOK
  <2>3. Publish(z, overflowing_bins[z] \ m.bins, Popped(t), <<>>, <<>>)
    BY <1>10 DEF ReceiveAccept
  <2>4. /\ overflowing_bins' \in [Zones -> SUBSET Bins]
        /\ current_state' \in [Zones -> Loads]
        /\ message_queue' \in [Zones -> Seq(Message)]
    BY <2>1, <2>2, <2>3, PublishType, Empty
  <2>5. /\ zone_bins' \in [Zones -> SUBSET Bins]
        /\ active_route' \in [Zones -> SUBSET Bins]
        /\ truck' \in [Zones -> SUBSET Bins]
        /\ plan_current' \in [Zones -> BOOLEAN]
    BY <1>10, <2>1
    DEF ReceiveAccept, Released, RouteReleased, TruckReleased, TypeOK
  <2>6. /\ pending_spillovers' \in [Zones -> [Zones -> SUBSET Bins]]
        /\ attempted_peers' \in [Zones -> SUBSET Zones]
    BY <1>10, <2>1 DEF ReceiveAccept, Resolved, TypeOK
  <2> QED BY <1>10, <2>4, <2>5, <2>6 DEF ReceiveAccept, TypeOK
<1>11. ASSUME NEW t \in Zones, ReceiveReject(t) PROVE TypeOK'
  <2> DEFINE z == Head(message_queue[t]).to
  <2>1. z \in Zones /\ Popped(t) \in [Zones -> Seq(Message)]
    BY <1>11, HeadType DEF ReceiveReject, ResponseMsg
  <2>2. pending_spillovers' \in [Zones -> [Zones -> SUBSET Bins]]
    BY <1>11, <2>1 DEF ReceiveReject, Resolved, TypeOK
  <2> QED
    BY <1>11, <2>1, <2>2 DEF ReceiveReject, TypeOK, nodeVars, routeVars
<1>12. CASE UNCHANGED vars
  BY <1>12 DEF TypeOK, vars, nodeVars, routeVars, spillVars
<1> QED
  BY <1>1, <1>2, <1>3, <1>4, <1>5, <1>6, <1>7, <1>8, <1>9, <1>10, <1>11,
     <1>12, BoundsAssumption
  DEF Next, Deliver, OperationLoop, Environment

\* Every variable of every node keeps its type, whatever is delivered when.
THEOREM TypeCorrect == Spec => []TypeOK
<1>1. Init => TypeOK
  BY HomeAssumption DEF Init, TypeOK, Loads, Phases, Unknown
<1> QED BY <1>1, TypeStep, PTL DEF Spec

-----------------------------------------------------------------------------
(***************************************************************************)
(* The transfer protocol.  A handler takes a message off one queue, adds   *)
(* some to another and changes the pending requests, and in between the    *)
(* message it works on is in no queue.  Match is AnswersMatch for queues Q *)
(* and pending requests P while the messages between the pairs in H are in *)
(* a handler's hand.                                                       *)
(***************************************************************************)
Match(Q, P, H) ==
  \A z, t \in Zones :
    /\ (P[z][t] # {} /\ <<z, t>> \notin H)
         <=> Has(Q[z], "request", t) \/ Has(Q[t], "response", z)
    /\ ~(Has(Q[z], "request", t) /\ Has(Q[t], "response", z))
    /\ Once(Q[z], "request", t) /\ Once(Q[t], "response", z)
    /\ AllName(Q[z], "request", t, P[z][t])
    /\ AllName(Q[t], "response", z, P[z][t])

\* AnswersMatch is Match with empty hands.
LEMMA MatchMeans ==
  AnswersMatch <=> Match(message_queue, pending_spillovers, {})
  BY DEF AnswersMatch, Match

Queues == [Zones -> Seq(Message)]
Requests == [Zones -> [Zones -> SUBSET Bins]]

Add(Q, z, e) == [Q EXCEPT ![z] = @ \o e]
Drop(Q, z) == [Q EXCEPT ![z] = Tail(@)]

\* Enqueuing and dequeuing give queues again.
LEMMA QueuesType ==
  ASSUME NEW Q \in Queues, NEW z \in Zones, NEW e \in Seq(Message)
  PROVE  /\ Add(Q, z, e) \in Queues
         /\ Add(Q, z, e)[z] = Q[z] \o e
         /\ Drop(Q, z)[z] = Tail(Q[z])
         /\ Q[z] # <<>> => Drop(Q, z) \in Queues
         /\ \A y \in Zones \ {z} : Add(Q, z, e)[y] = Q[y] /\ Drop(Q, z)[y] = Q[y]
<1>1. Q[z] \in Seq(Message)
  BY DEF Queues
<1>2. Q[z] \o e \in Seq(Message)
  BY <1>1, ConcatElements
<1>3. Q[z] # <<>> => Tail(Q[z]) \in Seq(Message)
  BY <1>1, TailElements
<1> QED BY <1>1, <1>2, <1>3 DEF Queues, Add, Drop

\* Publications do not concern the protocol.
LEMMA MatchNews ==
  ASSUME NEW Q \in Queues, NEW P \in Requests, NEW H, Match(Q, P, H),
         NEW z \in Zones, NEW e \in Seq(Message), Neutral(e)
  PROVE  Match(Add(Q, z, e), P, H)
<1> DEFINE N == Add(Q, z, e)
<1>1. ASSUME NEW y \in Zones, NEW kind, NEW to, NEW S, kind # "state"
      PROVE  /\ Has(N[y], kind, to) <=> Has(Q[y], kind, to)
             /\ Once(Q[y], kind, to) => Once(N[y], kind, to)
             /\ AllName(Q[y], kind, to, S) => AllName(N[y], kind, to, S)
  <2>1. CASE y # z
    BY <2>1, QueuesType
  <2>2. CASE y = z
    <3>1. N[y] = Q[y] \o e /\ Q[y] \in Seq(Message)
      BY <2>2, QueuesType DEF Queues
    <3> HIDE DEF N
    <3> QED BY <1>1, <3>1, HasConcat, OnceConcat, AllNameConcat DEF Neutral
  <2> QED BY <2>1, <2>2
<1> HIDE DEF N
<1>2. Match(N, P, H)
  BY <1>1 DEF Match
<1> QED BY <1>2 DEF N

\* Taking a publication off a queue does not concern the protocol either.
LEMMA MatchDropState ==
  ASSUME NEW Q \in Queues, NEW P \in Requests, NEW H, Match(Q, P, H),
         NEW z \in Zones, Q[z] # <<>>, Head(Q[z]).kind = "state"
  PROVE  Match(Drop(Q, z), P, H)
<1> DEFINE N == Drop(Q, z)
<1>1. ASSUME NEW y \in Zones, NEW kind, NEW to, NEW S, kind # "state"
      PROVE  /\ Has(N[y], kind, to) <=> Has(Q[y], kind, to)
             /\ Once(Q[y], kind, to) => Once(N[y], kind, to)
             /\ AllName(Q[y], kind, to, S) => AllName(N[y], kind, to, S)
  <2>1. CASE y # z
    BY <2>1, QueuesType, Empty
  <2>2. CASE y = z
    <3>1. N[y] = Tail(Q[y]) /\ Q[y] \in Seq(Message) /\ Q[y] # <<>>
      BY <2>2, QueuesType, Empty DEF Queues
    <3>2. ~Is(Head(Q[y]), kind, to)
      BY <1>1, <2>2 DEF Is
    <3> HIDE DEF N
    <3> QED BY <3>1, <3>2, HasTail, OnceTail, AllNameTail
  <2> QED BY <2>1, <2>2
<1> HIDE DEF N
<1>2. Match(N, P, H)
  BY <1>1 DEF Match
<1> QED BY <1>2 DEF N

\* What dropping the head of z's queue does to the messages of a pair.
LEMMA DropMessages ==
  ASSUME NEW Q \in Queues, NEW z \in Zones, Q[z] # <<>>,
         NEW y \in Zones, NEW kind, NEW to, NEW S,
         Once(Q[y], kind, to), AllName(Q[y], kind, to, S)
  PROVE  /\ Once(Drop(Q, z)[y], kind, to)
         /\ AllName(Drop(Q, z)[y], kind, to, S)
         /\ IF y = z /\ Is(Head(Q[z]), kind, to)
              THEN /\ Has(Q[y], kind, to) /\ ~Has(Drop(Q, z)[y], kind, to)
                   /\ Names(Head(Q[z]), S)
              ELSE Has(Drop(Q, z)[y], kind, to) <=> Has(Q[y], kind, to)
<1>1. CASE y # z
  BY <1>1, QueuesType, Empty
<1>2. CASE y = z
  <2>1. Drop(Q, z)[y] = Tail(Q[y]) /\ Q[y] \in Seq(Message) /\ Q[y] # <<>>
    BY <1>2, QueuesType, Empty DEF Queues
  <2> QED BY <1>2, <2>1, HasTail, OnceTail, AllNameTail
<1> QED BY <1>1, <1>2

\* What adding a message to z's queue does to the messages of a pair.
LEMMA AddMessage ==
  ASSUME NEW Q \in Queues, NEW z \in Zones, NEW m \in Message,
         NEW y \in Zones, NEW kind, NEW to, NEW S,
         Once(Q[y], kind, to), AllName(Q[y], kind, to, S)
  PROVE  IF y = z /\ Is(m, kind, to)
           THEN /\ Has(Add(Q, z, <<m>>)[y], kind, to)
                /\ ~Has(Q[y], kind, to) => Once(Add(Q, z, <<m>>)[y], kind, to)
                /\ Names(m, S) => AllName(Add(Q, z, <<m>>)[y], kind, to, S)
           ELSE /\ Has(Add(Q, z, <<m>>)[y], kind, to) <=> Has(Q[y], kind, to)
                /\ Once(Add(Q, z, <<m>>)[y], kind, to)
                /\ AllName(Add(Q, z, <<m>>)[y], kind, to, S)
<1> DEFINE e == <<m>>
<1>1. /\ e \in Seq(Message)
      /\ Has(e, kind, to) <=> Is(m, kind, to)
      /\ Once(e, kind, to)
      /\ AllName(e, kind, to, S) <=> (Is(m, kind, to) => Names(m, S))
  BY Singleton
<1> HIDE DEF e
<1>2. CASE y # z
  <2>1. Add(Q, z, e)[y] = Q[y]
    BY <1>1, <1>2, QueuesType
  <2> QED BY <1>2, <2>1 DEF e
<1>3. CASE y = z
  <2>1. Add(Q, z, e)[y] = Q[y] \o e /\ Q[y] \in Seq(Message)
    BY <1>1, <1>3, QueuesType DEF Queues
  <2>2. Has(Add(Q, z, e)[y], kind, to) <=> Has(Q[y], kind, to) \/ Is(m, kind, to)
    BY <1>1, <2>1, HasConcat
  <2>3. ~Has(Q[y], kind, to) \/ ~Is(m, kind, to) => Once(Add(Q, z, e)[y], kind, to)
    BY <1>1, <2>1, OnceConcat
  <2>4. (Is(m, kind, to) => Names(m, S)) => AllName(Add(Q, z, e)[y], kind, to, S)
    BY <1>1, <2>1, AllNameConcat
  <2> QED BY <1>3, <2>2, <2>3, <2>4 DEF e
<1> QED BY <1>2, <1>3

\* A handler takes a request off the queue of its sender z.
LEMMA MatchDropRequest ==
  ASSUME NEW Q \in Queues, NEW P \in Requests, Match(Q, P, {}),
         NEW z \in Zones, NEW t \in Zones,
         Q[z] # <<>>, Is(Head(Q[z]), "request", t)
  PROVE  /\ Match(Drop(Q, z), P, {<<z, t>>})
         /\ P[z][t] # {} /\ Head(Q[z]).bins = P[z][t]
<1>1. ASSUME NEW y \in Zones, NEW u \in Zones
      PROVE  /\ Once(Drop(Q, z)[y], "request", u)
             /\ AllName(Drop(Q, z)[y], "request", u, P[y][u])
             /\ IF y = z /\ u = t
                  THEN /\ Has(Q[y], "request", u)
                       /\ ~Has(Drop(Q, z)[y], "request", u)
                       /\ Head(Q[z]).bins = P[y][u]
                  ELSE Has(Drop(Q, z)[y], "request", u) <=> Has(Q[y], "request", u)
  <2>1. Once(Q[y], "request", u) /\ AllName(Q[y], "request", u, P[y][u])
    BY DEF Match
  <2>2. Is(Head(Q[z]), "request", u) <=> u = t
    BY DEF Is
  <2>3. Names(Head(Q[z]), P[y][u]) => Head(Q[z]).bins = P[y][u]
    BY DEF Names, Is
  <2> QED BY <2>1, <2>2, <2>3, DropMessages
<1>2. ASSUME NEW y \in Zones, NEW u \in Zones
      PROVE  /\ Once(Drop(Q, z)[u], "response", y)
             /\ AllName(Drop(Q, z)[u], "response", y, P[y][u])
             /\ Has(Drop(Q, z)[u], "response", y) <=> Has(Q[u], "response", y)
  <2>1. Once(Q[u], "response", y) /\ AllName(Q[u], "response", y, P[y][u])
    BY DEF Match
  <2>2. ~Is(Head(Q[z]), "response", y)
    BY DEF Is
  <2> QED BY <2>1, <2>2, DropMessages
<1>3. \A y, u \in Zones : <<y, u>> \in {<<z, t>>} <=> y = z /\ u = t
  OBVIOUS
<1>4. Match(Drop(Q, z), P, {<<z, t>>})
  BY <1>1, <1>2, <1>3 DEF Match
<1> QED BY <1>1, <1>4 DEF Match

\* A handler takes the answer for z off the queue of its sender t.
LEMMA MatchDropResponse ==
  ASSUME NEW Q \in Queues, NEW P \in Requests, Match(Q, P, {}),
         NEW z \in Zones, NEW t \in Zones,
         Q[t] # <<>>, Is(Head(Q[t]), "response", z)
  PROVE  /\ Match(Drop(Q, t), P, {<<z, t>>})
         /\ P[z][t] # {} /\ (Head(Q[t]).accepted => Head(Q[t]).bins = P[z][t])
<1>1. ASSUME NEW y \in Zones, NEW u \in Zones
      PROVE  /\ Once(Drop(Q, t)[u], "response", y)
             /\ AllName(Drop(Q, t)[u], "response", y, P[y][u])
             /\ IF y = z /\ u = t
                  THEN /\ Has(Q[u], "response", y)
                       /\ ~Has(Drop(Q, t)[u], "response", y)
                       /\ Names(Head(Q[t]), P[y][u])
                  ELSE Has(Drop(Q, t)[u], "response", y) <=> Has(Q[u], "response", y)
  <2>1. Once(Q[u], "response", y) /\ AllName(Q[u], "response", y, P[y][u])
    BY DEF Match
  <2>2. Is(Head(Q[t]), "response", y) <=> y = z
    BY DEF Is
  <2> QED BY <2>1, <2>2, DropMessages
<1>2. ASSUME NEW y \in Zones, NEW u \in Zones
      PROVE  /\ Once(Drop(Q, t)[y], "request", u)
             /\ AllName(Drop(Q, t)[y], "request", u, P[y][u])
             /\ Has(Drop(Q, t)[y], "request", u) <=> Has(Q[y], "request", u)
  <2>1. Once(Q[y], "request", u) /\ AllName(Q[y], "request", u, P[y][u])
    BY DEF Match
  <2>2. ~Is(Head(Q[t]), "request", u)
    BY DEF Is
  <2> QED BY <2>1, <2>2, DropMessages
<1>3. \A y, u \in Zones : <<y, u>> \in {<<z, t>>} <=> y = z /\ u = t
  OBVIOUS
<1>4. Match(Drop(Q, t), P, {<<z, t>>})
  BY <1>1, <1>2, <1>3 DEF Match
<1>5. Names(Head(Q[t]), P[z][t])
  BY <1>1
<1> QED BY <1>1, <1>4, <1>5 DEF Match, Names

\* A handler answers the request it holds.
LEMMA MatchAnswer ==
  ASSUME NEW Q \in Queues, NEW P \in Requests,
         NEW z \in Zones, NEW t \in Zones, Match(Q, P, {<<z, t>>}),
         P[z][t] # {},
         NEW m \in Message, Is(m, "response", z), Names(m, P[z][t])
  PROVE  Match(Add(Q, t, <<m>>), P, {})
<1>1. ASSUME NEW y \in Zones, NEW u \in Zones
      PROVE  /\ Once(Add(Q, t, <<m>>)[u], "response", y)
             /\ AllName(Add(Q, t, <<m>>)[u], "response", y, P[y][u])
             /\ IF y = z /\ u = t
                  THEN Has(Add(Q, t, <<m>>)[u], "response", y)
                  ELSE Has(Add(Q, t, <<m>>)[u], "response", y)
                         <=> Has(Q[u], "response", y)
  <2>1. /\ Once(Q[u], "response", y) /\ AllName(Q[u], "response", y, P[y][u])
        /\ y = z /\ u = t => ~Has(Q[u], "response", y)
    BY DEF Match
  <2>2. Is(m, "response", y) <=> y = z
    BY DEF Is
  <2> QED BY <2>1, <2>2, AddMessage
<1>2. ASSUME NEW y \in Zones, NEW u \in Zones
      PROVE  /\ Once(Add(Q, t, <<m>>)[y], "request", u)
             /\ AllName(Add(Q, t, <<m>>)[y], "request", u, P[y][u])
             /\ Has(Add(Q, t, <<m>>)[y], "request", u) <=> Has(Q[y], "request", u)
  <2>1. Once(Q[y], "request", u) /\ AllName(Q[y], "request", u, P[y][u])
    BY DEF Match
  <2>2. ~Is(m, "request", u)
    BY DEF Is
  <2> QED BY <2>1, <2>2, AddMessage
<1>3. \A y, u \in Zones : /\ <<y, u>> \in {<<z, t>>} <=> y = z /\ u = t
                          /\ <<y, u>> \notin {}
  OBVIOUS
<1> QED BY <1>1, <1>2, <1>3 DEF Match

\* A zone sends a request to a peer it has no request pending with.
LEMMA MatchRequest ==
  ASSUME NEW Q \in Queues, NEW P \in Requests, NEW H, Match(Q, P, H),
         NEW z \in Zones, NEW t \in Zones,
         P[z][t] = {}, <<z, t>> \notin H,
         NEW S \in SUBSET Bins, S # {}
  PROVE  Match(Add(Q, z, <<Request(t, S)>>), [P EXCEPT ![z][t] = S], H)
<1> DEFINE m == Request(t, S)
           R == [P EXCEPT ![z][t] = S]
<1>0. m \in Message /\ \A u : Is(m, "request", u) <=> u = t
  BY MessageTypes DEF Is, Request
<1>1. ASSUME NEW y \in Zones, NEW u \in Zones
      PROVE  R[y][u] = IF y = z /\ u = t THEN S ELSE P[y][u]
  BY DEF Requests
<1>2. ASSUME NEW y \in Zones, NEW u \in Zones
      PROVE  /\ Once(Add(Q, z, <<m>>)[y], "request", u)
             /\ AllName(Add(Q, z, <<m>>)[y], "request", u, R[y][u])
             /\ IF y = z /\ u = t
                  THEN Has(Add(Q, z, <<m>>)[y], "request", u)
                  ELSE Has(Add(Q, z, <<m>>)[y], "request", u)
                         <=> Has(Q[y], "request", u)
  <2>1. /\ Once(Q[y], "request", u) /\ AllName(Q[y], "request", u, P[y][u])
        /\ y = z /\ u = t => ~Has(Q[y], "request", u)
    BY DEF Match
  <2>2. AllName(Q[y], "request", u, R[y][u])
    BY <1>1, <2>1 DEF AllName, Has
  <2>3. y = z /\ u = t => Names(m, R[y][u])
    BY <1>1 DEF Names, Request
  <2> QED BY <1>0, <2>1, <2>2, <2>3, AddMessage
<1>3. ASSUME NEW y \in Zones, NEW u \in Zones
      PROVE  /\ Once(Add(Q, z, <<m>>)[u], "response", y)
             /\ AllName(Add(Q, z, <<m>>)[u], "response", y, R[y][u])
             /\ Has(Add(Q, z, <<m>>)[u], "response", y) <=> Has(Q[u], "response", y)
  <2>1. /\ Once(Q[u], "response", y) /\ AllName(Q[u], "response", y, P[y][u])
        /\ y = z /\ u = t => ~Has(Q[u], "response", y)
    BY DEF Match
  <2>2. AllName(Q[u], "response", y, R[y][u])
    BY <1>1, <2>1 DEF AllName, Has
  <2>3. ~Is(m, "response", y)
    BY DEF Is, Request
  <2> QED BY <1>0, <2>1, <2>2, <2>3, AddMessage
<1>4. ~Has(Q[z], "request", t) /\ ~Has(Q[t], "response", z)
  BY DEF Match
<1> HIDE DEF m, R
<1>5. Match(Add(Q, z, <<m>>), R, H)
  BY <1>1, <1>2, <1>3, <1>4 DEF Match
<1> QED BY <1>5 DEF m, R

\* The request whose answer a handler holds is no longer pending.
LEMMA MatchResolve ==
  ASSUME NEW Q \in Queues, NEW P \in Requests,
         NEW z \in Zones, NEW t \in Zones, Match(Q, P, {<<z, t>>})
  PROVE  Match(Q, [P EXCEPT ![z][t] = {}], {})
<1> DEFINE R == [P EXCEPT ![z][t] = {}]
<1>1. ASSUME NEW y \in Zones, NEW u \in Zones
      PROVE  R[y][u] = IF y = z /\ u = t THEN {} ELSE P[y][u]
  BY DEF Requests
<1>2. \A y, u \in Zones : /\ <<y, u>> \in {<<z, t>>} <=> y = z /\ u = t
                          /\ <<y, u>> \notin {}
  OBVIOUS
<1>3. ~Has(Q[z], "request", t) /\ ~Has(Q[t], "response", z)
  BY <1>2 DEF Match
<1>4. AllName(Q[z], "request", t, {}) /\ AllName(Q[t], "response", z, {})
  BY <1>3 DEF AllName, Has
<1> HIDE DEF R
<1>5. Match(Q, R, {})
  BY <1>1, <1>2, <1>3, <1>4 DEF Match
<1> QED BY <1>5 DEF R

-----------------------------------------------------------------------------
(***************************************************************************)
(* Who is about to release what: Releasing for the queues Q.               *)
(***************************************************************************)
Granted(Q, z, b) == \E t \in Zones : Grants(Q[t], z, b)

\* Releasing is Granted in the queues of the system.
LEMMA GrantedMeans ==
  ASSUME NEW z, NEW b
  PROVE  Releasing(z, b) <=> Granted(message_queue, z, b)
  BY DEF Releasing, Granted

\* Adding messages grants what they grant.
LEMMA GrantedAdd ==
  ASSUME NEW Q \in Queues, NEW y \in Zones, NEW e \in Seq(Message),
         NEW z, NEW b
  PROVE  Granted(Add(Q, y, e), z, b) <=> Granted(Q, z, b) \/ Grants(e, z, b)
<1>1. Q[y] \in Seq(Message) /\ Add(Q, y, e)[y] = Q[y] \o e
  BY QueuesType DEF Queues
<1>2. Grants(Add(Q, y, e)[y], z, b) <=> Grants(Q[y], z, b) \/ Grants(e, z, b)
  BY <1>1, GrantsConcat
<1>3. \A t \in Zones \ {y} : Add(Q, y, e)[t] = Q[t]
  BY QueuesType
<1> QED BY <1>2, <1>3 DEF Granted

\* Dropping a message takes back at most what it grants.
LEMMA GrantedDrop ==
  ASSUME NEW Q \in Queues, NEW y \in Zones, Q[y] # <<>>, NEW z, NEW b
  PROVE  Granted(Q, z, b) <=> Gives(Head(Q[y]), z, b) \/ Granted(Drop(Q, y), z, b)
<1>1. Q[y] \in Seq(Message) /\ Drop(Q, y)[y] = Tail(Q[y])
  BY QueuesType, Empty DEF Queues
<1>2. Grants(Q[y], z, b) <=> Gives(Head(Q[y]), z, b) \/ Grants(Drop(Q, y)[y], z, b)
  BY <1>1, GrantsTail
<1>3. \A t \in Zones \ {y} : Drop(Q, y)[t] = Q[t]
  BY QueuesType, Empty
<1> QED BY <1>2, <1>3 DEF Granted

-----------------------------------------------------------------------------
(***************************************************************************)
(* What update_state does to the protocol, up to the handler's reply: the  *)
(* queues Q2 before the reply is added, and the pending requests after.    *)
(***************************************************************************)
Asked(z, L) ==
  \E t \in Zones : \E S \in SUBSET L :
    /\ t # z /\ S # {} /\ NoneOutstanding(z)
    /\ pending_spillovers' = [pending_spillovers EXCEPT ![z][t] = S]

\* Publishing adds news, the request and the reply.
LEMMA PublishEffect ==
  ASSUME TypeOK, NEW z \in Zones, NEW L \in SUBSET Bins, NEW Q \in Queues,
         NEW request \in Seq(Message), NEW reply \in Seq(Message),
         Publish(z, L, Q, request, reply)
  PROVE  \E news \in Seq(Message) :
           /\ Neutral(news)
           /\ message_queue' = Add(Add(Add(Q, z, news), z, request), z, reply)
<1>1. PICK G \in GossipTargets(z) :
        message_queue' = [Q EXCEPT ![z] =
          ((@ \o News(z, G, Cardinality(L))) \o request) \o reply]
  BY DEF Publish
<1> DEFINE news == News(z, G, Cardinality(L))
<1>2. news \in Seq(Message) /\ Neutral(news)
  BY LoadType, NewsType
<1> HIDE DEF news
<1>3. message_queue' = [Q EXCEPT ![z] = ((@ \o news) \o request) \o reply]
  BY <1>1 DEF news
<1>4. message_queue' = Add(Add(Add(Q, z, news), z, request), z, reply)
  BY <1>3 DEF Add, Queues
<1> QED BY <1>2, <1>4

\* update_state keeps the protocol, and grants nothing.
LEMMA UpdateEffect ==
  ASSUME TypeOK, NEW z \in Zones, NEW L \in SUBSET Bins, NEW Q \in Queues,
         NEW reply \in Seq(Message), UpdateState(z, L, Q, reply),
         NEW H, \A t : <<z, t>> \notin H, Match(Q, pending_spillovers, H)
  PROVE  /\ UNCHANGED pending_spillovers \/ Asked(z, L)
         /\ \E Q2 \in Queues :
              /\ message_queue' = Add(Q2, z, reply)
              /\ Match(Q2, pending_spillovers', H)
              /\ \A y, b : Granted(Q2, y, b) <=> Granted(Q, y, b)
<1>0. pending_spillovers \in Requests
  BY DEF TypeOK, Requests
<1>1. CASE NoSpillover(z, L, Q, reply)
  <2>1. Publish(z, L, Q, <<>>, reply) /\ UNCHANGED pending_spillovers
    BY <1>1 DEF NoSpillover
  <2>2. PICK news \in Seq(Message) :
          /\ Neutral(news)
          /\ message_queue' = Add(Add(Add(Q, z, news), z, <<>>), z, reply)
    BY <2>1, PublishEffect, Empty
  <2> DEFINE Q1 == Add(Q, z, news)
             Q2 == Add(Q1, z, <<>>)
  <2>3. Q1 \in Queues /\ Match(Q1, pending_spillovers, H)
    BY <1>0, <2>2, MatchNews, QueuesType
  <2>4. Q2 \in Queues /\ Match(Q2, pending_spillovers, H)
    BY <1>0, <2>3, MatchNews, QueuesType, Empty DEF Neutral
  <2>5. ASSUME NEW y, NEW b PROVE Granted(Q2, y, b) <=> Granted(Q, y, b)
    BY <2>2, <2>3, GrantedAdd, Empty DEF Neutral
  <2> HIDE DEF Q2
  <2>6. message_queue' = Add(Q2, z, reply)
    BY <2>2 DEF Q2
  <2> QED BY <2>1, <2>4, <2>5, <2>6
<1>2. CASE InitiateSpillover(z, L, Q, reply)
  <2>1. PICK t \in LeastLoaded(z) :
          \E S \in Selections(L, Amount(z, t, Cardinality(L))) :
            /\ pending_spillovers' = [pending_spillovers EXCEPT ![z][t] = S]
            /\ Publish(z, L, Q, <<Request(t, S)>>, reply)
    BY <1>2 DEF InitiateSpillover
  <2>2. PICK S \in Selections(L, Amount(z, t, Cardinality(L))) :
          /\ pending_spillovers' = [pending_spillovers EXCEPT ![z][t] = S]
          /\ Publish(z, L, Q, <<Request(t, S)>>, reply)
    BY <2>1
  <2>3. t \in Zones /\ t # z /\ S \in SUBSET L /\ S \in SUBSET Bins
    BY DEF LeastLoaded, Candidates, Peers, Selections
  <2>4. NoneOutstanding(z)
    BY <1>2 DEF InitiateSpillover, Initiates
  <2>5. S # {}
    <3>1. Amount(z, t, Cardinality(L)) > 0
      <4>1. PICK u \in LeastLoaded(z) : Amount(z, u, Cardinality(L)) > 0
        BY <1>2 DEF InitiateSpillover, Initiates
      <4>2. /\ t \in Candidates(z) /\ u \in Candidates(z)
            /\ peer_states[z][t] <= peer_states[z][u]
        BY DEF LeastLoaded
      <4>3. /\ peer_states[z][t] \in Int /\ peer_states[z][u] \in Int
            /\ Cardinality(L) \in Int /\ Threshold \in Int
        BY <4>2, LoadType, ThresholdAssumption
        DEF TypeOK, Loads, Candidates, Peers, Unknown
      <4> QED BY <4>1, <4>2, <4>3 DEF Amount, Least
    <3>2. Cardinality(S) = Amount(z, t, Cardinality(L))
      BY DEF Selections
    <3>3. S = {} => Cardinality(S) = 0
      BY FS_EmptySet
    <3> QED BY <3>1, <3>2, <3>3
  <2>6. PICK news \in Seq(Message) :
          /\ Neutral(news)
          /\ message_queue' = Add(Add(Add(Q, z, news), z, <<Request(t, S)>>), z, reply)
    <3>1. <<Request(t, S)>> \in Seq(Message)
      BY <2>3, MessageTypes, Singleton
    <3> QED BY <2>2, <3>1, PublishEffect
  <2> DEFINE asked == <<Request(t, S)>>
             Q1 == Add(Q, z, news)
             Q2 == Add(Q1, z, asked)
  <2>7. Q1 \in Queues /\ Match(Q1, pending_spillovers, H)
    BY <1>0, <2>6, MatchNews, QueuesType
  <2>8. asked \in Seq(Message) /\ \A y, b : ~Grants(asked, y, b)
    <3>1. Request(t, S) \in Message
      BY <2>3, MessageTypes
    <3>2. \A y, b : ~Gives(Request(t, S), y, b)
      BY DEF Gives, Is, Request
    <3> QED BY <3>1, <3>2, Singleton DEF Grants
  <2>9. Q2 \in Queues
    BY <2>7, <2>8, QueuesType
  <2>10. pending_spillovers[z][t] = {}
    BY <2>3, <2>4 DEF NoneOutstanding
  <2>11. Match(Q2, pending_spillovers', H)
    BY <1>0, <2>2, <2>3, <2>5, <2>7, <2>10, MatchRequest
  <2>12. ASSUME NEW y, NEW b PROVE Granted(Q2, y, b) <=> Granted(Q, y, b)
    <3>1. Granted(Q2, y, b) <=> Granted(Q1, y, b) \/ Grants(asked, y, b)
      BY <2>7, <2>8, GrantedAdd
    <3>2. Granted(Q1, y, b) <=> Granted(Q, y, b) \/ Grants(news, y, b)
      BY GrantedAdd
    <3> QED BY <2>6, <2>8, <3>1, <3>2 DEF Neutral
  <2>13. Asked(z, L)
    BY <2>2, <2>3, <2>4, <2>5 DEF Asked
  <2> HIDE DEF Q2
  <2>14. message_queue' = Add(Q2, z, reply)
    BY <2>6 DEF Q2
  <2> QED BY <2>9, <2>11, <2>12, <2>13, <2>14
<1> QED BY <1>1, <1>2 DEF UpdateState

-----------------------------------------------------------------------------
(***************************************************************************)
(* The inductive invariant.                                                *)
(***************************************************************************)
NoSelfRequest == \A z \in Zones : pending_spillovers[z][z] = {}

IInv ==
  /\ TypeOK
  /\ NoSelfRequest
  /\ OneOutstanding
  /\ OnlyOwnedBins
  /\ AnswersMatch
  /\ AtMostOneSettledOwner

\* A request update_state makes is for bins of the zone, and its only one.
LEMMA AskedKeeps ==
  ASSUME IInv, NEW z \in Zones, NEW L, L \subseteq zone_bins'[z],
         UNCHANGED pending_spillovers \/ Asked(z, L),
         \A y \in Zones : zone_bins[y] \subseteq zone_bins'[y]
  PROVE  /\ NoSelfRequest' /\ OneOutstanding'
         /\ \A y, t \in Zones : pending_spillovers'[y][t] \subseteq zone_bins'[y]
<1>1. CASE UNCHANGED pending_spillovers
  BY <1>1 DEF IInv, NoSelfRequest, OneOutstanding, OnlyOwnedBins
<1>2. CASE Asked(z, L)
  <2>1. PICK t \in Zones, S \in SUBSET L :
          /\ t # z /\ S # {} /\ NoneOutstanding(z)
          /\ pending_spillovers' = [pending_spillovers EXCEPT ![z][t] = S]
    BY <1>2 DEF Asked
  <2>2. ASSUME NEW y \in Zones, NEW u \in Zones
        PROVE  pending_spillovers'[y][u] =
                 IF y = z /\ u = t THEN S ELSE pending_spillovers[y][u]
    BY <2>1 DEF IInv, TypeOK
  <2>3. \A u \in Zones : pending_spillovers[z][u] = {}
    BY <2>1 DEF NoneOutstanding
  <2>4. NoSelfRequest'
    BY <2>1, <2>2 DEF IInv, NoSelfRequest
  <2>5. OneOutstanding'
    BY <2>2, <2>3 DEF IInv, OneOutstanding
  <2>6. ASSUME NEW y \in Zones, NEW u \in Zones
        PROVE  pending_spillovers'[y][u] \subseteq zone_bins'[y]
    BY <2>1, <2>2 DEF IInv, OnlyOwnedBins
  <2> QED BY <2>4, <2>5, <2>6
<1> QED BY <1>1, <1>2

\* Fewer settled owners keep a bin from having two.
LEMMA FewerOwners ==
  ASSUME AtMostOneSettledOwner,
         \A y \in Zones, b \in Bins :
           b \in zone_bins'[y] /\ ~Granted(message_queue', y, b) =>
             b \in zone_bins[y] /\ ~Granted(message_queue, y, b)
  PROVE  AtMostOneSettledOwner'
<1>1. \A b \in Bins : SettledOwners(b)' \subseteq SettledOwners(b)
  BY GrantedMeans DEF SettledOwners, Releasing, Granted
<1> QED BY <1>1 DEF AtMostOneSettledOwner

\* update_state as the end of a handler that delivers nothing and leaves the
\* ownership of bins alone.
LEMMA UpdateKeeps ==
  ASSUME IInv, TypeOK', NEW z \in Zones, NEW L \in SUBSET Bins,
         L \subseteq zone_bins[z],
         UpdateState(z, L, message_queue, <<>>),
         UNCHANGED zone_bins,
         \A y \in Zones : active_route'[y] \subseteq zone_bins[y]
  PROVE  IInv'
<1>1. message_queue \in Queues /\ Match(message_queue, pending_spillovers, {})
  BY MatchMeans DEF IInv, TypeOK, Queues
<1>2. /\ UNCHANGED pending_spillovers \/ Asked(z, L)
      /\ \E Q2 \in Queues :
           /\ message_queue' = Add(Q2, z, <<>>)
           /\ Match(Q2, pending_spillovers', {})
           /\ \A y, b : Granted(Q2, y, b) <=> Granted(message_queue, y, b)
  <2>1. TypeOK /\ <<>> \in Seq(Message) /\ \A t : <<z, t>> \notin {}
    BY DEF IInv
  <2> QED BY <1>1, <2>1, UpdateEffect
<1>3. PICK Q2 \in Queues :
        /\ message_queue' = Add(Q2, z, <<>>)
        /\ Match(Q2, pending_spillovers', {})
        /\ \A y, b : Granted(Q2, y, b) <=> Granted(message_queue, y, b)
  BY <1>2
<1>4. <<>> \in Seq(Message) /\ Neutral(<<>>)
  BY Empty DEF Neutral
<1>5. AnswersMatch'
  <2>1. pending_spillovers' \in Requests
    BY DEF TypeOK, Requests
  <2>2. Match(message_queue', pending_spillovers', {})
    BY <1>3, <1>4, <2>1, MatchNews
  <2> QED BY <2>2 DEF AnswersMatch, Match
<1>6. AtMostOneSettledOwner'
  <2>1. \A y, b : Granted(message_queue', y, b) <=> Granted(message_queue, y, b)
    BY <1>3, <1>4, GrantedAdd DEF Neutral
  <2> QED BY <2>1, FewerOwners DEF IInv
<1>7. /\ NoSelfRequest' /\ OneOutstanding'
      /\ \A y, t \in Zones : pending_spillovers'[y][t] \subseteq zone_bins'[y]
  BY <1>2, AskedKeeps
<1>8. \A y \in Zones : overflowing_bins'[y] \subseteq zone_bins[y]
  <2>1. overflowing_bins' = [overflowing_bins EXCEPT ![z] = L]
    BY DEF UpdateState, NoSpillover, InitiateSpillover, Publish
  <2> QED BY <2>1 DEF IInv, OnlyOwnedBins, TypeOK
<1>9. OnlyOwnedBins'
  BY <1>7, <1>8 DEF OnlyOwnedBins
<1> QED BY <1>5, <1>6, <1>7, <1>9 DEF IInv

\* A handler that only moves messages keeps what is said about the lists.
LEMMA MovesKeep ==
  ASSUME IInv, TypeOK',
         UNCHANGED <<zone_bins, overflowing_bins, active_route>>,
         pending_spillovers' = pending_spillovers
           \/ \E z, t \in Zones : pending_spillovers' = Resolved(z, t),
         Match(message_queue', pending_spillovers', {}),
         \A y, b : Granted(message_queue, y, b) => Granted(message_queue', y, b)
  PROVE  IInv'
<1>1. \A y, u \in Zones : \/ pending_spillovers'[y][u] = pending_spillovers[y][u]
                          \/ pending_spillovers'[y][u] = {}
  <2>1. CASE pending_spillovers' = pending_spillovers
    BY <2>1
  <2>2. CASE \E z, t \in Zones : pending_spillovers' = Resolved(z, t)
    <3>1. PICK z \in Zones, t \in Zones : pending_spillovers' = Resolved(z, t)
      BY <2>2
    <3> QED BY <3>1 DEF Resolved, IInv, TypeOK
  <2> QED BY <2>1, <2>2
<1>2. NoSelfRequest' /\ OneOutstanding' /\ OnlyOwnedBins'
  BY <1>1 DEF IInv, NoSelfRequest, OneOutstanding, OnlyOwnedBins
<1>3. AnswersMatch'
  BY DEF AnswersMatch, Match
<1>4. AtMostOneSettledOwner'
  BY FewerOwners DEF IInv
<1> QED BY <1>2, <1>3, <1>4 DEF IInv

\* The publications of a zone reach its peers.
LEMMA ReceiveStateKeeps ==
  ASSUME IInv, TypeOK', NEW z \in Zones, ReceiveState(z)
  PROVE  IInv'
<1>1. /\ message_queue \in Queues /\ pending_spillovers \in Requests
      /\ Match(message_queue, pending_spillovers, {})
  BY MatchMeans DEF IInv, TypeOK, Queues, Requests
<1>2. /\ message_queue[z] # <<>> /\ Head(message_queue[z]).kind = "state"
      /\ message_queue' = Drop(message_queue, z)
      /\ UNCHANGED <<zone_bins, overflowing_bins, active_route, pending_spillovers>>
  BY DEF ReceiveState, Waiting, Popped, Drop, nodeVars, routeVars, spillVars
<1>3. Match(message_queue', pending_spillovers', {})
  BY <1>1, <1>2, MatchDropState
<1>4. ASSUME NEW y, NEW b
      PROVE  Granted(message_queue', y, b) <=> Granted(message_queue, y, b)
  BY <1>1, <1>2, GrantedDrop DEF Gives, Is
<1> QED BY <1>2, <1>3, <1>4, MovesKeep

\* A rejection goes out.
LEMMA RejectRequestKeeps ==
  ASSUME IInv, TypeOK', NEW z \in Zones, RejectRequest(z)
  PROVE  IInv'
<1> DEFINE m == Head(message_queue[z])
           t == m.to
           Q1 == Drop(message_queue, z)
           answer == Response(z, FALSE, {})
<1>1. /\ message_queue \in Queues /\ pending_spillovers \in Requests
      /\ Match(message_queue, pending_spillovers, {})
  BY MatchMeans DEF IInv, TypeOK, Queues, Requests
<1>2. /\ message_queue[z] # <<>> /\ Is(m, "request", t) /\ t \in Zones
      /\ UNCHANGED <<zone_bins, overflowing_bins, active_route, pending_spillovers>>
  BY HeadType
  DEF RejectRequest, Waiting, Is, RequestMsg, nodeVars, routeVars, spillVars, IInv
<1>3. /\ answer \in Message /\ Is(answer, "response", z)
      /\ \A S : Names(answer, S)
      /\ \A y, b : ~Gives(answer, y, b)
  BY MessageTypes DEF Is, Names, Gives, Response
<1>4. /\ Match(Q1, pending_spillovers, {<<z, t>>}) /\ pending_spillovers[z][t] # {}
      /\ Q1 \in Queues
  BY <1>1, <1>2, MatchDropRequest, QueuesType, Empty
<1>5. message_queue' = Add(Q1, t, <<answer>>)
  BY DEF RejectRequest, Popped, Drop, Add
<1> HIDE DEF answer
<1>6. Match(message_queue', pending_spillovers', {})
  BY <1>1, <1>2, <1>3, <1>4, <1>5, MatchAnswer
<1>7. ASSUME NEW y, NEW b
      PROVE  Granted(message_queue', y, b) <=> Granted(message_queue, y, b)
  <2>1. Granted(message_queue, y, b) <=> Granted(Q1, y, b)
    BY <1>1, <1>2, GrantedDrop DEF Gives, Is
  <2>2. <<answer>> \in Seq(Message) /\ ~Grants(<<answer>>, y, b)
    BY <1>3, Singleton DEF Grants
  <2> QED BY <1>2, <1>4, <1>5, <2>1, <2>2, GrantedAdd
<1> QED BY <1>2, <1>6, <1>7, MovesKeep

\* A rejection arrives.
LEMMA ReceiveRejectKeeps ==
  ASSUME IInv, TypeOK', NEW t \in Zones, ReceiveReject(t)
  PROVE  IInv'
<1> DEFINE m == Head(message_queue[t])
           z == m.to
           Q1 == Drop(message_queue, t)
<1>1. /\ message_queue \in Queues /\ pending_spillovers \in Requests
      /\ Match(message_queue, pending_spillovers, {})
  BY MatchMeans DEF IInv, TypeOK, Queues, Requests
<1>2. /\ message_queue[t] # <<>> /\ Is(m, "response", z) /\ z \in Zones
      /\ ~m.accepted /\ message_queue' = Q1
      /\ pending_spillovers' = Resolved(z, t)
      /\ UNCHANGED <<zone_bins, overflowing_bins, active_route>>
  BY HeadType
  DEF ReceiveReject, Waiting, Is, ResponseMsg, Popped, Drop, nodeVars,
      routeVars, IInv
<1>3. Match(Q1, pending_spillovers, {<<z, t>>}) /\ Q1 \in Queues
  BY <1>1, <1>2, MatchDropResponse, QueuesType, Empty
<1>4. Match(message_queue', pending_spillovers', {})
  BY <1>1, <1>2, <1>3, MatchResolve DEF Resolved
<1>5. ASSUME NEW y, NEW b
      PROVE  Granted(message_queue', y, b) <=> Granted(message_queue, y, b)
  BY <1>1, <1>2, GrantedDrop DEF Gives
<1> QED BY <1>2, <1>4, <1>5, MovesKeep

\* An acceptance goes out for bins the accepting zone owns already.
LEMMA AcceptOwnedKeeps ==
  ASSUME IInv, TypeOK', NEW z \in Zones, AcceptOwned(z)
  PROVE  IInv'
<1> DEFINE m == Head(message_queue[z])
           t == m.to
           Q1 == Drop(message_queue, z)
           answer == Acceptance(z, t, m.bins)
<1>1. /\ message_queue \in Queues /\ pending_spillovers \in Requests
      /\ Match(message_queue, pending_spillovers, {})
  BY MatchMeans DEF IInv, TypeOK, Queues, Requests
<1>2. /\ message_queue[z] # <<>> /\ Is(m, "request", t) /\ t \in Zones
      /\ m.bins \in SUBSET Bins
      /\ UNCHANGED <<zone_bins, overflowing_bins, active_route, pending_spillovers>>
  BY HeadType
  DEF AcceptOwned, Waiting, Is, RequestMsg, nodeVars, routeVars, spillVars, IInv
<1>3. answer \in Message /\ Is(answer, "response", z) /\ Names(answer, m.bins)
  BY <1>2, MessageTypes DEF Acceptance, Is, Names, Response
<1>4. /\ Match(Q1, pending_spillovers, {<<z, t>>}) /\ pending_spillovers[z][t] # {}
      /\ m.bins = pending_spillovers[z][t] /\ Q1 \in Queues
  BY <1>1, <1>2, MatchDropRequest, QueuesType, Empty
<1>5. message_queue' = Add(Q1, t, <<answer>>)
  BY DEF AcceptOwned, Popped, Drop, Add
<1> HIDE DEF answer
<1>6. Match(message_queue', pending_spillovers', {})
  BY <1>1, <1>2, <1>3, <1>4, <1>5, MatchAnswer
<1>7. ASSUME NEW y, NEW b, Granted(message_queue, y, b)
      PROVE  Granted(message_queue', y, b)
  <2>1. Granted(Q1, y, b)
    BY <1>1, <1>2, <1>7, GrantedDrop DEF Gives, Is
  <2>2. <<answer>> \in Seq(Message)
    BY <1>3, Singleton
  <2> QED BY <1>2, <1>4, <1>5, <2>1, <2>2, GrantedAdd
<1> QED BY <1>2, <1>6, <1>7, MovesKeep

\* A zone whose request for a bin is under way is a settled owner of it.
LEMMA AskerSettled ==
  ASSUME IInv, NEW z \in Zones, NEW t \in Zones,
         Has(message_queue[z], "request", t),
         NEW b \in pending_spillovers[z][t]
  PROVE  z \in SettledOwners(b)
<1>1. b \in zone_bins[z]
  BY DEF IInv, OnlyOwnedBins
<1>2. ASSUME NEW u \in Zones PROVE ~Grants(message_queue[u], z, b)
  <2>1. ~Has(message_queue[u], "response", z)
    <3>1. CASE u = t
      BY <3>1 DEF IInv, AnswersMatch
    <3>2. CASE u # t
      <4>1. pending_spillovers[z][u] = {}
        BY <3>2 DEF IInv, OneOutstanding
      <4> QED BY <4>1 DEF IInv, AnswersMatch
    <3> QED BY <3>1, <3>2
  <2> QED BY <2>1 DEF Has, Grants, Gives
<1> QED BY <1>1, <1>2 DEF SettledOwners, Releasing

\* A zone adopts bins and answers.  The sender was their one settled owner:
\* its request is still pending, so nobody has answered it.  From now on it is
\* about to release them, and the adopting zone takes its place.
LEMMA AdoptRequestKeeps ==
  ASSUME IInv, TypeOK', NEW z \in Zones, AdoptRequest(z)
  PROVE  IInv'
<1> DEFINE m == Head(message_queue[z])
           t == m.to
           S == m.bins
           L == overflowing \cap (zone_bins[t] \cup Adopted(t, S))
           Q1 == Drop(message_queue, z)
           answer == Acceptance(z, t, S)
<1>1. /\ message_queue \in Queues /\ pending_spillovers \in Requests
      /\ Match(message_queue, pending_spillovers, {})
  BY MatchMeans DEF IInv, TypeOK, Queues, Requests
<1>2. /\ message_queue[z] # <<>> /\ Is(m, "request", t) /\ t \in Zones
      /\ S \in SUBSET Bins
      /\ UNCHANGED active_route
  BY HeadType DEF AdoptRequest, Waiting, Is, RequestMsg, routeVars, IInv
<1>3. answer \in Message /\ Is(answer, "response", z) /\ Names(answer, S)
  BY <1>2, MessageTypes DEF Acceptance, Is, Names, Response
<1>4. /\ Match(Q1, pending_spillovers, {<<z, t>>}) /\ pending_spillovers[z][t] # {}
      /\ S = pending_spillovers[z][t] /\ Q1 \in Queues
  BY <1>1, <1>2, MatchDropRequest, QueuesType, Empty
<1>5. z # t
  BY <1>4 DEF IInv, NoSelfRequest
<1>6. zone_bins' = [zone_bins EXCEPT ![t] = zone_bins[t] \cup S]
  BY DEF AdoptRequest, Adopted
<1>7. L \in SUBSET Bins /\ L \subseteq zone_bins'[t]
  BY <1>2, <1>6 DEF Adopted, IInv, TypeOK
<1>8. UpdateState(t, L, Q1, <<answer>>)
  BY DEF AdoptRequest, Popped, Drop
<1>9. <<answer>> \in Seq(Message) /\ \A y, b :
        Grants(<<answer>>, y, b) <=> y = z /\ b \in S
  <2>1. \A y, b : Gives(answer, y, b) <=> y = z /\ b \in S
    BY DEF Gives, Is, Acceptance, Response
  <2> HIDE DEF answer
  <2> QED BY <1>3, <2>1, Singleton DEF Grants
<1> HIDE DEF answer, L
<1>10. /\ UNCHANGED pending_spillovers \/ Asked(t, L)
       /\ \E Q2 \in Queues :
            /\ message_queue' = Add(Q2, t, <<answer>>)
            /\ Match(Q2, pending_spillovers', {<<z, t>>})
            /\ \A y, b : Granted(Q2, y, b) <=> Granted(Q1, y, b)
  <2>1. \A u : <<t, u>> \notin {<<z, t>>}
    BY <1>5
  <2>2. TypeOK
    BY DEF IInv
  <2> HIDE DEF Q1, t
  <2> QED BY <1>2, <1>4, <1>7, <1>8, <1>9, <2>1, <2>2, UpdateEffect DEF t
<1>11. PICK Q2 \in Queues :
         /\ message_queue' = Add(Q2, t, <<answer>>)
         /\ Match(Q2, pending_spillovers', {<<z, t>>})
         /\ \A y, b : Granted(Q2, y, b) <=> Granted(Q1, y, b)
  BY <1>10
<1>12. pending_spillovers'[z][t] = S /\ pending_spillovers' \in Requests
  <2>1. CASE UNCHANGED pending_spillovers
    BY <1>1, <1>4, <2>1
  <2>2. CASE Asked(t, L)
    BY <1>1, <1>2, <1>4, <1>5, <2>2 DEF Asked, Requests, TypeOK
  <2> QED BY <1>10, <2>1, <2>2
<1>13. AnswersMatch'
  <2>1. Match(message_queue', pending_spillovers', {})
    BY <1>2, <1>3, <1>4, <1>11, <1>12, MatchAnswer
  <2> QED BY <2>1 DEF AnswersMatch, Match
<1>14. /\ NoSelfRequest' /\ OneOutstanding'
       /\ \A y, u \in Zones : pending_spillovers'[y][u] \subseteq zone_bins'[y]
  <2>1. \A y \in Zones : zone_bins[y] \subseteq zone_bins'[y]
    BY <1>6 DEF IInv, TypeOK
  <2> QED BY <1>2, <1>7, <1>10, <2>1, AskedKeeps
<1>15. OnlyOwnedBins'
  <2>1. overflowing_bins' = [overflowing_bins EXCEPT ![t] = L]
    BY <1>8 DEF UpdateState, NoSpillover, InitiateSpillover, Publish
  <2>2. \A y \in Zones : overflowing_bins'[y] \cup active_route'[y] \subseteq zone_bins'[y]
    BY <1>2, <1>6, <1>7, <2>1 DEF IInv, OnlyOwnedBins, TypeOK
  <2> QED BY <1>14, <2>2 DEF OnlyOwnedBins
<1>16. AtMostOneSettledOwner'
  <2>1. ASSUME NEW y \in Zones, NEW b \in Bins
        PROVE  Granted(message_queue', y, b)
                 <=> Granted(message_queue, y, b) \/ (y = z /\ b \in S)
    <3>1. Granted(message_queue, y, b) <=> Granted(Q1, y, b)
      BY <1>1, <1>2, GrantedDrop DEF Gives, Is
    <3>2. Granted(message_queue', y, b)
            <=> Granted(Q2, y, b) \/ Grants(<<answer>>, y, b)
      <4> HIDE DEF t
      <4> QED BY <1>2, <1>9, <1>11, GrantedAdd DEF t
    <3>3. Granted(Q2, y, b) <=> Granted(Q1, y, b)
      BY <1>11
    <3>4. Grants(<<answer>>, y, b) <=> y = z /\ b \in S
      BY <1>9
    <3> QED BY <3>1, <3>2, <3>3, <3>4
  <2>2. ASSUME NEW b \in S PROVE z \in SettledOwners(b)
    <3>1. Has(message_queue[z], "request", t)
      BY <1>1, <1>2, HasTail DEF Queues
    <3>2. b \in pending_spillovers[z][t]
      BY <1>4
    <3> HIDE DEF t
    <3> QED BY <1>2, <3>1, <3>2, AskerSettled
  <2>3. ASSUME NEW b \in Bins, b \notin S
        PROVE  SettledOwners(b)' \subseteq SettledOwners(b)
    BY <1>2, <1>6, <2>1, <2>3, GrantedMeans
    DEF SettledOwners, Releasing, Granted, IInv, TypeOK
  <2>4. ASSUME NEW b \in Bins, b \in S
        PROVE  SettledOwners(b)' \subseteq {t}
    <3>1. SettledOwners(b) \subseteq {z}
      BY <2>2, <2>4 DEF IInv, AtMostOneSettledOwner, SettledOwners
    <3>2. ASSUME NEW y \in Zones, y # t, y \in SettledOwners(b)'
          PROVE  FALSE
      <4>1. b \in zone_bins[y]
        BY <1>2, <1>6, <3>2 DEF SettledOwners, IInv, TypeOK
      <4>2. ~Granted(message_queue', y, b)
        BY <3>2 DEF SettledOwners, Releasing, Granted
      <4>3. ~Granted(message_queue, y, b) /\ y # z
        BY <2>1, <2>4, <4>2
      <4>4. y \in SettledOwners(b)
        BY <4>1, <4>3 DEF SettledOwners, Releasing, Granted
      <4> QED BY <3>1, <4>3, <4>4
    <3> QED BY <3>2 DEF SettledOwners
  <2> QED BY <2>3, <2>4 DEF IInv, AtMostOneSettledOwner
<1> QED BY <1>13, <1>14, <1>15, <1>16 DEF IInv

\* An acceptance arrives: the zone that asked was not a settled owner of the
\* bins any more, and now is no owner at all.
LEMMA ReceiveAcceptKeeps ==
  ASSUME IInv, TypeOK', NEW t \in Zones, ReceiveAccept(t)
  PROVE  IInv'
<1> DEFINE m == Head(message_queue[t])
           z == m.to
           S == m.bins
           L == overflowing_bins[z] \ S
           Q1 == Drop(message_queue, t)
<1>1. /\ message_queue \in Queues /\ pending_spillovers \in Requests
      /\ Match(message_queue, pending_spillovers, {})
  BY MatchMeans DEF IInv, TypeOK, Queues, Requests
<1>2. /\ message_queue[t] # <<>> /\ Is(m, "response", z) /\ z \in Zones
      /\ m.accepted /\ S \in SUBSET Bins
      /\ pending_spillovers' = [pending_spillovers EXCEPT ![z][t] = {}]
      /\ zone_bins' = [zone_bins EXCEPT ![z] = @ \ S]
      /\ active_route' = [active_route EXCEPT ![z] = @ \ S]
      /\ Publish(z, L, Q1, <<>>, <<>>)
  BY HeadType
  DEF ReceiveAccept, Waiting, Is, ResponseMsg, Popped, Drop, Resolved,
      Released, RouteReleased, IInv
<1>3. /\ Match(Q1, pending_spillovers, {<<z, t>>}) /\ Q1 \in Queues
      /\ pending_spillovers[z][t] = S /\ S # {}
  <2>1. Q1 \in Queues
    BY <1>1, <1>2, QueuesType, Empty
  <2>2. /\ Match(Q1, pending_spillovers, {<<z, t>>})
        /\ pending_spillovers[z][t] # {}
        /\ m.accepted => S = pending_spillovers[z][t]
    <3> HIDE DEF z
    <3> QED BY <1>1, <1>2, MatchDropResponse DEF z
  <2> QED BY <1>2, <2>1, <2>2
<1>4. PICK news \in Seq(Message) :
        /\ Neutral(news)
        /\ message_queue' = Add(Add(Add(Q1, z, news), z, <<>>), z, <<>>)
  <2>1. L \in SUBSET Bins /\ TypeOK /\ <<>> \in Seq(Message)
    BY <1>2 DEF IInv, TypeOK
  <2> HIDE DEF L, Q1, z
  <2> QED BY <1>2, <1>3, <2>1, PublishEffect
<1> DEFINE Q2 == Add(Q1, z, news)
           Q3 == Add(Q2, z, <<>>)
<1>5. <<>> \in Seq(Message) /\ Neutral(<<>>)
  BY Empty DEF Neutral
<1>6. Q2 \in Queues /\ Match(Q2, pending_spillovers, {<<z, t>>})
  BY <1>1, <1>2, <1>3, <1>4, MatchNews, QueuesType
<1> HIDE DEF Q2
<1>7. Q3 \in Queues /\ Match(Q3, pending_spillovers, {<<z, t>>})
  BY <1>1, <1>2, <1>5, <1>6, MatchNews, QueuesType
<1> HIDE DEF Q3
<1>8. /\ message_queue' = Add(Q3, z, <<>>)
      /\ Match(message_queue', pending_spillovers, {<<z, t>>})
  BY <1>1, <1>2, <1>4, <1>5, <1>7, MatchNews, QueuesType DEF Q2, Q3
<1>9. AnswersMatch'
  <2>1. message_queue' \in Queues
    BY DEF TypeOK, Queues
  <2>2. Match(message_queue', pending_spillovers', {})
    BY <1>1, <1>2, <1>8, <2>1, MatchResolve
  <2> QED BY <2>2 DEF AnswersMatch, Match
<1>10. ASSUME NEW y \in Zones, NEW u \in Zones
       PROVE  pending_spillovers'[y][u] =
                IF y = z /\ u = t THEN {} ELSE pending_spillovers[y][u]
  BY <1>1, <1>2 DEF Requests
<1>11. \A u \in Zones : pending_spillovers'[z][u] = {}
  BY <1>2, <1>3, <1>10 DEF IInv, OneOutstanding
<1>12. NoSelfRequest' /\ OneOutstanding'
  BY <1>10 DEF IInv, NoSelfRequest, OneOutstanding
<1>13. OnlyOwnedBins'
  <2>1. overflowing_bins' = [overflowing_bins EXCEPT ![z] = @ \ S]
    BY <1>2 DEF Publish
  <2>2. \A y \in Zones : overflowing_bins'[y] \cup active_route'[y] \subseteq zone_bins'[y]
    BY <1>2, <2>1 DEF IInv, OnlyOwnedBins, TypeOK
  <2>3. \A y, u \in Zones : pending_spillovers'[y][u] \subseteq zone_bins'[y]
    BY <1>2, <1>10, <1>11 DEF IInv, OnlyOwnedBins, TypeOK
  <2> QED BY <2>2, <2>3 DEF OnlyOwnedBins
<1>14. AtMostOneSettledOwner'
  <2>1. ASSUME NEW y \in Zones, NEW b \in Bins
        PROVE  Granted(message_queue, y, b)
                 <=> Granted(message_queue', y, b) \/ (y = z /\ b \in S)
    <3>1. Granted(message_queue, y, b)
            <=> Granted(Q1, y, b) \/ (y = z /\ b \in S)
      BY <1>1, <1>2, GrantedDrop DEF Gives, Is
    <3>2. Granted(Q2, y, b) <=> Granted(Q1, y, b)
      BY <1>2, <1>3, <1>4, GrantedAdd DEF Q2, Neutral
    <3>3. Granted(Q3, y, b) <=> Granted(Q2, y, b)
      BY <1>2, <1>5, <1>6, GrantedAdd DEF Q3, Neutral
    <3>4. Granted(message_queue', y, b) <=> Granted(Q3, y, b)
      BY <1>2, <1>5, <1>7, <1>8, GrantedAdd DEF Neutral
    <3> QED BY <3>1, <3>2, <3>3, <3>4
  <2>2. ASSUME NEW y \in Zones, NEW b \in Bins,
               b \in zone_bins'[y], ~Granted(message_queue', y, b)
        PROVE  b \in zone_bins[y] /\ ~Granted(message_queue, y, b)
    BY <1>2, <2>1, <2>2 DEF IInv, TypeOK
  <2> QED BY <2>2, FewerOwners DEF IInv
<1> QED BY <1>9, <1>12, <1>13, <1>14 DEF IInv

\* The invariant holds when the nodes have been initialised.
LEMMA InvInit == Init => IInv
<1> SUFFICES ASSUME Init PROVE IInv
  OBVIOUS
<1>1. TypeOK
  BY HomeAssumption DEF Init, TypeOK, Loads, Phases, Unknown
<1>2. NoSelfRequest /\ OneOutstanding /\ OnlyOwnedBins
  BY DEF Init, NoSelfRequest, OneOutstanding, OnlyOwnedBins
<1>3. AnswersMatch
  <2>1. \A z, t \in Zones : message_queue[z] = <<>> /\ pending_spillovers[z][t] = {}
    BY DEF Init
  <2> QED BY <2>1, Empty DEF AnswersMatch
<1>4. AtMostOneSettledOwner
  BY DEF Init, AtMostOneSettledOwner, SettledOwners
<1> QED BY <1>1, <1>2, <1>3, <1>4 DEF IInv

\* Every action keeps the invariant.
LEMMA InvStep == IInv /\ [Next]_vars => IInv'
<1> SUFFICES ASSUME IInv, [Next]_vars PROVE IInv'
  OBVIOUS
<1>0. TypeOK /\ TypeOK'
  BY TypeStep DEF IInv
<1>1. ASSUME NEW b \in Bins, Overflow(b) PROVE IInv'
  <2> DEFINE z == zone_id[b]
             L == (overflowing \cup {b}) \cap zone_bins[z]
  <2>1. z \in Zones /\ L \in SUBSET Bins /\ L \subseteq zone_bins[z]
    BY <1>0 DEF TypeOK
  <2>2. UpdateState(z, L, message_queue, <<>>) /\ UNCHANGED zone_bins
    BY <1>1 DEF Overflow
  <2>3. \A y \in Zones : active_route'[y] \subseteq zone_bins[y]
    BY <1>0, <1>1, <2>1 DEF Overflow, TypeOK, IInv, OnlyOwnedBins
  <2> HIDE DEF z, L
  <2> QED BY <1>0, <2>1, <2>2, <2>3, UpdateKeeps
<1>2. ASSUME NEW z \in Zones, ExecuteRoute(z) PROVE IInv'
  <2>1. Unlisted(z) \in SUBSET Bins /\ Unlisted(z) \subseteq zone_bins[z]
    BY <1>0 DEF Unlisted, TypeOK, IInv, OnlyOwnedBins
  <2>2. UpdateState(z, Unlisted(z), message_queue, <<>>) /\ UNCHANGED zone_bins
    BY <1>2 DEF ExecuteRoute
  <2>3. \A y \in Zones : active_route'[y] \subseteq zone_bins[y]
    BY <1>0, <1>2 DEF ExecuteRoute, TypeOK, IInv, OnlyOwnedBins
  <2> QED BY <1>0, <2>1, <2>2, <2>3, UpdateKeeps
<1>3. ASSUME NEW z \in Zones, UpdateZoneState(z) PROVE IInv'
  <2>1. /\ overflowing_bins[z] \in SUBSET Bins
        /\ overflowing_bins[z] \subseteq zone_bins[z]
        /\ \A y \in Zones : active_route[y] \subseteq zone_bins[y]
    BY <1>0 DEF TypeOK, IInv, OnlyOwnedBins
  <2>2. /\ UpdateState(z, overflowing_bins[z], message_queue, <<>>)
        /\ UNCHANGED <<zone_bins, active_route>>
    BY <1>3 DEF UpdateZoneState, nodeVars
  <2> QED BY <1>0, <2>1, <2>2, UpdateKeeps
<1>4. ASSUME UNCHANGED <<zone_bins, pending_spillovers, message_queue>>,
             \A y \in Zones : /\ overflowing_bins'[y] \subseteq zone_bins[y]
                              /\ active_route'[y] \subseteq zone_bins[y]
      PROVE  IInv'
  BY <1>0, <1>4
  DEF IInv, NoSelfRequest, OneOutstanding, OnlyOwnedBins, AnswersMatch,
      AtMostOneSettledOwner, SettledOwners, Releasing
<1>5. ASSUME NEW b \in Bins, EmptyBin(b) PROVE IInv'
  BY <1>4, <1>5 DEF EmptyBin, routeVars, spillVars, IInv, OnlyOwnedBins
<1>6. ASSUME NEW z \in Zones, Dispatch(z) PROVE IInv'
  <2>1. ToService(z) \subseteq zone_bins[z]
    BY DEF ToService
  <2>2. /\ UNCHANGED <<zone_bins, pending_spillovers, message_queue>>
        /\ overflowing_bins' = [overflowing_bins EXCEPT ![z] = ToService(z)]
        /\ active_route' = [active_route EXCEPT ![z] = ToService(z)]
    BY <1>6 DEF Dispatch, nodeVars, spillVars
  <2>3. \A y \in Zones : /\ overflowing_bins'[y] \subseteq zone_bins[y]
                         /\ active_route'[y] \subseteq zone_bins[y]
    BY <1>0, <2>1, <2>2 DEF TypeOK, IInv, OnlyOwnedBins
  <2> QED BY <1>4, <2>2, <2>3
<1>7. ASSUME NEW z \in Zones, NothingToPlan(z) PROVE IInv'
  <2>1. /\ UNCHANGED <<zone_bins, pending_spillovers, message_queue, active_route>>
        /\ overflowing_bins' = [overflowing_bins EXCEPT ![z] = {}]
    BY <1>7 DEF NothingToPlan, nodeVars, spillVars
  <2>2. \A y \in Zones : /\ overflowing_bins'[y] \subseteq zone_bins[y]
                         /\ active_route'[y] \subseteq zone_bins[y]
    BY <1>0, <2>1 DEF TypeOK, IInv, OnlyOwnedBins
  <2> QED BY <1>4, <2>1, <2>2
<1>8. ASSUME NEW z \in Zones, Deliver(z) PROVE IInv'
  BY <1>0, <1>8, ReceiveStateKeeps, AdoptRequestKeeps, AcceptOwnedKeeps,
     RejectRequestKeeps, ReceiveAcceptKeeps, ReceiveRejectKeeps DEF Deliver
<1>9. CASE UNCHANGED vars
  BY <1>4, <1>9
  DEF vars, nodeVars, routeVars, spillVars, IInv, OnlyOwnedBins
<1> QED
  BY <1>1, <1>2, <1>3, <1>5, <1>6, <1>7, <1>8, <1>9, BoundsAssumption
  DEF Next, OperationLoop, Environment

\* IInv is an invariant.
LEMMA InvAlways == Spec => []IInv
  BY InvInit, InvStep, PTL DEF Spec

\* Whatever transfers of a bin chain or cross, and whatever the order of
\* delivery, at most one owner of the bin is not about to release it.
THEOREM OwnershipSafe == Spec => []AtMostOneSettledOwner
  BY InvAlways, PTL DEF IInv

\* A pending request is in exactly one message, its own or its answer, which
\* names its bins: looking an answer up by the peer alone finds the request it
\* answers.
THEOREM AnswersAlwaysMatch == Spec => []AnswersMatch
  BY InvAlways, PTL DEF IInv

\* A zone asks one peer at a time.
THEOREM AlwaysOneOutstanding == Spec => []OneOutstanding
  BY InvAlways, PTL DEF IInv

\* A zone lists, plans and offers only bins it owns.
THEOREM AlwaysOnlyOwnedBins == Spec => []OnlyOwnedBins
  BY InvAlways, PTL DEF IInv

-----------------------------------------------------------------------------
(***************************************************************************)
(* DeliveryThread implements Spillover: whatever the simulator's thread    *)
(* does is a step of the specification that delivers in any order, so what *)
(* is proved above of every order of delivery holds of it.                 *)
(***************************************************************************)

\* The position of the thread is one of a visited node.
AtNode == turn \in DOMAIN Visit

LEMMA AtNodeAlways == ThreadSpec => []AtNode
<1>1. ThreadInit => AtNode
  BY VisitAssumption DEF ThreadInit, AtNode
<1>2. AtNode /\ [ThreadNext]_allVars => AtNode'
  <2> SUFFICES ASSUME AtNode, [ThreadNext]_allVars PROVE AtNode'
    OBVIOUS
  <2>1. CASE VisitNext
    BY <2>1, VisitAssumption DEF VisitNext, AtNode
  <2>2. CASE ~VisitNext
    BY <2>2 DEF AtNode, ThreadNext, DeliverNext, OtherThreads, threadVars, allVars
  <2> QED BY <2>1, <2>2
<1> QED BY <1>1, <1>2, PTL DEF ThreadSpec

\* Every step of the thread, and of the other threads, is a step of Spillover.
LEMMA ThreadStep == AtNode /\ [ThreadNext]_allVars => [Next]_vars
<1> SUFFICES ASSUME AtNode, [ThreadNext]_allVars PROVE [Next]_vars
  OBVIOUS
<1>1. CASE DeliverNext
  <2>1. Visit[turn] \in Zones /\ Deliver(Visit[turn])
    BY <1>1, VisitAssumption DEF AtNode, DeliverNext
  <2> QED BY <2>1 DEF Next
<1>2. CASE VisitNext
  BY <1>2 DEF VisitNext
<1>3. CASE OtherThreads
  BY <1>3 DEF OtherThreads, Next
<1>4. CASE UNCHANGED allVars
  BY <1>4 DEF allVars
<1> QED BY <1>1, <1>2, <1>3, <1>4 DEF ThreadNext

\* The simulator's delivery thread is one of the orders of delivery that
\* Spillover allows (simulate_message_delivery).
THEOREM ThreadImplementsSpillover == ThreadSpec => Spec
<1>1. ThreadInit => Init
  BY DEF ThreadInit
<1> QED BY <1>1, ThreadStep, AtNodeAlways, PTL DEF ThreadSpec, Spec

\* So under it a transfer never leaves a bin two owners that keep it, ...
THEOREM ThreadOwnershipSafe == ThreadSpec => []AtMostOneSettledOwner
  BY ThreadImplementsSpillover, OwnershipSafe

\* ... and every answer finds the request it answers.
THEOREM ThreadAnswersMatch == ThreadSpec => []AnswersMatch
  BY ThreadImplementsSpillover, AnswersAlwaysMatch

-----------------------------------------------------------------------------
(***************************************************************************)
(* The snapshot the thread works through is still in the queue.            *)
(***************************************************************************)

\* update_state only adds messages to the queues it starts from.
LEMMA UpdateStateAdds ==
  ASSUME TypeOK, NEW z \in Zones, NEW L \in SUBSET Bins, NEW Q \in Queues,
         NEW reply \in Seq(Message), UpdateState(z, L, Q, reply),
         NEW y \in Zones
  PROVE  Len(message_queue'[y]) >= Len(Q[y])
<1>1. PICK request \in Seq(Message) : Publish(z, L, Q, request, reply)
  <2>1. CASE NoSpillover(z, L, Q, reply)
    BY <2>1, Empty DEF NoSpillover
  <2>2. CASE InitiateSpillover(z, L, Q, reply)
    <3>1. PICK t \in LeastLoaded(z) :
            \E S \in Selections(L, Amount(z, t, Cardinality(L))) :
              Publish(z, L, Q, <<Request(t, S)>>, reply)
      BY <2>2 DEF InitiateSpillover
    <3>2. PICK S \in Selections(L, Amount(z, t, Cardinality(L))) :
            Publish(z, L, Q, <<Request(t, S)>>, reply)
      BY <3>1
    <3>3. t \in Zones /\ S \in SUBSET Bins
      BY DEF LeastLoaded, Candidates, Peers, Selections
    <3>4. <<Request(t, S)>> \in Seq(Message)
      BY <3>3, MessageTypes, Singleton
    <3> QED BY <3>2, <3>4
  <2> QED BY <2>1, <2>2 DEF UpdateState
<1>2. PICK news \in Seq(Message) :
        message_queue' = Add(Add(Add(Q, z, news), z, request), z, reply)
  BY <1>1, PublishEffect
<1>3. CASE y = z
  <2>1. message_queue'[y] = ((Q[z] \o news) \o request) \o reply
    BY <1>2, <1>3 DEF Add, Queues
  <2>2. Q[z] \in Seq(Message)
    BY DEF Queues
  <2> QED BY <1>3, <2>1, <2>2
<1>4. CASE y # z
  <2>1. message_queue'[y] = Q[y] /\ Q[y] \in Seq(Message)
    BY <1>2, <1>4 DEF Add, Queues
  <2> QED BY <2>1
<1> QED BY <1>3, <1>4

\* A queue only grows, except for the message that is delivered.
Grown(Q) == \A y \in Zones : Len(message_queue'[y]) >= Len(Q[y])

\* Operation loops, alerts and the operator add messages.
LEMMA OthersAdd ==
  ASSUME TypeOK,
         \/ \E z \in Looping : OperationLoop(z)
         \/ \E b \in Bins : Environment(b)
  PROVE  Grown(message_queue)
<1>0. /\ message_queue \in Queues /\ <<>> \in Seq(Message)
      /\ \A y \in Zones : Len(message_queue[y]) \in Nat
  <2>1. message_queue \in Queues
    BY DEF TypeOK, Queues
  <2> QED BY <2>1, Empty DEF Queues
<1>1. ASSUME UNCHANGED message_queue PROVE Grown(message_queue)
  BY <1>0, <1>1 DEF Grown
<1>2. ASSUME NEW z \in Looping, ExecuteRoute(z) PROVE Grown(message_queue)
  <2>1. z \in Zones /\ Unlisted(z) \in SUBSET Bins
    BY BoundsAssumption DEF TypeOK, Unlisted
  <2> QED BY <1>0, <1>2, <2>1, UpdateStateAdds DEF ExecuteRoute, Grown
<1>3. ASSUME NEW z \in Looping, UpdateZoneState(z) PROVE Grown(message_queue)
  <2>1. z \in Zones /\ overflowing_bins[z] \in SUBSET Bins
    BY BoundsAssumption DEF TypeOK
  <2> QED BY <1>0, <1>3, <2>1, UpdateStateAdds DEF UpdateZoneState, Grown
<1>4. ASSUME NEW z \in Looping, OperationLoop(z) PROVE Grown(message_queue)
  BY <1>1, <1>2, <1>3, <1>4 DEF OperationLoop, Dispatch, NothingToPlan
<1>5. ASSUME NEW b \in Bins, Overflow(b) PROVE Grown(message_queue)
  <2> DEFINE z == zone_id[b]
             L == (overflowing \cup {b}) \cap zone_bins[z]
  <2>1. z \in Zones /\ L \in SUBSET Bins
    BY DEF TypeOK
  <2>2. UpdateState(z, L, message_queue, <<>>)
    BY <1>5 DEF Overflow
  <2> HIDE DEF z, L
  <2> QED BY <1>0, <2>1, <2>2, UpdateStateAdds DEF Grown
<1>6. ASSUME NEW b \in Bins, EmptyBin(b) PROVE Grown(message_queue)
  BY <1>1, <1>6 DEF EmptyBin
<1> QED BY <1>4, <1>5, <1>6 DEF Environment

\* Delivering takes one message off, and may add some to either end's queue.
LEMMA DeliverTakesOne ==
  ASSUME TypeOK, NEW z \in Zones, Deliver(z)
  PROVE  /\ Len(message_queue[z]) > 0
         /\ Grown(Popped(z))
<1>0. PICK kind : Waiting(z, kind) /\ kind \in {"state", "request", "response"}
  BY DEF Deliver, ReceiveState, AdoptRequest, AcceptOwned, RejectRequest,
         ReceiveAccept, ReceiveReject
<1>1. /\ message_queue[z] \in Seq(Message) /\ message_queue[z] # <<>>
      /\ Popped(z) \in Queues
  BY <1>0, HeadType DEF Queues
<1>2. \A y \in Zones : Len(Popped(z)[y]) \in Nat
  BY <1>1 DEF Queues
<1> SUFFICES Grown(Popped(z))
  BY <1>1
<1> DEFINE m == Head(message_queue[z])
<1>3. ASSUME message_queue' = Popped(z) PROVE Grown(Popped(z))
  BY <1>2, <1>3 DEF Grown
<1>4. ASSUME NEW t \in Zones, NEW r \in Message,
             message_queue' = [Popped(z) EXCEPT ![t] = @ \o <<r>>]
      PROVE  Grown(Popped(z))
  <2> SUFFICES ASSUME NEW y \in Zones
               PROVE  Len(message_queue'[y]) >= Len(Popped(z)[y])
    BY DEF Grown
  <2> DEFINE q == Popped(z)[y]
  <2>1. q \in Seq(Message)
    BY <1>1 DEF Queues
  <2>2. message_queue'[y] = q \/ message_queue'[y] = q \o <<r>>
    BY <1>1, <1>4 DEF Queues
  <2> HIDE DEF q
  <2>3. Len(message_queue'[y]) >= Len(q)
    BY <2>1, <2>2
  <2> QED BY <2>3 DEF q
<1>5. CASE AdoptRequest(z)
  <2> DEFINE t == m.to
             L == overflowing \cap (zone_bins[t] \cup Adopted(t, m.bins))
  <2>1. m \in RequestMsg
    BY <1>5, HeadType DEF AdoptRequest
  <2>2. /\ t \in Zones /\ L \in SUBSET Bins
        /\ <<Acceptance(z, t, m.bins)>> \in Seq(Message)
    BY <2>1, AnswerType DEF RequestMsg, TypeOK
  <2>3. UpdateState(t, L, Popped(z), <<Acceptance(z, t, m.bins)>>)
    BY <1>5 DEF AdoptRequest
  <2> HIDE DEF m, t, L
  <2> QED BY <1>1, <2>2, <2>3, UpdateStateAdds DEF Grown
<1>6. CASE AcceptOwned(z) \/ RejectRequest(z)
  <2>1. m \in RequestMsg
    BY <1>6, HeadType DEF AcceptOwned, RejectRequest
  <2>2. /\ m.to \in Zones
        /\ Acceptance(z, m.to, m.bins) \in Message
        /\ Response(z, FALSE, {}) \in Message
    BY <2>1, MessageTypes DEF RequestMsg, Acceptance
  <2> QED BY <1>4, <1>6, <2>2 DEF AcceptOwned, RejectRequest
<1>7. CASE ReceiveAccept(z)
  <2>1. m \in ResponseMsg
    BY <1>7, HeadType DEF ReceiveAccept
  <2> DEFINE y == m.to
             L == overflowing_bins[y] \ m.bins
  <2>2. y \in Zones /\ L \in SUBSET Bins
    BY <2>1 DEF ResponseMsg, TypeOK
  <2>3. Publish(y, L, Popped(z), <<>>, <<>>)
    BY <1>7 DEF ReceiveAccept
  <2> HIDE DEF y, L
  <2>4. PICK news \in Seq(Message) :
          message_queue' = Add(Add(Add(Popped(z), y, news), y, <<>>), y, <<>>)
    BY <1>1, <2>2, <2>3, PublishEffect, Empty
  <2> SUFFICES ASSUME NEW x \in Zones
               PROVE  Len(message_queue'[x]) >= Len(Popped(z)[x])
    BY DEF Grown
  <2> DEFINE q == Popped(z)[x]
  <2>5. q \in Seq(Message)
    BY <1>1 DEF Queues
  <2>6. message_queue'[x] = q \/ message_queue'[x] = ((q \o news) \o <<>>) \o <<>>
    BY <1>1, <2>2, <2>4 DEF Add, Queues
  <2> HIDE DEF q
  <2>7. Len(message_queue'[x]) >= Len(q)
    BY <2>5, <2>6
  <2> QED BY <2>7 DEF q
<1>8. CASE ReceiveState(z) \/ ReceiveReject(z)
  BY <1>8, <1>3 DEF ReceiveState, ReceiveReject
<1> QED BY <1>1, <1>5, <1>6, <1>7, <1>8 DEF Deliver

\* The thread never reads beyond the queue it took its snapshot of, although
\* handlers and other threads go on adding to it (simulate_message_delivery,
\* get_pending_messages).
THEOREM SnapshotStaysPending == ThreadSpec => []SnapshotIsPending
<1>1. ThreadInit => SnapshotIsPending
  BY VisitAssumption DEF ThreadInit, Init, SnapshotIsPending
<1>2. TypeOK /\ TypeOK' /\ SnapshotIsPending /\ [ThreadNext]_allVars
        => SnapshotIsPending'
  <2> SUFFICES ASSUME TypeOK, TypeOK', SnapshotIsPending, [ThreadNext]_allVars
               PROVE  SnapshotIsPending'
    OBVIOUS
  <2> DEFINE z == Visit[turn]
  <2>0. /\ turn \in DOMAIN Visit /\ z \in Zones
        /\ batch \in 0 .. Len(message_queue[z])
        /\ \A y \in Zones : /\ message_queue[y] \in Seq(Message)
                            /\ message_queue'[y] \in Seq(Message)
    BY VisitAssumption DEF SnapshotIsPending, TypeOK
  <2>1. ASSUME Grown(message_queue), UNCHANGED threadVars
        PROVE  SnapshotIsPending'
    BY <2>0, <2>1 DEF Grown, threadVars, SnapshotIsPending
  <2>2. CASE DeliverNext
    <3>1. Deliver(z) /\ batch > 0 /\ batch' = batch - 1 /\ turn' = turn
      BY <2>2 DEF DeliverNext
    <3>2. /\ Len(message_queue[z]) > 0
          /\ Len(message_queue'[z]) >= Len(Popped(z)[z])
      BY <2>0, <3>1, DeliverTakesOne DEF Grown
    <3>3. Popped(z)[z] = Tail(message_queue[z])
      BY <2>0 DEF Popped, TypeOK
    <3>4. Len(Tail(message_queue[z])) = Len(message_queue[z]) - 1
      BY <2>0, <3>2
    <3> QED BY <2>0, <3>1, <3>2, <3>3, <3>4 DEF SnapshotIsPending
  <2>3. CASE VisitNext
    <3>1. turn' \in DOMAIN Visit /\ Visit[turn'] \in Zones
      BY <2>0, <2>3, VisitAssumption DEF VisitNext
    <3>2. message_queue' = message_queue /\ batch' = Len(message_queue[Visit[turn']])
      BY <2>3 DEF VisitNext, vars
    <3> QED BY <2>0, <3>1, <3>2 DEF SnapshotIsPending
  <2>4. CASE OtherThreads
    BY <2>1, <2>4, OthersAdd DEF OtherThreads
  <2>5. CASE UNCHANGED allVars
    BY <2>0, <2>5 DEF allVars, vars, threadVars, SnapshotIsPending
  <2> QED BY <2>2, <2>3, <2>4, <2>5 DEF ThreadNext
<1>3. ThreadSpec => []TypeOK
  BY ThreadImplementsSpillover, TypeCorrect
<1> QED BY <1>1, <1>2, <1>3, PTL DEF ThreadSpec

-----------------------------------------------------------------------------
(***************************************************************************)
(* No bin is lost, unless a zone takes back a bin it is about to release.  *)
(* It can be offered one only because the handler that adopts bins         *)
(* publishes, and so may make a request, before it answers: a request for  *)
(* a bin it has just adopted goes out ahead of the answer and can reach a  *)
(* zone that has not released the bin yet.                                 *)
(***************************************************************************)

\* No zone accepts a bin it is about to release.
NotTakenBack(z) ==
  LET m == Head(message_queue[z]) IN \A b \in m.bins : ~Releasing(m.to, b)

NeverTakesBack ==
  \A z \in Zones : AdoptRequest(z) \/ AcceptOwned(z) => NotTakenBack(z)

\* An adopting handler asks nobody to take the bins it adopts.
KeepsAdopted ==
  \A z \in Zones : AdoptRequest(z) =>
    LET m == Head(message_queue[z])
    IN  \A u \in Zones :
          pending_spillovers'[m.to][u] \cap Adopted(m.to, m.bins) = {}

\* The answers in q that give b away are followed by a request to w.
Behind(q, w, b) ==
  \A j \in DOMAIN q, z \in Zones :
    Gives(q[j], z, b) => \E i \in DOMAIN q : j < i /\ Is(q[i], "request", w)

\* A zone owns the bins it has accepted and not yet answered for, ...
GranterOwns ==
  \A v, z \in Zones, b \in Bins :
    Grants(message_queue[v], z, b) => b \in zone_bins[v]

\* ... and offers them only after it has answered.
AnswersFirst ==
  \A v, w \in Zones, b \in Bins :
    b \in pending_spillovers[v][w] => Behind(message_queue[v], w, b)

AlwaysOwned == \A b \in Bins : \E z \in Zones : z \in SettledOwners(b)

OInv == GranterOwns /\ AnswersFirst

\* A step keeps both, whatever handlers ask for.
Kept == (OInv => OInv') /\ (AlwaysOwned => AlwaysOwned')

\* Messages that give nothing away may be added.
LEMMA BehindConcat ==
  ASSUME NEW q \in Seq(Message), NEW e \in Seq(Message), NEW w, NEW b,
         Behind(q, w, b) \/ Has(e, "request", w),
         \A z \in Zones : ~Grants(e, z, b)
  PROVE  Behind(q \o e, w, b)
<1> SUFFICES ASSUME NEW k \in DOMAIN (q \o e), NEW z \in Zones,
                    Gives((q \o e)[k], z, b)
             PROVE  \E i \in DOMAIN (q \o e) :
                      k < i /\ Is((q \o e)[i], "request", w)
  BY DEF Behind
<1>1. k \in DOMAIN q /\ (q \o e)[k] = q[k]
  <2>1. CASE k \notin DOMAIN q
    <3>1. k - Len(q) \in DOMAIN e /\ (q \o e)[k] = e[k - Len(q)]
      BY <2>1, ConcatElements
    <3> QED BY <3>1 DEF Grants
  <2> QED BY <2>1, ConcatElements
<1>2. CASE Behind(q, w, b)
  <2>1. PICK i \in DOMAIN q : k < i /\ Is(q[i], "request", w)
    BY <1>1, <1>2 DEF Behind
  <2> QED BY <2>1, ConcatElements
<1>3. CASE Has(e, "request", w)
  <2>1. PICK i \in DOMAIN e : Is(e[i], "request", w)
    BY <1>3 DEF Has
  <2>2. /\ Len(q) + i \in DOMAIN (q \o e)
        /\ Is((q \o e)[Len(q) + i], "request", w)
    BY <2>1, ConcatElements
  <2>3. k < Len(q) + i
    <3>1. Len(q) \in Nat /\ k \in 1 .. Len(q) /\ i \in Nat \ {0}
      BY <1>1
    <3> QED BY <3>1
  <2> QED BY <2>2, <2>3
<1> QED BY <1>2, <1>3

\* A message may be taken off.
LEMMA BehindTail ==
  ASSUME NEW q \in Seq(Message), q # <<>>, NEW w, NEW b, Behind(q, w, b)
  PROVE  Behind(Tail(q), w, b)
<1> SUFFICES ASSUME NEW k \in DOMAIN Tail(q), NEW z \in Zones,
                    Gives(Tail(q)[k], z, b)
             PROVE  \E i \in DOMAIN Tail(q) :
                      k < i /\ Is(Tail(q)[i], "request", w)
  BY DEF Behind
<1>1. k + 1 \in DOMAIN q /\ Tail(q)[k] = q[k + 1] /\ k \in Nat \ {0}
  BY TailElements
<1>2. PICK i \in DOMAIN q : k + 1 < i /\ Is(q[i], "request", w)
  BY <1>1 DEF Behind
<1>3. i \in Nat /\ i # 1
  BY <1>1, <1>2
<1>4. i - 1 \in DOMAIN Tail(q)
  BY <1>3, TailElements
<1>5. Tail(q)[i - 1] = q[(i - 1) + 1]
  BY <1>4, TailElements
<1>6. k < i - 1 /\ (i - 1) + 1 = i
  BY <1>1, <1>2, <1>3
<1> QED BY <1>2, <1>4, <1>5, <1>6
\* The queues Q were added to, and then z's reply: what was added gives nothing
\* away, and a new request is behind all answers its zone has given so far.
QuietlyAdded(Q, z, reply) ==
  \E Q2 \in Queues :
    /\ message_queue' = Add(Q2, z, reply)
    /\ \A y \in Zones : \A x, b : Grants(Q2[y], x, b) <=> Grants(Q[y], x, b)
    /\ \A y, w \in Zones : \A b :
         /\ b \in pending_spillovers'[y][w]
         /\ b \in pending_spillovers[y][w] => Behind(Q[y], w, b)
         => Behind(Q2[y], w, b)

\* update_state does so.
LEMMA UpdateOrder ==
  ASSUME TypeOK, NEW z \in Zones, NEW L \in SUBSET Bins, NEW Q \in Queues,
         NEW reply \in Seq(Message), UpdateState(z, L, Q, reply)
  PROVE  QuietlyAdded(Q, z, reply)
<1>1. PICK request \in Seq(Message) :
        /\ Publish(z, L, Q, request, reply)
        /\ \A x, b : ~Grants(request, x, b)
        /\ \A y, w \in Zones : \A b :
             b \in pending_spillovers'[y][w] =>
               \/ b \in pending_spillovers[y][w]
               \/ y = z /\ Has(request, "request", w)
  <2>1. CASE NoSpillover(z, L, Q, reply)
    <3>1. /\ Publish(z, L, Q, <<>>, reply)
          /\ pending_spillovers' = pending_spillovers
      BY <2>1 DEF NoSpillover
    <3> QED BY <3>1, Empty
  <2>2. CASE InitiateSpillover(z, L, Q, reply)
    <3>1. PICK t \in LeastLoaded(z) :
            \E S \in Selections(L, Amount(z, t, Cardinality(L))) :
              /\ pending_spillovers' = [pending_spillovers EXCEPT ![z][t] = S]
              /\ Publish(z, L, Q, <<Request(t, S)>>, reply)
      BY <2>2 DEF InitiateSpillover
    <3>2. PICK S \in Selections(L, Amount(z, t, Cardinality(L))) :
            /\ pending_spillovers' = [pending_spillovers EXCEPT ![z][t] = S]
            /\ Publish(z, L, Q, <<Request(t, S)>>, reply)
      BY <3>1
    <3>3. t \in Zones /\ S \in SUBSET Bins
      BY DEF LeastLoaded, Candidates, Peers, Selections
    <3>4. Request(t, S) \in Message
      BY <3>3, MessageTypes
    <3>5. Is(Request(t, S), "request", t) /\ \A x, b : ~Gives(Request(t, S), x, b)
      BY DEF Is, Gives, Request
    <3> DEFINE asked == <<Request(t, S)>>
    <3>6. asked \in Seq(Message) /\ Has(asked, "request", t)
      BY <3>4, <3>5, Singleton
    <3>7. \A x, b : ~Grants(asked, x, b)
      BY <3>4, <3>5, Singleton
    <3>8. ASSUME NEW y \in Zones, NEW w \in Zones, NEW b,
                 b \in pending_spillovers'[y][w], b \notin pending_spillovers[y][w]
          PROVE  y = z /\ w = t
      BY <3>2, <3>3, <3>8 DEF TypeOK
    <3> HIDE DEF asked
    <3>9. Publish(z, L, Q, asked, reply)
      BY <3>2 DEF asked
    <3> QED BY <3>6, <3>7, <3>8, <3>9
  <2> QED BY <2>1, <2>2 DEF UpdateState
<1>2. PICK news \in Seq(Message) :
        /\ Neutral(news)
        /\ message_queue' = Add(Add(Add(Q, z, news), z, request), z, reply)
  BY <1>1, PublishEffect
<1> DEFINE Q1 == Add(Q, z, news)
           Q2 == Add(Q1, z, request)
<1>3. Q1 \in Queues /\ Q1[z] = Q[z] \o news /\ \A y \in Zones \ {z} : Q1[y] = Q[y]
  BY <1>2, QueuesType
<1>4. Q2 \in Queues /\ Q2[z] = Q1[z] \o request /\ \A y \in Zones \ {z} : Q2[y] = Q1[y]
  <2> HIDE DEF Q1
  <2> QED BY <1>1, <1>3, QueuesType
<1>5. Q[z] \in Seq(Message) /\ Q1[z] \in Seq(Message)
  <2> HIDE DEF Q1
  <2> QED BY <1>3 DEF Queues
<1> HIDE DEF Q1, Q2
<1>6. ASSUME NEW y \in Zones, NEW x, NEW b
      PROVE  Grants(Q2[y], x, b) <=> Grants(Q[y], x, b)
  <2>1. CASE y = z
    <3>1. Grants(Q2[z], x, b) <=> Grants(Q1[z], x, b)
      BY <1>1, <1>4, <1>5, GrantsConcat
    <3>2. Grants(Q1[z], x, b) <=> Grants(Q[z], x, b)
      BY <1>2, <1>3, <1>5, GrantsConcat DEF Neutral
    <3> QED BY <2>1, <3>1, <3>2
  <2> QED BY <1>3, <1>4, <2>1
<1>7. ASSUME NEW y \in Zones, NEW w \in Zones, NEW b,
             b \in pending_spillovers'[y][w],
             b \in pending_spillovers[y][w] => Behind(Q[y], w, b)
      PROVE  Behind(Q2[y], w, b)
  <2>1. CASE b \in pending_spillovers[y][w]
    <3>1. Behind(Q[y], w, b)
      BY <1>7, <2>1
    <3>2. CASE y = z
      <4>1. Behind(Q1[z], w, b)
        BY <1>2, <1>3, <1>5, <3>1, <3>2, BehindConcat DEF Neutral
      <4> QED BY <1>1, <1>4, <1>5, <3>2, <4>1, BehindConcat
    <3> QED BY <1>3, <1>4, <3>1, <3>2
  <2>2. CASE y = z /\ Has(request, "request", w)
    BY <1>1, <1>4, <1>5, <2>2, BehindConcat
  <2> QED BY <1>1, <1>7, <2>1, <2>2
<1>8. message_queue' = Add(Q2, z, reply)
  BY <1>2 DEF Q1, Q2
<1> QED BY <1>4, <1>6, <1>7, <1>8 DEF QuietlyAdded

\* Enqueuing messages that give nothing away, and dequeuing, as the operators
\* on single queues see it.
LEMMA AddQuiet ==
  ASSUME NEW Q \in Queues, NEW z \in Zones, NEW e \in Seq(Message),
         \A x, b : ~Grants(e, x, b), NEW y \in Zones, NEW w, NEW b
  PROVE  /\ Add(Q, z, e) \in Queues
         /\ Grants(Add(Q, z, e)[y], w, b) <=> Grants(Q[y], w, b)
         /\ Behind(Q[y], w, b) => Behind(Add(Q, z, e)[y], w, b)
<1>1. /\ Add(Q, z, e) \in Queues /\ Add(Q, z, e)[z] = Q[z] \o e
      /\ \A u \in Zones \ {z} : Add(Q, z, e)[u] = Q[u]
  BY QueuesType
<1>2. Q[z] \in Seq(Message)
  BY DEF Queues
<1>3. CASE y = z
  <2>1. Grants(Q[z] \o e, w, b) <=> Grants(Q[z], w, b)
    BY <1>2, GrantsConcat
  <2>2. Behind(Q[z], w, b) => Behind(Q[z] \o e, w, b)
    BY <1>2, BehindConcat
  <2> QED BY <1>1, <1>3, <2>1, <2>2
<1> QED BY <1>1, <1>3

LEMMA DropQuiet ==
  ASSUME NEW Q \in Queues, NEW z \in Zones, Q[z] # <<>>,
         NEW y \in Zones, NEW w, NEW b
  PROVE  /\ Drop(Q, z) \in Queues
         /\ Grants(Drop(Q, z)[y], w, b) => Grants(Q[y], w, b)
         /\ ~Gives(Head(Q[z]), w, b) /\ Grants(Q[y], w, b) => Grants(Drop(Q, z)[y], w, b)
         /\ Behind(Q[y], w, b) => Behind(Drop(Q, z)[y], w, b)
<1>1. /\ Drop(Q, z) \in Queues /\ Drop(Q, z)[z] = Tail(Q[z])
      /\ \A u \in Zones \ {z} : Drop(Q, z)[u] = Q[u]
  BY QueuesType, Empty
<1>2. Q[z] \in Seq(Message)
  BY DEF Queues
<1>3. CASE y = z
  <2>1. Grants(Q[z], w, b) <=> Gives(Head(Q[z]), w, b) \/ Grants(Tail(Q[z]), w, b)
    BY <1>2, GrantsTail
  <2>2. Behind(Q[z], w, b) => Behind(Tail(Q[z]), w, b)
    BY <1>2, BehindTail
  <2> QED BY <1>1, <1>3, <2>1, <2>2
<1> QED BY <1>1, <1>3

\* An accepting answer to t that is under way is to a pending request.
LEMMA GrantPending ==
  ASSUME IInv, NEW u \in Zones, NEW t \in Zones, NEW b,
         Grants(message_queue[u], t, b)
  PROVE  /\ Has(message_queue[u], "response", t)
         /\ b \in pending_spillovers[t][u] /\ b \in zone_bins[t]
<1>1. PICK i \in DOMAIN message_queue[u] : Gives(message_queue[u][i], t, b)
  BY DEF Grants
<1>2. Has(message_queue[u], "response", t)
  BY <1>1 DEF Gives, Has
<1>3. AllName(message_queue[u], "response", t, pending_spillovers[t][u])
  BY DEF IInv, AnswersMatch
<1>4. b \in pending_spillovers[t][u]
  BY <1>1, <1>3 DEF AllName, Gives, Names
<1> QED BY <1>2, <1>4 DEF IInv, OnlyOwnedBins

\* A zone that has accepted a bin and not yet answered keeps it: it is not
\* about to release it itself.
LEMMA GranterSettled ==
  ASSUME IInv, GranterOwns, AnswersFirst,
         NEW v \in Zones, NEW y \in Zones, NEW b \in Bins,
         Grants(message_queue[v], y, b)
  PROVE  v \in SettledOwners(b)
<1>1. b \in zone_bins[v]
  BY DEF GranterOwns
<1>2. ASSUME NEW x \in Zones, Grants(message_queue[x], v, b) PROVE FALSE
  <2>1. Has(message_queue[x], "response", v) /\ b \in pending_spillovers[v][x]
    BY <1>2, GrantPending
  <2>2. Behind(message_queue[v], x, b)
    BY <2>1 DEF AnswersFirst
  <2>3. Has(message_queue[v], "request", x)
    BY <2>2 DEF Behind, Grants, Has
  <2> QED BY <2>1, <2>3 DEF IInv, AnswersMatch
<1> QED BY <1>1, <1>2 DEF SettledOwners, Releasing

\* The request at the head of z's queue names no bin its receiver owns.
NewToReceiver(z) ==
  LET m == Head(message_queue[z]) IN m.bins \cap zone_bins[m.to] = {}

\* A request that is delivered: it is the pending one, of a settled owner.
LEMMA RequestAtHead ==
  ASSUME IInv, NEW z \in Zones, Waiting(z, "request")
  PROVE  LET q == message_queue[z]
             t == Head(q).to
         IN /\ 1 \in DOMAIN q /\ Is(q[1], "request", t) /\ Once(q, "request", t)
            /\ \A i \in DOMAIN q : i \in Nat \ {0}
            /\ t \in Zones /\ t # z
            /\ Head(q).bins \in SUBSET Bins /\ Head(q).bins # {}
            /\ Head(q).bins = pending_spillovers[z][t]
            /\ \A b \in Head(q).bins : z \in SettledOwners(b)
<1> DEFINE q == message_queue[z]
           m == Head(q)
           t == m.to
<1>1. /\ q \in Seq(Message) /\ q # <<>> /\ m.kind = "request"
      /\ t \in Zones /\ m.bins \in SUBSET Bins
  BY HeadType DEF RequestMsg, IInv
<1>2. 1 \in DOMAIN q /\ q[1] = m /\ \A i \in DOMAIN q : i \in Nat \ {0}
  BY <1>1
<1>3. Is(q[1], "request", t)
  BY <1>1, <1>2 DEF Is
<1>4. Has(q, "request", t)
  BY <1>2, <1>3 DEF Has
<1> HIDE DEF t, q
<1>5. /\ m.bins = pending_spillovers[z][t] /\ m.bins # {}
      /\ Once(q, "request", t)
  <2>1. /\ AllName(q, "request", t, pending_spillovers[z][t])
        /\ Once(q, "request", t) /\ pending_spillovers[z][t] # {}
    BY <1>1, <1>4 DEF IInv, AnswersMatch, q
  <2>2. Names(q[1], pending_spillovers[z][t])
    BY <1>2, <1>3, <2>1 DEF AllName
  <2>3. m.kind # "response"
    BY <1>1
  <2> QED BY <1>2, <2>1, <2>2, <2>3 DEF Names
<1>6. t # z
  BY <1>1, <1>5 DEF IInv, NoSelfRequest
<1>7. \A b \in m.bins : z \in SettledOwners(b)
  BY <1>1, <1>4, <1>5, AskerSettled DEF q
<1> QED BY <1>1, <1>2, <1>3, <1>5, <1>6, <1>7 DEF t, q

\* What the receiver is not about to release is new to it: the sender is the
\* settled owner.
LEMMA NotTakenIsNew ==
  ASSUME IInv, NEW z \in Zones, Waiting(z, "request"), NotTakenBack(z)
  PROVE  NewToReceiver(z)
<1> DEFINE m == Head(message_queue[z])
           t == m.to
<1>1. t \in Zones /\ t # z /\ \A b \in m.bins : b \in Bins /\ z \in SettledOwners(b)
  BY RequestAtHead
<1>2. \A b \in m.bins : ~Releasing(t, b)
  BY DEF NotTakenBack
<1> HIDE DEF t
<1>3. \A b \in m.bins : b \notin zone_bins[t]
  BY <1>1, <1>2 DEF IInv, AtMostOneSettledOwner, SettledOwners
<1> QED BY <1>3 DEF NewToReceiver, t

\* Nor is it about to release them when answers go out first: only the sender
\* can have taken the bin over from the receiver, and its answer would precede
\* the request.
LEMMA OfferNotTakenBack ==
  ASSUME IInv, OInv, NEW z \in Zones, Waiting(z, "request")
  PROVE  NotTakenBack(z)
<1> DEFINE q == message_queue[z]
           m == Head(q)
           t == m.to
<1>1. /\ 1 \in DOMAIN q /\ Is(q[1], "request", t) /\ Once(q, "request", t)
      /\ \A i \in DOMAIN q : i \in Nat \ {0}
      /\ t \in Zones /\ m.bins \in SUBSET Bins
      /\ m.bins = pending_spillovers[z][t]
      /\ \A b \in m.bins : z \in SettledOwners(b)
  BY RequestAtHead
<1> HIDE DEF t, q
<1> SUFFICES ASSUME NEW b, b \in m.bins, NEW v \in Zones,
                    Grants(message_queue[v], t, b)
             PROVE  FALSE
  BY DEF NotTakenBack, Releasing, t, q
<1>2. v = z
  <2>1. v \in SettledOwners(b)
    BY <1>1, GranterSettled DEF OInv
  <2> QED BY <1>1, <2>1 DEF IInv, AtMostOneSettledOwner
<1>3. PICK j \in DOMAIN q : Gives(q[j], t, b)
  BY <1>2 DEF Grants, q
<1>4. PICK i \in DOMAIN q : j < i /\ Is(q[i], "request", t)
  <2>1. Behind(q, t, b)
    BY <1>1 DEF OInv, AnswersFirst, q
  <2> QED BY <1>1, <1>3, <2>1 DEF Behind
<1>5. i = 1
  BY <1>1, <1>4 DEF Once
<1> QED BY <1>1, <1>3, <1>4, <1>5

\* A step that moves no bin and gives none away or takes it back.
LEMMA QuietKeeps ==
  ASSUME UNCHANGED zone_bins,
         \A y, x \in Zones : \A b \in Bins :
           Grants(message_queue'[y], x, b) <=> Grants(message_queue[y], x, b),
         OInv => \A y, w \in Zones : \A b \in Bins :
           b \in pending_spillovers'[y][w] => Behind(message_queue'[y], w, b)
  PROVE  Kept
<1>1. OInv => GranterOwns' /\ AnswersFirst'
  BY DEF OInv, GranterOwns, AnswersFirst
<1>2. AlwaysOwned => AlwaysOwned'
  BY DEF AlwaysOwned, SettledOwners, Releasing
<1> QED BY <1>1, <1>2 DEF OInv, Kept

\* update_state at the end of a handler that delivers nothing.
LEMMA UpdateKeepsOwners ==
  ASSUME TypeOK, NEW z \in Zones, NEW L \in SUBSET Bins,
         UpdateState(z, L, message_queue, <<>>), UNCHANGED zone_bins
  PROVE  Kept
<1>1. message_queue \in Queues /\ <<>> \in Seq(Message)
  BY Empty DEF TypeOK, Queues
<1>2. PICK Q2 \in Queues :
        /\ message_queue' = Add(Q2, z, <<>>)
        /\ \A y \in Zones : \A x, b :
             Grants(Q2[y], x, b) <=> Grants(message_queue[y], x, b)
        /\ \A y, w \in Zones : \A b :
             /\ b \in pending_spillovers'[y][w]
             /\ b \in pending_spillovers[y][w] => Behind(message_queue[y], w, b)
             => Behind(Q2[y], w, b)
  <2>1. QuietlyAdded(message_queue, z, <<>>)
    BY <1>1, UpdateOrder
  <2> QED BY <2>1 DEF QuietlyAdded
<1>3. \A y \in Zones : \A w, b :
        /\ Grants(message_queue'[y], w, b) <=> Grants(Q2[y], w, b)
        /\ Behind(Q2[y], w, b) => Behind(message_queue'[y], w, b)
  BY <1>1, <1>2, Empty, AddQuiet
<1>4. ASSUME OInv, NEW y \in Zones, NEW w \in Zones, NEW b \in Bins,
             b \in pending_spillovers'[y][w]
      PROVE  Behind(message_queue'[y], w, b)
  <2>1. b \in pending_spillovers[y][w] => Behind(message_queue[y], w, b)
    BY <1>4 DEF OInv, AnswersFirst
  <2> QED BY <1>2, <1>3, <1>4, <2>1
<1> QED BY <1>2, <1>3, <1>4, QuietKeeps

\* Delivering a message that gives nothing away, with at most a rejection in
\* answer.
LEMMA MovesKeepOwners ==
  ASSUME TypeOK, NEW z \in Zones, NEW t \in Zones,
         NEW e \in Seq(Message), \A x, b : ~Grants(e, x, b),
         message_queue[z] # <<>>,
         \A x, b : ~Gives(Head(message_queue[z]), x, b),
         message_queue' = Add(Drop(message_queue, z), t, e),
         \A y, w \in Zones : pending_spillovers'[y][w] \subseteq pending_spillovers[y][w],
         UNCHANGED zone_bins
  PROVE  Kept
<1> DEFINE Q1 == Drop(message_queue, z)
<1>1. message_queue \in Queues
  BY DEF TypeOK, Queues
<1>2. \A y \in Zones : \A w, b :
        /\ Q1 \in Queues
        /\ Grants(Q1[y], w, b) <=> Grants(message_queue[y], w, b)
        /\ Behind(message_queue[y], w, b) => Behind(Q1[y], w, b)
  BY <1>1, DropQuiet
<1>3. message_queue' = Add(Q1, t, e)
  OBVIOUS
<1> HIDE DEF Q1
<1>4. \A y \in Zones : \A w, b :
        /\ Grants(message_queue'[y], w, b) <=> Grants(Q1[y], w, b)
        /\ Behind(Q1[y], w, b) => Behind(message_queue'[y], w, b)
  BY <1>2, <1>3, AddQuiet
<1>5. ASSUME OInv, NEW y \in Zones, NEW w \in Zones, NEW b \in Bins,
             b \in pending_spillovers'[y][w]
      PROVE  Behind(message_queue'[y], w, b)
  BY <1>2, <1>4, <1>5 DEF OInv, AnswersFirst
<1> QED BY <1>2, <1>4, <1>5, QuietKeeps

\* A zone adopts bins that are new to it: it becomes their settled owner.
LEMMA AdoptKeepsOwners ==
  ASSUME IInv, NEW z \in Zones, AdoptRequest(z), NewToReceiver(z)
  PROVE  /\ OInv /\ KeepsAdopted => OInv'
         /\ AlwaysOwned => AlwaysOwned'
<1> DEFINE m == Head(message_queue[z])
           t == m.to
           S == m.bins
           L == overflowing \cap (zone_bins[t] \cup Adopted(t, S))
           Q1 == Drop(message_queue, z)
           answer == Acceptance(z, t, S)
           e == <<answer>>
<1>1. message_queue \in Queues /\ TypeOK
  BY DEF IInv, TypeOK, Queues
<1>2. /\ message_queue[z] # <<>> /\ Is(m, "request", t) /\ t \in Zones
      /\ S \in SUBSET Bins /\ Waiting(z, "request")
  BY HeadType DEF AdoptRequest, Waiting, Is, RequestMsg, IInv
<1>3. S \cap zone_bins[t] = {} /\ Adopted(t, S) = S
  <2>1. S \cap zone_bins[t] = {}
    BY DEF NewToReceiver
  <2> QED BY <2>1 DEF Adopted
<1>4. KeepsAdopted => \A u \in Zones : pending_spillovers'[t][u] \cap S = {}
  BY <1>3 DEF KeepsAdopted
<1>5. zone_bins' = [zone_bins EXCEPT ![t] = zone_bins[t] \cup S]
  BY <1>3 DEF AdoptRequest
<1>6. UpdateState(t, L, Q1, e) /\ L \in SUBSET Bins
  BY <1>1 DEF AdoptRequest, Popped, Drop, TypeOK
<1>7. e \in Seq(Message) /\ \A y, b : Grants(e, y, b) <=> y = z /\ b \in S
  <2>1. answer \in Message
    BY <1>2, MessageTypes DEF Acceptance
  <2>2. \A y, b : Gives(answer, y, b) <=> y = z /\ b \in S
    BY DEF Gives, Is, Acceptance, Response
  <2> HIDE DEF answer
  <2> QED BY <2>1, <2>2, Singleton
<1>8. z # t
  <2>1. z \in Zones /\ pending_spillovers[z][t] # {}
    <3>1. Has(message_queue[z], "request", t)
      BY <1>1, <1>2, HasTail DEF Queues
    <3> QED BY <1>2, <3>1 DEF IInv, AnswersMatch
  <2> QED BY <2>1 DEF IInv, NoSelfRequest
<1>9. \A y \in Zones : \A w, b :
        /\ Q1 \in Queues
        /\ Grants(Q1[y], w, b) <=> Grants(message_queue[y], w, b)
        /\ Behind(message_queue[y], w, b) => Behind(Q1[y], w, b)
  <2>1. \A x, b : ~Gives(m, x, b)
    BY <1>2 DEF Gives, Is
  <2> QED BY <1>1, <1>2, <2>1, DropQuiet
<1> HIDE DEF t, S, L, Q1, e
<1>10. PICK Q2 \in Queues :
         /\ message_queue' = Add(Q2, t, e)
         /\ \A y \in Zones : \A x, b : Grants(Q2[y], x, b) <=> Grants(Q1[y], x, b)
         /\ \A y, w \in Zones : \A b :
              /\ b \in pending_spillovers'[y][w]
              /\ b \in pending_spillovers[y][w] => Behind(Q1[y], w, b)
              => Behind(Q2[y], w, b)
  <2>1. QuietlyAdded(Q1, t, e)
    BY <1>1, <1>2, <1>6, <1>7, <1>9, UpdateOrder
  <2> QED BY <2>1 DEF QuietlyAdded
<1>11. /\ message_queue'[t] = Q2[t] \o e /\ Q2[t] \in Seq(Message)
       /\ \A y \in Zones \ {t} : message_queue'[y] = Q2[y]
  <2>1. t \in Zones /\ e \in Seq(Message) /\ message_queue' = Add(Q2, t, e)
    BY <1>2, <1>7, <1>10
  <2>2. /\ Add(Q2, t, e)[t] = Q2[t] \o e
        /\ \A y \in Zones \ {t} : Add(Q2, t, e)[y] = Q2[y]
    BY <2>1, QueuesType
  <2>3. Q2[t] \in Seq(Message)
    BY <2>1 DEF Queues
  <2> QED BY <2>1, <2>2, <2>3
<1>12. ASSUME NEW y \in Zones, NEW x, NEW b
       PROVE  Grants(message_queue'[y], x, b)
                <=> Grants(message_queue[y], x, b) \/ (y = t /\ x = z /\ b \in S)
  <2>1. Grants(Q2[y], x, b) <=> Grants(message_queue[y], x, b)
    BY <1>9, <1>10
  <2>2. Grants(Q2[t] \o e, x, b) <=> Grants(Q2[t], x, b) \/ Grants(e, x, b)
    BY <1>7, <1>11, GrantsConcat
  <2> QED BY <1>7, <1>11, <2>1, <2>2
<1>13. \A y \in Zones : zone_bins'[y] = IF y = t THEN zone_bins[y] \cup S ELSE zone_bins[y]
  BY <1>1, <1>2, <1>5 DEF TypeOK
<1>14. OInv => GranterOwns'
  BY <1>12, <1>13 DEF OInv, GranterOwns
<1>15. OInv /\ KeepsAdopted => AnswersFirst'
  <2> SUFFICES ASSUME OInv, KeepsAdopted, NEW y \in Zones, NEW w \in Zones, NEW b \in Bins,
                      b \in pending_spillovers'[y][w]
               PROVE  Behind(message_queue'[y], w, b)
    BY DEF AnswersFirst
  <2>1. Behind(Q2[y], w, b)
    BY <1>9, <1>10 DEF OInv, AnswersFirst
  <2>2. CASE y = t
    <3>1. \A x : ~Grants(e, x, b)
      BY <1>4, <1>7, <2>2
    <3> QED BY <1>7, <1>11, <2>1, <2>2, <3>1, BehindConcat
  <2> QED BY <1>11, <2>1, <2>2
<1>16. AlwaysOwned => AlwaysOwned'
  <2> SUFFICES ASSUME AlwaysOwned, NEW b \in Bins
               PROVE  \E y \in Zones : y \in SettledOwners(b)'
    BY DEF AlwaysOwned
  <2>1. CASE b \in S
    <3>1. ASSUME NEW u \in Zones, Grants(message_queue'[u], t, b) PROVE FALSE
      <4>1. Grants(message_queue[u], t, b)
        BY <1>8, <1>12, <3>1
      <4>2. b \in zone_bins[t]
        BY <1>2, <4>1, GrantPending
      <4> QED BY <1>3, <2>1, <4>2
    <3>2. t \in SettledOwners(b)'
      BY <1>2, <1>13, <2>1, <3>1 DEF SettledOwners, Releasing
    <3> QED BY <1>2, <3>2
  <2>2. CASE b \notin S
    <3>1. PICK y \in Zones : y \in SettledOwners(b)
      BY DEF AlwaysOwned
    <3>2. y \in SettledOwners(b)'
      BY <1>12, <1>13, <2>2, <3>1 DEF SettledOwners, Releasing
    <3> QED BY <3>2
  <2> QED BY <2>1, <2>2
<1> QED BY <1>14, <1>15, <1>16 DEF OInv

\* A zone releases bins: it was not their settled owner any more, and has
\* given none of them away itself.
LEMMA ReleaseKeepsOwners ==
  ASSUME IInv, NEW t \in Zones, ReceiveAccept(t)
  PROVE  Kept
<1> DEFINE m == Head(message_queue[t])
           z == m.to
           S == m.bins
           L == overflowing_bins[z] \ S
           Q1 == Drop(message_queue, t)
<1>1. message_queue \in Queues /\ TypeOK
  BY DEF IInv, TypeOK, Queues
<1>2. /\ message_queue[t] # <<>> /\ Is(m, "response", z) /\ z \in Zones
      /\ m.accepted /\ S \in SUBSET Bins
      /\ pending_spillovers' = [pending_spillovers EXCEPT ![z][t] = {}]
      /\ zone_bins' = [zone_bins EXCEPT ![z] = @ \ S]
      /\ Publish(z, L, Q1, <<>>, <<>>)
  BY HeadType
  DEF ReceiveAccept, Waiting, Is, ResponseMsg, Popped, Drop, Resolved,
      Released, IInv
<1>3. \A y \in Zones : \A w, b :
        /\ Q1 \in Queues
        /\ Grants(Q1[y], w, b) => Grants(message_queue[y], w, b)
        /\ Behind(message_queue[y], w, b) => Behind(Q1[y], w, b)
  BY <1>1, <1>2, DropQuiet
<1>4. \A b \in S : Grants(message_queue[t], z, b)
  <2>1. \A b \in S : Gives(m, z, b)
    BY <1>2 DEF Gives
  <2>2. message_queue[t] \in Seq(Message)
    BY <1>1 DEF Queues
  <2> QED BY <1>2, <2>1, <2>2, GrantsTail
<1>5. L \in SUBSET Bins /\ <<>> \in Seq(Message)
  BY <1>1, <1>2, Empty DEF TypeOK
<1> HIDE DEF z, S, L, Q1
<1>6. PICK news \in Seq(Message) :
        /\ Neutral(news)
        /\ message_queue' = Add(Add(Add(Q1, z, news), z, <<>>), z, <<>>)
  BY <1>1, <1>2, <1>3, <1>5, PublishEffect
<1>7. \A y \in Zones : \A w, b :
        /\ Grants(message_queue'[y], w, b) <=> Grants(Q1[y], w, b)
        /\ Behind(Q1[y], w, b) => Behind(message_queue'[y], w, b)
  <2> DEFINE N1 == Add(Q1, z, news)
             N2 == Add(N1, z, <<>>)
  <2>1. \A x, b : ~Grants(<<>>, x, b) /\ ~Grants(news, x, b)
    BY <1>6, Empty DEF Neutral
  <2>2. \A y \in Zones : \A w, b :
          /\ N1 \in Queues
          /\ Grants(N1[y], w, b) <=> Grants(Q1[y], w, b)
          /\ Behind(Q1[y], w, b) => Behind(N1[y], w, b)
    BY <1>2, <1>3, <1>6, <2>1, AddQuiet
  <2> HIDE DEF N1
  <2>3. \A y \in Zones : \A w, b :
          /\ N2 \in Queues
          /\ Grants(N2[y], w, b) <=> Grants(N1[y], w, b)
          /\ Behind(N1[y], w, b) => Behind(N2[y], w, b)
    BY <1>2, <1>5, <2>1, <2>2, AddQuiet
  <2>4. message_queue' = Add(N2, z, <<>>)
    BY <1>6 DEF N1
  <2> HIDE DEF N2
  <2> QED BY <1>2, <1>5, <2>1, <2>2, <2>3, <2>4, AddQuiet
<1>8. \A y \in Zones : zone_bins'[y] = IF y = z THEN zone_bins[y] \ S ELSE zone_bins[y]
  BY <1>1, <1>2 DEF TypeOK
<1>9. \A b \in S : b \in Bins /\ z \notin SettledOwners(b)
  BY <1>2, <1>4 DEF SettledOwners, Releasing
<1>10. OInv => GranterOwns'
  <2> SUFFICES ASSUME OInv, NEW v \in Zones, NEW y \in Zones, NEW b \in Bins,
                      Grants(message_queue'[v], y, b)
               PROVE  b \in zone_bins'[v]
    BY DEF GranterOwns
  <2>1. Grants(message_queue[v], y, b)
    BY <1>3, <1>7
  <2>2. v \in SettledOwners(b)
    BY <2>1, GranterSettled DEF OInv
  <2>3. b \in zone_bins[v] /\ ~(v = z /\ b \in S)
    BY <1>9, <2>2 DEF SettledOwners
  <2> QED BY <1>8, <2>3
<1>11. OInv => AnswersFirst'
  <2> SUFFICES ASSUME OInv, NEW y \in Zones, NEW w \in Zones, NEW b \in Bins,
                      b \in pending_spillovers'[y][w]
               PROVE  Behind(message_queue'[y], w, b)
    BY DEF AnswersFirst
  <2>1. b \in pending_spillovers[y][w]
    BY <1>1, <1>2 DEF TypeOK
  <2> QED BY <1>3, <1>7, <2>1 DEF OInv, AnswersFirst
<1>12. AlwaysOwned => AlwaysOwned'
  <2> SUFFICES ASSUME AlwaysOwned, NEW b \in Bins
               PROVE  \E y \in Zones : y \in SettledOwners(b)'
    BY DEF AlwaysOwned
  <2>1. PICK y \in Zones : y \in SettledOwners(b)
    BY DEF AlwaysOwned
  <2>2. b \in zone_bins'[y]
    BY <1>8, <1>9, <2>1 DEF SettledOwners
  <2>3. \A u \in Zones : ~Grants(message_queue'[u], y, b)
    BY <1>3, <1>7, <2>1 DEF SettledOwners, Releasing
  <2>4. y \in SettledOwners(b)'
    BY <2>2, <2>3 DEF SettledOwners, Releasing
  <2> QED BY <2>4
<1> QED BY <1>10, <1>11, <1>12 DEF OInv, Kept
\* No reply is nothing to add.
LEMMA NoReply ==
  ASSUME NEW Q \in Queues, NEW z \in Zones
  PROVE  Q = Add(Q, z, <<>>)
  BY DEF Queues, Add

LEMMA OwnersInit == Init => OInv /\ AlwaysOwned
<1> SUFFICES ASSUME Init PROVE OInv /\ AlwaysOwned
  OBVIOUS
<1>1. ASSUME NEW v \in Zones, NEW z, NEW b PROVE ~Grants(message_queue[v], z, b)
  BY Empty DEF Init
<1>2. AnswersFirst
  BY DEF Init, AnswersFirst
<1>3. AlwaysOwned
  <2>1. \A b \in Bins : Home[b] \in Zones /\ b \in zone_bins[Home[b]]
    BY HomeAssumption DEF Init
  <2> QED BY <1>1, <2>1 DEF AlwaysOwned, SettledOwners, Releasing
<1> QED BY <1>1, <1>2, <1>3 DEF OInv, GranterOwns

LEMMA OwnersStep ==
  ASSUME IInv, [Next]_vars
  PROVE  /\ OInv /\ [KeepsAdopted]_vars => OInv'
         /\ AlwaysOwned /\ [NeverTakesBack]_vars => AlwaysOwned'
<1>0. TypeOK
  BY DEF IInv
<1>1. ASSUME UNCHANGED <<zone_bins, pending_spillovers, message_queue>> PROVE Kept
  BY <1>1 DEF Kept, OInv, AnswersFirst, GranterOwns, AlwaysOwned,
              SettledOwners, Releasing
<1>2. ASSUME NEW b \in Bins, Overflow(b) PROVE Kept
  <2> DEFINE z == zone_id[b]
             L == (overflowing \cup {b}) \cap zone_bins[z]
  <2>1. z \in Zones /\ L \in SUBSET Bins
    BY <1>0 DEF TypeOK
  <2>2. UpdateState(z, L, message_queue, <<>>) /\ UNCHANGED zone_bins
    BY <1>2 DEF Overflow
  <2> HIDE DEF z, L
  <2> QED BY <1>0, <2>1, <2>2, UpdateKeepsOwners
<1>3. ASSUME NEW z \in Zones, ExecuteRoute(z) PROVE Kept
  <2>1. Unlisted(z) \in SUBSET Bins
    BY <1>0 DEF TypeOK, Unlisted
  <2>2. UpdateState(z, Unlisted(z), message_queue, <<>>) /\ UNCHANGED zone_bins
    BY <1>3 DEF ExecuteRoute
  <2> QED BY <1>0, <2>1, <2>2, UpdateKeepsOwners
<1>4. ASSUME NEW z \in Zones, UpdateZoneState(z) PROVE Kept
  <2>1. overflowing_bins[z] \in SUBSET Bins
    BY <1>0 DEF TypeOK
  <2>2. /\ UpdateState(z, overflowing_bins[z], message_queue, <<>>)
        /\ UNCHANGED zone_bins
    BY <1>4 DEF UpdateZoneState, nodeVars
  <2> QED BY <1>0, <2>1, <2>2, UpdateKeepsOwners
<1>5. ASSUME NEW z \in Zones, ReceiveState(z) PROVE Kept
  <2>1. /\ message_queue[z] # <<>> /\ Head(message_queue[z]).kind = "state"
        /\ message_queue' = Drop(message_queue, z)
        /\ UNCHANGED <<zone_bins, pending_spillovers>>
    BY <1>5 DEF ReceiveState, Waiting, Popped, Drop, nodeVars, spillVars
  <2>2. Drop(message_queue, z) = Add(Drop(message_queue, z), z, <<>>)
    <3>1. message_queue \in Queues
      BY <1>0 DEF TypeOK, Queues
    <3> QED BY <2>1, <3>1, DropQuiet, NoReply
  <2>3. \A x, b : ~Gives(Head(message_queue[z]), x, b)
    BY <2>1 DEF Gives, Is
  <2> QED BY <1>0, <2>1, <2>2, <2>3, Empty, MovesKeepOwners
<1>6. ASSUME NEW t \in Zones, ReceiveReject(t) PROVE Kept
  <2> DEFINE z == Head(message_queue[t]).to
  <2>1. /\ message_queue[t] # <<>> /\ ~Head(message_queue[t]).accepted
        /\ message_queue' = Drop(message_queue, t)
        /\ pending_spillovers' = Resolved(z, t)
        /\ UNCHANGED zone_bins
    BY <1>6 DEF ReceiveReject, Waiting, Popped, Drop, nodeVars
  <2>2. \A y, w \in Zones : pending_spillovers'[y][w] \subseteq pending_spillovers[y][w]
    BY <1>0, <2>1 DEF Resolved, TypeOK
  <2>3. Drop(message_queue, t) = Add(Drop(message_queue, t), t, <<>>)
    <3>1. message_queue \in Queues
      BY <1>0 DEF TypeOK, Queues
    <3> QED BY <2>1, <3>1, DropQuiet, NoReply
  <2>4. \A x, b : ~Gives(Head(message_queue[t]), x, b)
    BY <2>1 DEF Gives
  <2> QED BY <1>0, <2>1, <2>2, <2>3, <2>4, Empty, MovesKeepOwners
<1>7. ASSUME NEW z \in Zones, RejectRequest(z) PROVE Kept
  <2> DEFINE t == Head(message_queue[z]).to
             answer == Response(z, FALSE, {})
  <2>1. /\ message_queue[z] # <<>> /\ Head(message_queue[z]).kind = "request"
        /\ t \in Zones
        /\ UNCHANGED <<zone_bins, pending_spillovers>>
    BY <1>0, <1>7, HeadType
    DEF RejectRequest, Waiting, RequestMsg, nodeVars, spillVars
  <2>2. answer \in Message /\ \A x, b : ~Gives(answer, x, b)
    BY MessageTypes DEF Gives, Response
  <2>3. message_queue' = Add(Drop(message_queue, z), t, <<answer>>)
    BY <1>7 DEF RejectRequest, Popped, Drop, Add
  <2> HIDE DEF answer, t
  <2>4. <<answer>> \in Seq(Message) /\ \A x, b : ~Grants(<<answer>>, x, b)
    BY <2>2, Singleton
  <2>5. \A x, b : ~Gives(Head(message_queue[z]), x, b)
    BY <2>1 DEF Gives, Is
  <2> QED BY <1>0, <2>1, <2>3, <2>4, <2>5, MovesKeepOwners
<1>8. ASSUME NEW z \in Zones, AcceptOwned(z) \/ AdoptRequest(z),
             OInv \/ NeverTakesBack
      PROVE  NewToReceiver(z)
  <2>1. Waiting(z, "request")
    BY <1>8 DEF AcceptOwned, AdoptRequest
  <2>2. NotTakenBack(z)
    BY <1>8, <2>1, OfferNotTakenBack DEF NeverTakesBack
  <2> QED BY <2>1, <2>2, NotTakenIsNew
<1>9. ASSUME NEW z \in Zones, AcceptOwned(z), OInv \/ NeverTakesBack PROVE FALSE
  <2> DEFINE m == Head(message_queue[z])
             t == m.to
  <2>1. Waiting(z, "request") /\ Adopted(t, m.bins) = {}
    BY <1>9 DEF AcceptOwned
  <2>2. m.bins = {}
    BY <1>8, <1>9, <2>1 DEF NewToReceiver, Adopted
  <2> QED BY <2>1, <2>2, RequestAtHead
<1>10. ASSUME NEW z \in Zones, AdoptRequest(z)
       PROVE  /\ OInv /\ KeepsAdopted => OInv'
              /\ AlwaysOwned /\ NeverTakesBack => AlwaysOwned'
  BY <1>8, <1>10, AdoptKeepsOwners
<1>11. ASSUME NEW z \in Zones, ReceiveAccept(z) PROVE Kept
  BY <1>11, ReleaseKeepsOwners
<1>12. CASE UNCHANGED vars
  <2>1. Kept
    BY <1>1, <1>12 DEF vars, nodeVars, spillVars
  <2> QED BY <2>1 DEF Kept
<1>13. ASSUME NEW z \in Zones, OperationLoop(z) PROVE Kept
  BY <1>1, <1>3, <1>4, <1>13
  DEF OperationLoop, Dispatch, NothingToPlan, nodeVars, spillVars
<1>14. ASSUME NEW b \in Bins, Environment(b) PROVE Kept
  BY <1>1, <1>2, <1>14 DEF Environment, EmptyBin, spillVars
<1>15. ASSUME NEW z \in Zones, Deliver(z)
       PROVE  /\ OInv /\ KeepsAdopted => OInv'
              /\ AlwaysOwned /\ NeverTakesBack => AlwaysOwned'
  BY <1>5, <1>6, <1>7, <1>9, <1>10, <1>11, <1>15 DEF Deliver, Kept
<1>16. CASE Next
  <2>1. \/ Kept
        \/ \E z \in Zones : Deliver(z)
    BY <1>13, <1>14, <1>16, BoundsAssumption DEF Next
  <2>2. /\ OInv /\ KeepsAdopted => OInv'
        /\ AlwaysOwned /\ NeverTakesBack => AlwaysOwned'
    BY <1>15, <2>1 DEF Kept
  <2> QED BY <1>12, <2>2
<1> QED BY <1>12, <1>16

\* Answers go out before what was adopted is offered on.
LEMMA OrderAlways == Spec /\ [][KeepsAdopted]_vars => []OInv
<1>1. IInv /\ OInv /\ [Next]_vars /\ [KeepsAdopted]_vars => OInv'
  BY OwnersStep
<1> QED BY <1>1, InvAlways, OwnersInit, PTL DEF Spec

\* Every bin keeps a settled owner.
LEMMA OwnedAlways == Spec /\ [][NeverTakesBack]_vars => []AlwaysOwned
<1>1. IInv /\ AlwaysOwned /\ [Next]_vars /\ [NeverTakesBack]_vars => AlwaysOwned'
  BY OwnersStep
<1> QED BY <1>1, InvAlways, OwnersInit, PTL DEF Spec

OneSettledOwner == \A b \in Bins : \E z \in Zones : SettledOwners(b) = {z}

\* As long as no zone takes back a bin it is about to release, every bin has
\* exactly one owner that is not about to release it, in any order of delivery
\* and however transfers chain (receive_spillover_request).
THEOREM AlwaysOneSettledOwner == Spec /\ [][NeverTakesBack]_vars => []OneSettledOwner
<1>1. IInv /\ AlwaysOwned => OneSettledOwner
  <2> SUFFICES ASSUME IInv, AlwaysOwned, NEW b \in Bins
               PROVE  \E z \in Zones : SettledOwners(b) = {z}
    BY DEF OneSettledOwner
  <2>1. PICK z \in Zones : z \in SettledOwners(b)
    BY DEF AlwaysOwned
  <2>2. \A y \in SettledOwners(b) : y = z
    BY <2>1 DEF IInv, AtMostOneSettledOwner
  <2> QED BY <2>1, <2>2
<1> QED BY <1>1, InvAlways, OwnedAlways, PTL

\* So a bin is orphaned only after a zone has taken back what it was about to
\* release (receive_spillover_request accepts without looking at what the zone
\* itself has offered).
THEOREM OrphanNeedsTakeBack == ThreadSpec /\ [][NeverTakesBack]_vars => []NoOrphanBin
<1>1. OneSettledOwner => NoOrphanBin
  BY DEF OneSettledOwner, NoOrphanBin, SettledOwners
<1> QED BY <1>1, ThreadImplementsSpillover, AlwaysOneSettledOwner, PTL

\* And a zone is offered such a bin only after a handler has offered on what
\* it adopts, ahead of its own answer (_handle_spillover_adopted).
THEOREM OrphanNeedsOfferOn == ThreadSpec /\ [][KeepsAdopted]_vars => []NoOrphanBin
<1>1. IInv /\ OInv => NeverTakesBack
  BY OfferNotTakenBack DEF NeverTakesBack, AdoptRequest, AcceptOwned
<1>2. Spec /\ [][KeepsAdopted]_vars => [][NeverTakesBack]_vars
  BY <1>1, InvAlways, OrderAlways, PTL
<1> QED BY <1>2, ThreadImplementsSpillover, OrphanNeedsTakeBack, PTL

\* The list of a zone that has adopted bins is within the threshold.
RoomHolds ==
  \A z \in Zones : AdoptRequest(z) =>
    Cardinality(overflowing_bins'[Head(message_queue[z]).to]) <= Threshold

\* And it does so only where the room for the bins was misjudged: no bin is
\* lost as long as the load can_accept goes by, the one last published, leaves
\* room for all that overflows in the zone after the adoption.
THEOREM OrphanNeedsMisjudgedRoom == ThreadSpec /\ [][RoomHolds]_vars => []NoOrphanBin
<1>1. IInv /\ [RoomHolds]_vars => [KeepsAdopted]_vars
  <2> SUFFICES ASSUME IInv, RoomHolds, NEW z \in Zones, AdoptRequest(z),
                      NEW u \in Zones
               PROVE  LET m == Head(message_queue[z])
                      IN  pending_spillovers'[m.to][u] \cap Adopted(m.to, m.bins) = {}
    BY DEF KeepsAdopted
  <2> DEFINE m == Head(message_queue[z])
             t == m.to
             L == overflowing \cap (zone_bins[t] \cup Adopted(t, m.bins))
             Q1 == Popped(z)
             e == <<Acceptance(z, t, m.bins)>>
  <2>1. t \in Zones /\ L \in SUBSET Bins /\ TypeOK
    BY HeadType DEF AdoptRequest, RequestMsg, IInv, TypeOK
  <2>2. UpdateState(t, L, Q1, e)
    BY DEF AdoptRequest
  <2>3. Cardinality(overflowing_bins'[t]) <= Threshold
    BY DEF RoomHolds
  <2> HIDE DEF t, L, Q1, e
  <2>4. overflowing_bins'[t] = L
    <3>1. overflowing_bins' = [overflowing_bins EXCEPT ![t] = L]
      BY <2>2 DEF UpdateState, NoSpillover, InitiateSpillover, Publish
    <3> QED BY <2>1, <3>1 DEF TypeOK
  <2>5. ~Overloaded(Cardinality(L))
    BY <2>1, <2>3, <2>4, LoadType, ThresholdAssumption DEF Overloaded
  <2>6. UNCHANGED pending_spillovers
    BY <2>2, <2>5 DEF UpdateState, NoSpillover, InitiateSpillover, Initiates
  <2>7. pending_spillovers[t][u] \cap Adopted(t, m.bins) = {}
    BY <2>1 DEF IInv, OnlyOwnedBins, Adopted
  <2> QED BY <2>6, <2>7 DEF t
<1>2. ThreadSpec => []IInv
  BY ThreadImplementsSpillover, InvAlways
<1>3. ThreadSpec /\ [][RoomHolds]_vars => [][KeepsAdopted]_vars
  BY <1>1, <1>2, PTL
<1> QED BY <1>3, OrphanNeedsOfferOn
=============================================================================
