----------------------- MODULE InvitationElectionProofs -----------------------
(***************************************************************************)
(* Proofs about InvitationElection, for any number of nodes.               *)
(*                                                                         *)
(* A leader everybody follows stays one (SettledAlwaysStays), whatever     *)
(* timers, heartbeats and deliveries do, and nobody ever leads a group     *)
(* with a higher node in it (LeaderAlwaysHighest): each inductive given    *)
(* the types.  So is that every invitation is answered and counted at most *)
(* once (AlwaysAnsweredOnce).  Two leaders take two nodes that begin       *)
(* elections (SplitNeedsTwoInitiators), and calls for the highest node     *)
(* make no other node begin one (HighestAloneInOffice).                    *)
(***************************************************************************)
EXTENDS InvitationElection, FiniteSetTheorems, TLAPS

-----------------------------------------------------------------------------
(***************************************************************************)
(* Messages and queues.                                                    *)
(***************************************************************************)

LEMMA MsgType ==
  ASSUME NEW type \in Types, NEW n \in Nodes, NEW m \in Nodes
  PROVE  /\ Msg(type, n, m) \in Message
         /\ Msg(type, n, m).type = type /\ Msg(type, n, m).from = n
  BY DEF Msg, Message

\* A broadcast is a queue of messages of its type and sender.
LEMMA BroadcastType ==
  ASSUME NEW type \in Types, NEW n \in Nodes
  PROVE  /\ Broadcast(type, n) \in Seq(Message)
         /\ \A i \in DOMAIN Broadcast(type, n) :
              /\ Broadcast(type, n)[i].type = type
              /\ Broadcast(type, n)[i].from = n
<1>1. Peers[n] \in Seq(Nodes)
  BY PeersAssumption
<1>2. \A i \in 1 .. Len(Peers[n]) : Peers[n][i] \in Nodes
  BY <1>1
<1>3. \A i \in 1 .. Len(Peers[n]) :
        /\ Msg(type, n, Peers[n][i]) \in Message
        /\ Msg(type, n, Peers[n][i]).type = type
        /\ Msg(type, n, Peers[n][i]).from = n
  BY <1>2, MsgType
<1>4. DOMAIN Peers[n] = 1 .. Len(Peers[n]) /\ Len(Peers[n]) \in Nat
  BY <1>1
<1>5. Broadcast(type, n) = [i \in 1 .. Len(Peers[n]) |-> Msg(type, n, Peers[n][i])]
  BY <1>4 DEF Broadcast
<1> QED BY <1>3, <1>4, <1>5

\* Sending keeps the type of the outboxes.
LEMMA SendType ==
  ASSUME outbox \in [Nodes -> Seq(Message)], NEW n \in Nodes,
         NEW e \in Seq(Message), Send(n, e)
  PROVE  outbox' \in [Nodes -> Seq(Message)]
<1>1. outbox[n] \o e \in Seq(Message)
  OBVIOUS
<1> QED BY <1>1 DEF Send

\* The first message of a queue, and the others.
LEMMA FirstInHand ==
  ASSUME NEW q \in Seq(Message), q # <<>>
  PROVE  /\ Head(q) \in Message /\ Head(q) = q[1] /\ 1 \in DOMAIN q
         /\ Tail(q) \in Seq(Message)
         /\ \A i \in DOMAIN Tail(q) : i + 1 \in DOMAIN q /\ Tail(q)[i] = q[i + 1]
  OBVIOUS

\* The thread's position stays within the roster.
LEMMA VisitType ==
  /\ 0 \in 0 .. Len(Roster) /\ 1 \in 0 .. Len(Roster)
  /\ \A th \in Threads :
       visit \in [Threads -> 0 .. Len(Roster)] => VisitAfter(th) \in 0 .. Len(Roster)
<1>1. Roster \in Seq(Nodes) /\ Nodes # {}
  BY NodesAssumption, RosterAssumption
<1>2. Len(Roster) \in Nat /\ Len(Roster) # 0
  <2>1. PICK n \in Nodes : TRUE
    BY <1>1
  <2>2. PICK i \in DOMAIN Roster : n = Roster[i]
    BY <2>1, RosterAssumption
  <2> QED BY <1>1, <2>2
<1> QED BY <1>2 DEF VisitAfter

-----------------------------------------------------------------------------
(***************************************************************************)
(* Type correctness.                                                       *)
(***************************************************************************)

LEMMA InitType == Init => TypeOK
<1>1. <<>> \in Seq(Message)
  OBVIOUS
<1> QED BY <1>1, VisitType DEF Init, TypeOK, States, Nobody

LEMMA CandidacyType ==
  ASSUME TypeOK, NEW n \in Nodes, Candidacy(n)
  PROVE  /\ state' \in [Nodes -> States]
         /\ group_members' \in [Nodes -> SUBSET Nodes]
         /\ term' \in [Nodes -> Nat] /\ timers' \in [Nodes -> Nat]
         /\ outbox' \in [Nodes -> Seq(Message)]
<1>1. outbox' \in [Nodes -> Seq(Message)]
  BY BroadcastType, SendType DEF TypeOK, Candidacy, Types
<1>2. state' \in [Nodes -> States] /\ group_members' \in [Nodes -> SUBSET Nodes]
  BY DEF TypeOK, Candidacy, States
<1>3. term' \in [Nodes -> Nat] /\ timers' \in [Nodes -> Nat]
  BY DEF TypeOK, Candidacy
<1> QED BY <1>1, <1>2, <1>3

LEMMA DecideType ==
  ASSUME TypeOK, NEW n \in Nodes, NEW G,
         \/ DecideLeadership(n, G)
         \/ UNCHANGED <<state, leader_id, outbox, leaderVars>>
  PROVE  /\ state' \in [Nodes -> States]
         /\ leader_id' \in [Nodes -> Nobody \cup Someone]
         /\ outbox' \in [Nodes -> Seq(Message)]
         /\ current_leader' \in Nobody \cup Someone
         /\ is_leader' \in [Nodes -> BOOLEAN]
<1>1. CASE UNCHANGED <<state, leader_id, outbox, leaderVars>>
  BY <1>1 DEF TypeOK, leaderVars
<1>2. CASE BecomeLeader(n)
  <2>1. outbox' \in [Nodes -> Seq(Message)]
    BY <1>2, BroadcastType, SendType DEF TypeOK, BecomeLeader, Types
  <2>2. {n} \in Someone
    BY DEF Someone
  <2> QED BY <1>2, <2>1, <2>2 DEF TypeOK, BecomeLeader, States
<1> QED BY <1>1, <1>2 DEF DecideLeadership

\* The hand and the position of a thread that handed out a message.
LEMMA HandedType ==
  ASSUME TypeOK, NEW th \in Threads, hand[th] # <<>>, Handed(th)
  PROVE  /\ visit' \in [Threads -> 0 .. Len(Roster)]
         /\ hand' \in [Threads -> Seq(Message)]
         /\ Head(hand[th]) \in Message
         /\ Head(hand[th]).from \in Nodes /\ Head(hand[th]).to \in Nodes
<1>1. hand[th] \in Seq(Message)
  BY DEF TypeOK
<1>2. Head(hand[th]) \in Message /\ Tail(hand[th]) \in Seq(Message)
  BY <1>1, FirstInHand
<1>3. Head(hand[th]).from \in Nodes /\ Head(hand[th]).to \in Nodes
  BY <1>2 DEF Message
<1>4. hand' \in [Threads -> Seq(Message)]
  BY <1>2 DEF TypeOK, Handed
<1> QED BY <1>2, <1>3, <1>4 DEF TypeOK, Handed

LEMMA ReceiveType ==
  ASSUME TypeOK, NEW th \in Threads, Receive(th)
  PROVE  TypeOK'
<1> DEFINE m == Head(hand[th])
           n == Head(hand[th]).to
<1>0. hand[th] # <<>> /\ Handed(th)
  BY DEF Receive, AcceptInvitation, RejectInvitation, ReceiveAccept,
         ReceiveReject, IgnoreAnswer, FollowLeader, IgnoreLeader, InHand
<1>1. /\ visit' \in [Threads -> 0 .. Len(Roster)]
      /\ hand' \in [Threads -> Seq(Message)]
      /\ m \in Message /\ m.from \in Nodes /\ n \in Nodes
  BY <1>0, HandedType
<1>2. {m.from} \in Someone
  BY <1>1 DEF Someone
<1> HIDE DEF m, n
<1>3. CASE AcceptInvitation(th)
  <2>1. <<Msg("ACCEPT", n, m.from)>> \in Seq(Message)
    BY <1>1, MsgType DEF Types
  <2>2. outbox' \in [Nodes -> Seq(Message)]
    BY <1>1, <1>3, <2>1, SendType DEF TypeOK, AcceptInvitation, m, n
  <2> QED BY <1>1, <1>2, <1>3, <2>2
          DEF TypeOK, AcceptInvitation, States, m, n, countVars, leaderVars
<1>4. CASE RejectInvitation(th)
  <2>1. <<Msg("REJECT", n, m.from)>> \in Seq(Message)
    BY <1>1, MsgType DEF Types
  <2>2. outbox' \in [Nodes -> Seq(Message)]
    BY <1>1, <1>4, <2>1, SendType DEF TypeOK, RejectInvitation, m, n
  <2>3. invitations_rejected' \in [Nodes -> Nat]
    BY <1>1, <1>4 DEF TypeOK, RejectInvitation, m, n
  <2> QED BY <1>1, <1>4, <2>2, <2>3
          DEF TypeOK, RejectInvitation, groupVars, leaderVars
<1>5. CASE ReceiveAccept(th)
  <2>1. PICK G : \/ DecideLeadership(n, G)
                 \/ UNCHANGED <<state, leader_id, outbox, leaderVars>>
    BY <1>5 DEF ReceiveAccept, DecideIfAnswered, n
  <2>2. group_members' \in [Nodes -> SUBSET Nodes]
    BY <1>1, <1>5 DEF TypeOK, ReceiveAccept, m, n
  <2>3. invitations_accepted' \in [Nodes -> Nat]
    BY <1>1, <1>5 DEF TypeOK, ReceiveAccept, m, n
  <2> QED BY <1>1, <1>5, <2>1, <2>2, <2>3, DecideType DEF TypeOK, ReceiveAccept
<1>6. CASE ReceiveReject(th)
  <2>1. PICK G : \/ DecideLeadership(n, G)
                 \/ UNCHANGED <<state, leader_id, outbox, leaderVars>>
    BY <1>6 DEF ReceiveReject, DecideIfAnswered, n
  <2>2. invitations_rejected' \in [Nodes -> Nat]
    BY <1>1, <1>6 DEF TypeOK, ReceiveReject, n
  <2> QED BY <1>1, <1>6, <2>1, <2>2, DecideType DEF TypeOK, ReceiveReject
<1>7. CASE IgnoreAnswer(th) \/ IgnoreLeader(th)
  BY <1>1, <1>7 DEF TypeOK, IgnoreAnswer, IgnoreLeader, groupVars, countVars,
                    leaderVars
<1>8. CASE FollowLeader(th)
  BY <1>1, <1>2, <1>8
  DEF TypeOK, FollowLeader, States, m, n, countVars
<1> QED BY <1>3, <1>4, <1>5, <1>6, <1>7, <1>8 DEF Receive

\* Elections that begin, and calls that begin none.
LEMMA CallType ==
  ASSUME TypeOK, NEW n \in Nodes,
         ElectLeader(n) \/ ElectCandidate(n) \/ SuspectLeader(n)
  PROVE  TypeOK'
<1>1. visit' \in [Threads -> 0 .. Len(Roster)]
  BY VisitType
  DEF TypeOK, ElectLeader, ElectCandidate, SuspectLeader, threadVars
<1>2. CASE ElectLeader(n)
  BY <1>1, <1>2, CandidacyType DEF TypeOK, ElectLeader, countVars, leaderVars
<1>3. CASE ElectCandidate(n)
  BY <1>1, <1>3 DEF TypeOK, ElectCandidate, groupVars, countVars, leaderVars
<1>4. CASE SuspectLeader(n)
  BY <1>1, <1>4, CandidacyType
  DEF TypeOK, SuspectLeader, countVars, leaderVars, threadVars, Nobody
<1> QED BY <1>2, <1>3, <1>4

LEMMA TimeoutType ==
  ASSUME TypeOK, NEW n \in Nodes, Timeout(n)
  PROVE  TypeOK'
<1>1. PICK G : \/ DecideLeadership(n, G)
               \/ UNCHANGED <<state, leader_id, outbox, leaderVars>>
  BY DEF Timeout
<1>2. timers' \in [Nodes -> Nat]
  BY DEF TypeOK, Timeout
<1> QED BY <1>1, <1>2, DecideType DEF TypeOK, Timeout, countVars, threadVars

LEMMA TakeOutboxType ==
  ASSUME TypeOK, NEW th \in Threads, TakeOutbox(th)
  PROVE  /\ TypeOK'
         /\ Roster[visit[th]] \in Nodes
<1>1. Roster \in Seq(Nodes) /\ visit[th] \in 1 .. Len(Roster)
  BY RosterAssumption DEF TypeOK, TakeOutbox
<1>2. Roster[visit[th]] \in Nodes
  BY <1>1
<1>3. hand' \in [Threads -> Seq(Message)] /\ outbox' \in [Nodes -> Seq(Message)]
  BY <1>2 DEF TypeOK, TakeOutbox, Emptied
<1>4. visit' \in [Threads -> 0 .. Len(Roster)]
  BY VisitType DEF TypeOK, TakeOutbox
<1> QED BY <1>2, <1>3, <1>4
        DEF TypeOK, TakeOutbox, groupVars, countVars, leaderVars

LEMMA RoundType ==
  ASSUME TypeOK, BeginRound \/ SetLeaders
  PROVE  TypeOK'
<1>1. visit' \in [Threads -> 0 .. Len(Roster)]
  BY VisitType DEF TypeOK, BeginRound, SetLeaders
<1>2. CASE BeginRound
  <2>1. \A n \in Nodes : Broadcast("LEADER", n) \in Seq(Message)
    BY BroadcastType DEF Types
  <2>2. \A n \in Nodes : outbox[n] \o Broadcast("LEADER", n) \in Seq(Message)
    BY <2>1 DEF TypeOK
  <2>3. outbox' \in [Nodes -> Seq(Message)]
    BY <1>2, <2>2 DEF TypeOK, BeginRound
  <2> QED BY <1>1, <1>2, <2>3
          DEF TypeOK, BeginRound, groupVars, countVars, leaderVars
<1>3. CASE SetLeaders
  <2>1. is_leader' \in [Nodes -> BOOLEAN]
    BY <1>3 DEF TypeOK, SetLeaders
  <2> QED BY <1>1, <1>3, <2>1
          DEF TypeOK, SetLeaders, groupVars, countVars
<1> QED BY <1>2, <1>3

LEMMA TypeStep == TypeOK /\ [Next]_vars => TypeOK'
<1> SUFFICES ASSUME TypeOK, [Next]_vars PROVE TypeOK'
  OBVIOUS
<1>1. CASE \E th \in Threads : Receive(th) \/ TakeOutbox(th)
  BY <1>1, ReceiveType, TakeOutboxType
<1>2. CASE \E n \in Nodes : Timeout(n) \/ SuspectLeader(n)
  BY <1>2, TimeoutType, CallType
<1>3. CASE BeginRound \/ SetLeaders
  BY <1>3, RoundType
<1>4. CASE Calls
  BY <1>4, CallType, ElectionBounds DEF Calls
<1>5. CASE UNCHANGED vars
  BY <1>5 DEF TypeOK, vars, groupVars, countVars, leaderVars, threadVars
<1> QED BY <1>1, <1>2, <1>3, <1>4, <1>5 DEF Next

\* Every variable keeps its type, for any number of nodes.
THEOREM TypeCorrect == Spec => []TypeOK
<1>1. Init => TypeOK
  BY InitType
<1>2. TypeOK /\ [Next]_vars => TypeOK'
  BY TypeStep
<1> QED BY <1>1, <1>2, PTL DEF Spec

-----------------------------------------------------------------------------
(***************************************************************************)
(* Leaders and their groups.                                               *)
(***************************************************************************)

LEMMA DecideKeepsHighest ==
  ASSUME TypeOK, LeaderIsHighestInGroup, NEW n \in Nodes, NEW G \in SUBSET Nodes,
         \/ DecideLeadership(n, G)
         \/ UNCHANGED <<state, leader_id, outbox, leaderVars>>,
         state[n] = "CANDIDATE",
         group_members' = [group_members EXCEPT ![n] = G]
  PROVE  LeaderIsHighestInGroup'
<1>1. CASE UNCHANGED state
  BY <1>1 DEF LeaderIsHighestInGroup, TypeOK
<1>2. CASE Highest(n, G) /\ BecomeLeader(n)
  BY <1>2 DEF LeaderIsHighestInGroup, TypeOK, Highest, BecomeLeader
<1> QED BY <1>1, <1>2 DEF DecideLeadership

\* A node that becomes follower or candidate changes nobody else's group.
LEMMA OthersKeepHighest ==
  ASSUME TypeOK, LeaderIsHighestInGroup, NEW n \in Nodes, NEW s,
         s # "LEADER", state' = [state EXCEPT ![n] = s],
         \A k \in Nodes \ {n} : group_members'[k] = group_members[k]
  PROVE  LeaderIsHighestInGroup'
<1> SUFFICES ASSUME NEW k \in Nodes, state'[k] = "LEADER"
             PROVE  \A j \in group_members'[k] : j <= k
  BY DEF LeaderIsHighestInGroup
<1>1. state'[n] = s
  BY DEF TypeOK
<1>2. k # n /\ state'[k] = state[k]
  BY <1>1 DEF TypeOK
<1> QED BY <1>2 DEF LeaderIsHighestInGroup

LEMMA ReceiveKeepsHighest ==
  ASSUME TypeOK, LeaderIsHighestInGroup, NEW th \in Threads, Receive(th)
  PROVE  LeaderIsHighestInGroup'
<1> DEFINE m == Head(hand[th])
           n == Head(hand[th]).to
<1>0. hand[th] # <<>> /\ Handed(th)
  BY DEF Receive, AcceptInvitation, RejectInvitation, ReceiveAccept,
         ReceiveReject, IgnoreAnswer, FollowLeader, IgnoreLeader, InHand
<1>1. m.from \in Nodes /\ n \in Nodes
  BY <1>0, HandedType
<1> HIDE DEF m, n
<1>2. CASE AcceptInvitation(th) \/ FollowLeader(th)
  <2>1. state' = [state EXCEPT ![n] = "FOLLOWER"]
    BY <1>2 DEF AcceptInvitation, FollowLeader, n
  <2>2. \A k \in Nodes \ {n} : group_members'[k] = group_members[k]
    BY <1>2 DEF AcceptInvitation, FollowLeader, TypeOK, n
  <2> QED BY <1>1, <2>1, <2>2, OthersKeepHighest
<1>3. CASE RejectInvitation(th) \/ IgnoreAnswer(th) \/ IgnoreLeader(th)
  BY <1>3 DEF LeaderIsHighestInGroup, RejectInvitation, IgnoreAnswer,
              IgnoreLeader, groupVars
<1>4. CASE ReceiveAccept(th)
  <2> DEFINE G == group_members[n] \cup {m.from}
  <2>1. G \in SUBSET Nodes
    BY <1>1 DEF TypeOK
  <2>2. /\ state[n] = "CANDIDATE"
        /\ group_members' = [group_members EXCEPT ![n] = G]
        /\ \/ DecideLeadership(n, G)
           \/ UNCHANGED <<state, leader_id, outbox, leaderVars>>
    BY <1>4 DEF ReceiveAccept, DecideIfAnswered, m, n
  <2> QED BY <1>1, <2>1, <2>2, DecideKeepsHighest
<1>5. CASE ReceiveReject(th)
  <2>1. /\ state[n] = "CANDIDATE"
        /\ group_members' = group_members
        /\ \/ DecideLeadership(n, group_members[n])
           \/ UNCHANGED <<state, leader_id, outbox, leaderVars>>
    BY <1>5 DEF ReceiveReject, DecideIfAnswered, n
  <2>2. group_members[n] \in SUBSET Nodes
    BY <1>1 DEF TypeOK
  <2>3. group_members' = [group_members EXCEPT ![n] = group_members[n]]
    BY <2>1 DEF TypeOK
  <2> QED BY <1>1, <2>1, <2>2, <2>3, DecideKeepsHighest
<1> QED BY <1>2, <1>3, <1>4, <1>5 DEF Receive

LEMMA HighestStep ==
  TypeOK /\ LeaderIsHighestInGroup /\ [Next]_vars => LeaderIsHighestInGroup'
<1> SUFFICES ASSUME TypeOK, LeaderIsHighestInGroup, [Next]_vars
             PROVE  LeaderIsHighestInGroup'
  OBVIOUS
<1>1. CASE \E th \in Threads : Receive(th)
  BY <1>1, ReceiveKeepsHighest
<1>2. CASE \E n \in Nodes : Timeout(n)
  <2>1. PICK n \in Nodes : Timeout(n)
    BY <1>2
  <2>2. CASE state[n] = "CANDIDATE"
    <3>1. group_members[n] \in SUBSET Nodes
      BY DEF TypeOK
    <3>2. group_members' = [group_members EXCEPT ![n] = group_members[n]]
      BY <2>1 DEF TypeOK, Timeout
    <3> QED BY <2>1, <2>2, <3>1, <3>2, DecideKeepsHighest DEF Timeout
  <2>3. CASE state[n] # "CANDIDATE"
    BY <2>1, <2>3 DEF Timeout, LeaderIsHighestInGroup
  <2> QED BY <2>2, <2>3
<1>3. CASE \E n \in Nodes : ElectLeader(n) \/ SuspectLeader(n)
  <2>1. PICK n \in Nodes : Candidacy(n)
    BY <1>3 DEF ElectLeader, SuspectLeader
  <2>2. /\ state' = [state EXCEPT ![n] = "CANDIDATE"]
        /\ \A k \in Nodes \ {n} : group_members'[k] = group_members[k]
    BY <2>1 DEF Candidacy, TypeOK
  <2> QED BY <2>2, OthersKeepHighest
<1>4. CASE \E n \in Nodes : ElectCandidate(n)
  BY <1>4 DEF ElectCandidate, LeaderIsHighestInGroup, groupVars
<1>5. CASE (\E th \in Threads : TakeOutbox(th)) \/ BeginRound \/ SetLeaders
  BY <1>5 DEF TakeOutbox, BeginRound, SetLeaders, LeaderIsHighestInGroup,
              groupVars
<1>6. CASE UNCHANGED vars
  BY <1>6 DEF vars, groupVars, LeaderIsHighestInGroup
<1> QED BY <1>1, <1>2, <1>3, <1>4, <1>5, <1>6, ElectionBounds DEF Next, Calls

\* Nobody leads a group with a higher node in it, for any number of nodes and
\* elections (_decide_leadership).
THEOREM LeaderAlwaysHighest == Spec => []LeaderIsHighestInGroup
<1>1. Init => TypeOK /\ LeaderIsHighestInGroup
  BY InitType DEF Init, LeaderIsHighestInGroup
<1>2. TypeOK /\ LeaderIsHighestInGroup /\ [Next]_vars
        => TypeOK' /\ LeaderIsHighestInGroup'
  BY TypeStep, HighestStep
<1> QED BY <1>1, <1>2, PTL DEF Spec

-----------------------------------------------------------------------------
(***************************************************************************)
(* A leader everybody follows.  Settled is its own inductive invariant, as *)
(* long as nobody calls for an election: nobody is a candidate, so timers  *)
(* and answers decide nothing, and the only messages about are its own.    *)
(***************************************************************************)
OnlyFrom(q, l) == \A i \in DOMAIN q : Announces(q[i], l)

LEMMA OnlyFromConcat ==
  ASSUME NEW l \in Nodes, NEW q \in Seq(Message), OnlyFrom(q, l)
  PROVE  OnlyFrom(q \o Broadcast("LEADER", l), l)
<1> DEFINE e == Broadcast("LEADER", l)
<1>1. e \in Seq(Message) /\ OnlyFrom(e, l)
  BY BroadcastType DEF OnlyFrom, Announces, Types
<1> HIDE DEF e
<1>2. \A i \in DOMAIN (q \o e) :
        \/ i \in DOMAIN q /\ (q \o e)[i] = q[i]
        \/ i - Len(q) \in DOMAIN e /\ (q \o e)[i] = e[i - Len(q)]
  BY <1>1
<1>3. OnlyFrom(q \o e, l)
  BY <1>1, <1>2 DEF OnlyFrom
<1> QED BY <1>3 DEF e

\* The roles of the nodes, and the queues.
Led(l) ==
  /\ state[l] = "LEADER" /\ current_leader = {l}
  /\ \A n \in Nodes :
       /\ leader_id[n] = {l} /\ (is_leader[n] <=> n = l)
       /\ n # l => state[n] = "FOLLOWER"

Quiet(l) ==
  /\ \A n \in Nodes : OnlyFrom(outbox[n], l)
  /\ \A th \in Threads : OnlyFrom(hand[th], l)

LEMMA SettledParts == \A l : Settled(l) <=> Led(l) /\ Quiet(l)
  BY DEF Settled, Led, Quiet, OnlyFrom

LEMMA ReceiveKeepsSettled ==
  ASSUME TypeOK, NEW l \in Nodes, Led(l), Quiet(l), NEW th \in Threads,
         Receive(th)
  PROVE  Led(l)' /\ Quiet(l)'
<1> DEFINE m == Head(hand[th])
           n == Head(hand[th]).to
<1>1. hand[th] # <<>> /\ Handed(th) /\ hand[th] \in Seq(Message)
  BY DEF Receive, AcceptInvitation, RejectInvitation, ReceiveAccept,
         ReceiveReject, IgnoreAnswer, FollowLeader, IgnoreLeader, InHand, TypeOK
<1>2. n \in Nodes
  BY <1>1, HandedType
<1>3. m.type = "LEADER" /\ m.from = l
  BY <1>1, FirstInHand DEF Quiet, OnlyFrom, Announces
<1>4. FollowLeader(th) \/ IgnoreLeader(th)
  BY <1>3 DEF Receive, AcceptInvitation, RejectInvitation, ReceiveAccept,
              ReceiveReject, IgnoreAnswer, InHand
<1>5. outbox' = outbox
  BY <1>4 DEF FollowLeader, IgnoreLeader
<1>6. OnlyFrom(Tail(hand[th]), l)
  BY <1>1, FirstInHand DEF Quiet, OnlyFrom
<1>7. Quiet(l)'
  BY <1>1, <1>5, <1>6 DEF Quiet, Handed, TypeOK
<1> HIDE DEF m, n
<1>8. CASE FollowLeader(th)
  <2>1. n # l
    BY <1>8 DEF FollowLeader, Led, n
  <2>2. /\ state' = [state EXCEPT ![n] = "FOLLOWER"]
        /\ leader_id' = [leader_id EXCEPT ![n] = {l}]
        /\ current_leader' = {l}
        /\ is_leader' = [is_leader EXCEPT ![n] = FALSE]
    BY <1>3, <1>8 DEF FollowLeader, m, n
  <2>3. Led(l)'
    BY <1>2, <2>1, <2>2 DEF Led, TypeOK
  <2> QED BY <1>7, <2>3
<1>9. CASE IgnoreLeader(th)
  BY <1>7, <1>9 DEF IgnoreLeader, Led, groupVars, leaderVars
<1> QED BY <1>4, <1>8, <1>9

LEMMA TimeoutKeepsSettled ==
  ASSUME TypeOK, NEW l \in Nodes, Led(l), Quiet(l), NEW n \in Nodes,
         Timeout(n)
  PROVE  Led(l)' /\ Quiet(l)'
<1>1. state[n] # "CANDIDATE"
  BY DEF Led
<1>2. UNCHANGED <<state, leader_id, outbox, leaderVars, hand>>
  BY <1>1 DEF Timeout, threadVars
<1> QED BY <1>2 DEF Led, Quiet, leaderVars

LEMMA TakeKeepsSettled ==
  ASSUME TypeOK, NEW l \in Nodes, Led(l), Quiet(l), NEW th \in Threads,
         TakeOutbox(th)
  PROVE  Led(l)' /\ Quiet(l)'
<1> DEFINE n == Roster[visit[th]]
<1>1. n \in Nodes
  BY TakeOutboxType
<1>2. /\ hand' = [hand EXCEPT ![th] = outbox[n]]
      /\ outbox' = [outbox EXCEPT ![n] = <<>>]
      /\ UNCHANGED <<state, leader_id, leaderVars>>
  BY DEF TakeOutbox, Emptied, groupVars
<1> HIDE DEF n
<1>3. OnlyFrom(<<>>, l)
  BY DEF OnlyFrom
<1>4. Quiet(l)'
  BY <1>1, <1>2, <1>3 DEF Quiet, TypeOK
<1> QED BY <1>2, <1>4 DEF Led, leaderVars

LEMMA RoundKeepsSettled ==
  ASSUME TypeOK, NEW l \in Nodes, Led(l), Quiet(l), BeginRound
  PROVE  Led(l)' /\ Quiet(l)'
<1>1. ASSUME NEW n \in Nodes PROVE OnlyFrom(outbox'[n], l)
  <2>1. outbox[n] \in Seq(Message) /\ OnlyFrom(outbox[n], l)
    BY DEF TypeOK, Quiet
  <2>2. CASE n = l
    <3>1. outbox'[n] = outbox[n] \o Broadcast("LEADER", l)
      BY <2>2 DEF BeginRound, Led
    <3> QED BY <2>1, <3>1, OnlyFromConcat
  <2>3. CASE n # l
    BY <2>1, <2>3 DEF BeginRound, Led
  <2> QED BY <2>2, <2>3
<1>2. UNCHANGED <<state, leader_id, leaderVars, hand>>
  BY DEF BeginRound, groupVars
<1> QED BY <1>1, <1>2 DEF Led, Quiet, leaderVars

LEMMA SetLeadersKeepsSettled ==
  ASSUME TypeOK, NEW l \in Nodes, Led(l), Quiet(l), SetLeaders
  PROVE  Led(l)' /\ Quiet(l)'
<1>1. is_leader' = [n \in Nodes |-> n \in {l}]
  BY DEF SetLeaders, Led
<1>2. UNCHANGED <<state, leader_id, current_leader, outbox, hand>>
  BY DEF SetLeaders, groupVars
<1> QED BY <1>1, <1>2 DEF Led, Quiet

LEMMA SettledStep ==
  TypeOK /\ [Next]_vars =>
    \A l \in Nodes : Settled(l) /\ ~CallBegins => Settled(l)'
<1> SUFFICES ASSUME TypeOK, [Next]_vars, NEW l \in Nodes, Settled(l),
                    ~CallBegins
             PROVE  Settled(l)'
  OBVIOUS
<1>0. Led(l) /\ Quiet(l)
  BY SettledParts
<1>1. Led(l)' /\ Quiet(l)'
  <2>1. CASE \E th \in Threads : Receive(th) \/ TakeOutbox(th)
    BY <1>0, <2>1, ReceiveKeepsSettled, TakeKeepsSettled
  <2>2. CASE \E n \in Nodes : Timeout(n)
    BY <1>0, <2>2, TimeoutKeepsSettled
  <2>3. ~ \E n \in Nodes : SuspectLeader(n)
    BY <1>0 DEF SuspectLeader, Silent, Led
  <2>4. CASE BeginRound
    BY <1>0, <2>4, RoundKeepsSettled
  <2>5. CASE SetLeaders
    BY <1>0, <2>5, SetLeadersKeepsSettled
  <2>6. ~Calls
    BY DEF Calls, ElectLeader, ElectCandidate, CallBegins, TypeOK, Threads
  <2>7. CASE UNCHANGED vars
    BY <1>0, <2>7 DEF vars, groupVars, leaderVars, threadVars, Led, Quiet
  <2> QED BY <2>1, <2>2, <2>3, <2>4, <2>5, <2>6, <2>7 DEF Next
<1> QED BY <1>1 DEF Settled, Led, Quiet, OnlyFrom

\* A leader everybody follows stays one until elect_leader is called again, for
\* any number of nodes, whatever timers, heartbeats and deliveries do.
THEOREM SettledAlwaysStays == Spec => SettledStays
<1>1. TypeOK /\ [Next]_vars =>
        [\A l \in Nodes : Settled(l) /\ ~CallBegins => Settled(l)']_vars
  BY SettledStep
<1> QED BY <1>1, TypeCorrect, PTL DEF Spec, SettledStays
-----------------------------------------------------------------------------
(***************************************************************************)
(* Invitations and answers under way.  A handler takes one message from a  *)
(* hand and puts messages into one outbox: the count changes by what the   *)
(* two queues lose and gain.                                               *)
(***************************************************************************)

\* A set counts as its image by a function that keeps its elements apart.
LEMMA SameCount ==
  ASSUME NEW S, IsFiniteSet(S), NEW T, NEW f \in [S -> T],
         \A x, y \in S : f[x] = f[y] => x = y, \A t \in T : \E x \in S : f[x] = t
  PROVE  IsFiniteSet(T) /\ Cardinality(T) = Cardinality(S)
<1>1. f \in Injection(S, T) /\ f \in Surjection(S, T)
  BY DEF Injection, IsInjective, Surjection
<1> QED BY <1>1, FS_Surjection

LEMMA OpenFinite ==
  ASSUME NEW q \in Seq(Message), NEW n
  PROVE  /\ Open(q, n) \subseteq 1 .. Len(q)
         /\ IsFiniteSet(Open(q, n)) /\ Cardinality(Open(q, n)) \in Nat
<1>1. Open(q, n) \subseteq 1 .. Len(q) /\ Len(q) \in Nat
  BY DEF Open
<1>2. IsFiniteSet(1 .. Len(q))
  BY <1>1, FS_Interval
<1> QED BY <1>1, <1>2, FS_Subset, FS_CardinalityType

\* Queues in a row hold what both hold.
LEMMA OpenConcat ==
  ASSUME NEW q \in Seq(Message), NEW e \in Seq(Message), NEW n
  PROVE  Cardinality(Open(q \o e, n)) = Cardinality(Open(q, n)) + Cardinality(Open(e, n))
<1> DEFINE l == Len(q)
           S == Open(e, n)
           T == {l + i : i \in S}
           f == [i \in S |-> l + i]
<1>1. l \in Nat /\ S \subseteq 1 .. Len(e) /\ Open(q, n) \subseteq 1 .. l
      /\ IsFiniteSet(S) /\ IsFiniteSet(Open(q, n))
  BY OpenFinite
<1>2. IsFiniteSet(T) /\ Cardinality(T) = Cardinality(S)
  <2>1. f \in [S -> T] /\ \A t \in T : \E x \in S : f[x] = t
    OBVIOUS
  <2>2. \A x, y \in S : f[x] = f[y] => x = y
    BY <1>1
  <2> HIDE DEF f, T, S
  <2> QED BY <1>1, <2>1, <2>2, SameCount
<1>3. Open(q \o e, n) = Open(q, n) \cup T
  <2>1. /\ DOMAIN (q \o e) = 1 .. l + Len(e) /\ Len(e) \in Nat
        /\ DOMAIN q = 1 .. l /\ DOMAIN e = 1 .. Len(e)
        /\ \A i \in 1 .. l : (q \o e)[i] = q[i]
        /\ \A i \in 1 .. Len(e) : (q \o e)[l + i] = e[i]
    OBVIOUS
  <2>2. \A k \in 1 .. l + Len(e) : k \in 1 .. l \/ \E i \in 1 .. Len(e) : k = l + i
    <3> SUFFICES ASSUME NEW k \in 1 .. l + Len(e), ~(k \in 1 .. l)
                 PROVE  \E i \in 1 .. Len(e) : k = l + i
      OBVIOUS
    <3>1. k - l \in 1 .. Len(e) /\ k = l + (k - l)
      BY <1>1, <2>1
    <3> QED BY <3>1
  <2>3. \A i \in 1 .. Len(e) : l + i \in 1 .. l + Len(e)
    BY <1>1, <2>1
  <2>4. \A i \in 1 .. l : i \in 1 .. l + Len(e)
    BY <1>1, <2>1
  <2> DEFINE c == q \o e
             le == Len(e)
  <2>5. /\ Open(c, n) = {i \in 1 .. l + le : OfInvitation(c[i], n)}
        /\ Open(q, n) = {i \in 1 .. l : OfInvitation(q[i], n)}
        /\ S = {i \in 1 .. le : OfInvitation(e[i], n)}
    BY <2>1 DEF Open
  <2> HIDE DEF c, l, le, S
  <2>6. Open(c, n) \subseteq Open(q, n) \cup T
    BY <2>1, <2>2, <2>5 DEF c, le
  <2>7. Open(q, n) \cup T \subseteq Open(c, n)
    BY <2>1, <2>3, <2>4, <2>5 DEF c, le
  <2> QED BY <2>6, <2>7 DEF c
<1>4. Open(q, n) \cap T = {}
  BY <1>1
<1>5. Cardinality(Open(q, n)) \in Nat /\ Cardinality(S) \in Nat
  BY OpenFinite
<1> HIDE DEF T, S
<1>6. Cardinality(Open(q, n) \cup T) = Cardinality(Open(q, n)) + Cardinality(T) - 0
  BY <1>1, <1>2, <1>4, FS_Union, FS_EmptySet
<1> QED BY <1>2, <1>3, <1>5, <1>6 DEF S

LEMMA OpenEmpty ==
  ASSUME NEW n
  PROVE  Cardinality(Open(<<>>, n)) = 0
<1>1. Open(<<>>, n) = {}
  BY DEF Open
<1> QED BY <1>1, FS_EmptySet

\* One message counts for the node whose election it is about.
LEMMA OpenSingle ==
  ASSUME NEW m \in Message, NEW n
  PROVE  Cardinality(Open(<<m>>, n)) = IF OfInvitation(m, n) THEN 1 ELSE 0
<1>1. CASE OfInvitation(m, n)
  <2>1. Open(<<m>>, n) = {1}
    BY <1>1 DEF Open
  <2> QED BY <1>1, <2>1, FS_Singleton
<1>2. CASE ~OfInvitation(m, n)
  <2>1. Open(<<m>>, n) = {}
    BY <1>2 DEF Open
  <2> QED BY <1>2, <2>1, FS_EmptySet
<1> QED BY <1>1, <1>2

\* An election sends one invitation to every other node.
LEMMA OpenInvitations ==
  ASSUME NEW c \in Nodes, NEW n \in Nodes
  PROVE  Cardinality(Open(Broadcast("INVITATION", c), n))
           = IF n = c THEN Len(Peers[n]) ELSE 0
<1> DEFINE e == Broadcast("INVITATION", c)
<1>1. /\ e \in Seq(Message)
      /\ \A i \in DOMAIN e : e[i].type = "INVITATION" /\ e[i].from = c
  BY BroadcastType DEF Types
<1>2. Peers[c] \in Seq(Nodes) /\ Len(Peers[c]) \in Nat
  BY PeersAssumption
<1>3. DOMAIN e = 1 .. Len(Peers[c])
  BY <1>2 DEF Broadcast
<1> HIDE DEF e
<1>4. CASE n = c
  <2>1. Open(e, n) = 1 .. Len(Peers[n])
    BY <1>1, <1>3, <1>4 DEF Open, OfInvitation
  <2>2. Cardinality(1 .. Len(Peers[n])) = Len(Peers[n])
    BY <1>2, <1>4, FS_Interval
  <2> QED BY <1>4, <2>1, <2>2 DEF e
<1>5. CASE n # c
  <2>1. Open(e, n) = {}
    BY <1>1, <1>5 DEF Open, OfInvitation
  <2> QED BY <1>5, <2>1, FS_EmptySet DEF e
<1> QED BY <1>4, <1>5

\* An announcement is no invitation.
LEMMA OpenAnnouncements ==
  ASSUME NEW c \in Nodes, NEW n
  PROVE  Cardinality(Open(Broadcast("LEADER", c), n)) = 0
<1>1. \A i \in DOMAIN Broadcast("LEADER", c) : Broadcast("LEADER", c)[i].type = "LEADER"
  BY BroadcastType DEF Types
<1>2. Open(Broadcast("LEADER", c), n) = {}
  BY <1>1 DEF Open, OfInvitation
<1> QED BY <1>2, FS_EmptySet

\* The first message of a queue counts with it.
LEMMA OpenFirst ==
  ASSUME NEW q \in Seq(Message), q # <<>>, NEW n
  PROVE  Cardinality(Open(q, n))
           = (IF OfInvitation(Head(q), n) THEN 1 ELSE 0) + Cardinality(Open(Tail(q), n))
<1>1. Head(q) \in Message /\ Tail(q) \in Seq(Message) /\ <<Head(q)>> \in Seq(Message)
  BY FirstInHand
<1>2. q = <<Head(q)>> \o Tail(q)
  OBVIOUS
<1>3. Cardinality(Open(<<Head(q)>> \o Tail(q), n))
        = Cardinality(Open(<<Head(q)>>, n)) + Cardinality(Open(Tail(q), n))
  BY <1>1, OpenConcat
<1>4. Cardinality(Open(<<Head(q)>>, n)) = IF OfInvitation(Head(q), n) THEN 1 ELSE 0
  BY <1>1, OpenSingle
<1> QED BY <1>2, <1>3, <1>4

\* Among finitely many queues, ...
LEMMA OpenInFinite ==
  ASSUME NEW K, IsFiniteSet(K), NEW F \in [K -> Seq(Message)], NEW n
  PROVE  IsFiniteSet(OpenIn(F, n)) /\ Cardinality(OpenIn(F, n)) \in Nat
<1> DEFINE S == {{k} \X Open(F[k], n) : k \in K}
           f == [k \in K |-> {k} \X Open(F[k], n)]
<1>1. \A k \in K : IsFiniteSet({k} \X Open(F[k], n))
  BY OpenFinite, FS_Singleton, FS_Product
<1>2. f \in Surjection(K, S)
  BY DEF Surjection
<1>3. IsFiniteSet(S)
  BY <1>2, FS_Surjection
<1>4. IsFiniteSet(UNION S)
  BY <1>1, <1>3, FS_UNION
<1>5. OpenIn(F, n) = UNION S
  BY DEF OpenIn
<1> QED BY <1>4, <1>5, FS_CardinalityType

Queues(K) == [K -> Seq(Message)]

\* The queues but the one at k are the same.
OnlyAt(K, k, F, G) == \A j \in K \ {k} : G[j] = F[j]

\* ... one that changes is all that the count sees.
LEMMA OpenInChanged ==
  ASSUME NEW K, IsFiniteSet(K), NEW F \in Queues(K), NEW n,
         NEW k \in K, NEW G \in Queues(K), OnlyAt(K, k, F, G)
  PROVE  Cardinality(OpenIn(G, n)) + Cardinality(Open(F[k], n))
           = Cardinality(OpenIn(F, n)) + Cardinality(Open(G[k], n))
<1> DEFINE q == G[k]
           Rest == OpenIn(F, n) \ ({k} \X Open(F[k], n))
<1>0. F \in [K -> Seq(Message)] /\ G \in [K -> Seq(Message)]
  BY DEF Queues
<1>1. G[k] = q /\ \A j \in K \ {k} : G[j] = F[j]
  BY DEF OnlyAt
<1>2. F[k] \in Seq(Message) /\ q \in Seq(Message)
  BY <1>0
<1>3. /\ IsFiniteSet(OpenIn(F, n)) /\ Cardinality(OpenIn(F, n)) \in Nat
      /\ IsFiniteSet(OpenIn(G, n)) /\ Cardinality(OpenIn(G, n)) \in Nat
  BY <1>0, OpenInFinite
<1>4. IsFiniteSet(Rest) /\ Cardinality(Rest) \in Nat
  BY <1>3, FS_Difference, FS_CardinalityType
<1>5. ASSUME NEW e \in Seq(Message)
      PROVE  /\ IsFiniteSet({k} \X Open(e, n))
             /\ Cardinality({k} \X Open(e, n)) = Cardinality(Open(e, n))
             /\ Cardinality(Open(e, n)) \in Nat
             /\ Rest \cap ({k} \X Open(e, n)) = {}
  <2>1. IsFiniteSet(Open(e, n)) /\ Cardinality(Open(e, n)) \in Nat
    BY OpenFinite
  <2>2. /\ IsFiniteSet({k} \X Open(e, n))
        /\ Cardinality({k} \X Open(e, n)) = Cardinality({k}) * Cardinality(Open(e, n))
    BY <2>1, FS_Singleton, FS_Product
  <2>3. Cardinality({k}) = 1
    BY FS_Singleton
  <2>4. Rest \cap ({k} \X Open(e, n)) = {}
    BY DEF OpenIn
  <2> QED BY <2>1, <2>2, <2>3, <2>4
<1>6. OpenIn(F, n) = Rest \cup ({k} \X Open(F[k], n))
  BY <1>0 DEF OpenIn
<1>7. OpenIn(G, n) = Rest \cup ({k} \X Open(q, n))
  BY <1>0, <1>1 DEF OpenIn
<1> HIDE DEF Rest
<1>8. ASSUME NEW e \in Seq(Message)
      PROVE  Cardinality(Rest \cup ({k} \X Open(e, n)))
               = Cardinality(Rest) + Cardinality(Open(e, n))
  <2> DEFINE T == {k} \X Open(e, n)
  <2>1. /\ IsFiniteSet(T) /\ Cardinality(T) = Cardinality(Open(e, n))
        /\ Cardinality(Open(e, n)) \in Nat /\ Rest \cap T = {}
    BY <1>5
  <2> HIDE DEF T
  <2>2. Cardinality(Rest \cup T) = Cardinality(Rest) + Cardinality(T) - Cardinality({})
    BY <1>4, <2>1, FS_Union
  <2>3. Cardinality(Rest \cup T) = Cardinality(Rest) + Cardinality(Open(e, n))
    BY <1>4, <2>1, <2>2, FS_EmptySet
  <2> QED BY <2>3 DEF T
<1>9. Cardinality(OpenIn(F, n)) = Cardinality(Rest) + Cardinality(Open(F[k], n))
  BY <1>2, <1>6, <1>8
<1>10. Cardinality(OpenIn(G, n)) = Cardinality(Rest) + Cardinality(Open(q, n))
  BY <1>2, <1>7, <1>8
<1>11. Cardinality(Open(F[k], n)) \in Nat /\ Cardinality(Open(q, n)) \in Nat
  BY <1>2, OpenFinite
<1> QED BY <1>4, <1>9, <1>10, <1>11

-----------------------------------------------------------------------------
(***************************************************************************)
(* AnsweredOnce: no step but the beginning of an election makes an         *)
(* invitation, a handler puts at most one answer in place of it, and an    *)
(* answer that is counted is gone.                                         *)
(***************************************************************************)
InOutboxes(n) == Cardinality(OpenIn(outbox, n))
InHands(n) == Cardinality(OpenIn(hand, n))

LEMMA ThreadsFinite == IsFiniteSet(Threads)
<1>1. {"monitor"} \cup {"caller"} = Threads
  BY DEF Threads
<1> QED BY <1>1, FS_Singleton, FS_Union

LEMMA CountTypes ==
  ASSUME TypeOK, NEW n
  PROVE  /\ InOutboxes(n) \in Nat /\ InHands(n) \in Nat
         /\ Unanswered(n) = InOutboxes(n) + InHands(n)
BY ThreadsFinite, NodesAssumption, OpenInFinite DEF TypeOK, InOutboxes, InHands, Unanswered

\* An outbox that changes, and a hand.
LEMMA OutboxChanged ==
  ASSUME outbox \in Queues(Nodes), outbox' \in Queues(Nodes),
         NEW k \in Nodes, OnlyAt(Nodes, k, outbox, outbox'), NEW n
  PROVE  Cardinality(OpenIn(outbox', n)) + Cardinality(Open(outbox[k], n))
           = Cardinality(OpenIn(outbox, n)) + Cardinality(Open(outbox'[k], n))
<1>1. IsFiniteSet(Nodes)
  BY NodesAssumption
<1> QED BY <1>1, OpenInChanged

LEMMA OutboxCount ==
  ASSUME TypeOK, NEW k \in Nodes, NEW q \in Seq(Message),
         outbox' = [outbox EXCEPT ![k] = q], NEW n
  PROVE  /\ InOutboxes(n)' \in Nat
         /\ InOutboxes(n)' + Cardinality(Open(outbox[k], n))
              = InOutboxes(n) + Cardinality(Open(q, n))
<1>1. /\ outbox \in [Nodes -> Seq(Message)] /\ outbox' \in [Nodes -> Seq(Message)]
      /\ outbox \in Queues(Nodes) /\ outbox' \in Queues(Nodes)
      /\ OnlyAt(Nodes, k, outbox, outbox') /\ outbox'[k] = q
  BY DEF TypeOK, OnlyAt, Queues
<1>2. Cardinality(OpenIn(outbox', n)) + Cardinality(Open(outbox[k], n))
        = Cardinality(OpenIn(outbox, n)) + Cardinality(Open(outbox'[k], n))
  BY <1>1, OutboxChanged
<1>3. Cardinality(OpenIn(outbox', n)) \in Nat
  BY <1>1, NodesAssumption, OpenInFinite
<1> QED BY <1>1, <1>2, <1>3 DEF InOutboxes

LEMMA HandChanged ==
  ASSUME hand \in Queues(Threads), hand' \in Queues(Threads),
         NEW th \in Threads, OnlyAt(Threads, th, hand, hand'), NEW n
  PROVE  Cardinality(OpenIn(hand', n)) + Cardinality(Open(hand[th], n))
           = Cardinality(OpenIn(hand, n)) + Cardinality(Open(hand'[th], n))
<1>1. IsFiniteSet(Threads)
  BY ThreadsFinite
<1> QED BY <1>1, OpenInChanged

LEMMA HandCount ==
  ASSUME TypeOK, NEW th \in Threads, NEW q \in Seq(Message),
         hand' = [hand EXCEPT ![th] = q], NEW n
  PROVE  /\ InHands(n)' \in Nat
         /\ InHands(n)' + Cardinality(Open(hand[th], n))
              = InHands(n) + Cardinality(Open(q, n))
<1>1. /\ hand \in [Threads -> Seq(Message)] /\ hand' \in [Threads -> Seq(Message)]
      /\ hand \in Queues(Threads) /\ hand' \in Queues(Threads)
      /\ OnlyAt(Threads, th, hand, hand') /\ hand'[th] = q
  BY DEF TypeOK, OnlyAt, Queues
<1>2. Cardinality(OpenIn(hand', n)) + Cardinality(Open(hand[th], n))
        = Cardinality(OpenIn(hand, n)) + Cardinality(Open(hand'[th], n))
  BY <1>1, HandChanged
<1>3. Cardinality(OpenIn(hand', n)) \in Nat
  BY <1>1, ThreadsFinite, OpenInFinite
<1> QED BY <1>1, <1>2, <1>3 DEF InHands

\* What a node sends is under way.
LEMMA SendCount ==
  ASSUME TypeOK, NEW k \in Nodes, NEW e \in Seq(Message), Send(k, e), NEW n
  PROVE  InOutboxes(n)' = InOutboxes(n) + Cardinality(Open(e, n))
<1> DEFINE q == outbox[k] \o e
<1>1. /\ outbox[k] \in Seq(Message) /\ q \in Seq(Message)
      /\ outbox' = [outbox EXCEPT ![k] = q]
  BY DEF TypeOK, Send
<1>2. Cardinality(Open(q, n)) = Cardinality(Open(outbox[k], n)) + Cardinality(Open(e, n))
  BY <1>1, OpenConcat
<1> HIDE DEF q
<1>3. /\ InOutboxes(n)' \in Nat
      /\ InOutboxes(n)' + Cardinality(Open(outbox[k], n))
           = InOutboxes(n) + Cardinality(Open(q, n))
  BY <1>1, OutboxCount
<1>4. /\ Cardinality(Open(outbox[k], n)) \in Nat /\ Cardinality(Open(e, n)) \in Nat
      /\ InOutboxes(n) \in Nat
  BY <1>1, OpenFinite, CountTypes
<1> QED BY <1>2, <1>3, <1>4

\* A message that is handed out is not under way any more.
LEMMA HandedCount ==
  ASSUME TypeOK, NEW th \in Threads, hand[th] # <<>>, Handed(th), NEW n
  PROVE  /\ InHands(n)' \in Nat
         /\ InHands(n) = InHands(n)'
              + (IF OfInvitation(Head(hand[th]), n) THEN 1 ELSE 0)
<1> DEFINE q == Tail(hand[th])
           b == IF OfInvitation(Head(hand[th]), n) THEN 1 ELSE 0
<1>1. /\ hand[th] \in Seq(Message) /\ q \in Seq(Message)
      /\ hand' = [hand EXCEPT ![th] = q]
  BY FirstInHand DEF TypeOK, Handed
<1>2. Cardinality(Open(hand[th], n)) = b + Cardinality(Open(q, n)) /\ b \in Nat
  BY <1>1, OpenFirst
<1> HIDE DEF q, b
<1>3. /\ InHands(n)' \in Nat
      /\ InHands(n)' + Cardinality(Open(hand[th], n))
           = InHands(n) + Cardinality(Open(q, n))
  BY <1>1, HandCount
<1>4. /\ Cardinality(Open(hand[th], n)) \in Nat /\ Cardinality(Open(q, n)) \in Nat
      /\ InHands(n) \in Nat
  BY <1>1, OpenFinite, CountTypes
<1>5. InHands(n) = InHands(n)' + b
  BY <1>2, <1>3, <1>4
<1> QED BY <1>3, <1>5 DEF b

\* Deciding sends announcements only.
LEMMA DecideCount ==
  ASSUME TypeOK, NEW k \in Nodes, NEW G,
         DecideLeadership(k, G) \/ UNCHANGED <<state, leader_id, outbox, leaderVars>>,
         NEW n
  PROVE  InOutboxes(n)' = InOutboxes(n)
<1>1. CASE outbox' = outbox
  BY <1>1 DEF InOutboxes
<1>2. CASE BecomeLeader(k)
  <2>1. Broadcast("LEADER", k) \in Seq(Message) /\ Send(k, Broadcast("LEADER", k))
    BY <1>2, BroadcastType DEF BecomeLeader, Types
  <2>2. InOutboxes(n)' = InOutboxes(n) + Cardinality(Open(Broadcast("LEADER", k), n))
    BY <2>1, SendCount
  <2> QED BY <2>2, OpenAnnouncements, CountTypes
<1> QED BY <1>1, <1>2 DEF DecideLeadership

\* A step that begins no election, and counts no more than it takes away.
LEMMA KeptOnce ==
  ASSUME TypeOK, TypeOK', AnsweredOnce, NEW n \in Nodes, term'[n] = term[n],
         invitations_accepted'[n] + InOutboxes(n)' + InHands(n)'
           <= invitations_accepted[n] + InOutboxes(n) + InHands(n)
  PROVE  invitations_accepted'[n] + Unanswered(n)' <= term'[n] * Len(Peers[n])
<1> DEFINE most == term[n] * Len(Peers[n])
<1>1. /\ Unanswered(n) = InOutboxes(n) + InHands(n)
      /\ Unanswered(n)' = InOutboxes(n)' + InHands(n)'
      /\ InOutboxes(n) \in Nat /\ InHands(n) \in Nat
  BY CountTypes DEF Unanswered, InOutboxes, InHands
<1>2. invitations_accepted[n] + Unanswered(n) <= most
  BY DEF AnsweredOnce
<1>3. most \in Nat /\ term'[n] * Len(Peers[n]) = most
  BY PeersAssumption DEF TypeOK
<1>4. invitations_accepted[n] \in Nat /\ invitations_accepted'[n] \in Nat
  BY DEF TypeOK
<1>5. /\ InOutboxes(n)' \in Nat /\ InHands(n)' \in Nat
  <2>1. outbox' \in [Nodes -> Seq(Message)] /\ hand' \in [Threads -> Seq(Message)]
    BY DEF TypeOK
  <2> QED BY <2>1, NodesAssumption, ThreadsFinite, OpenInFinite DEF InOutboxes, InHands
<1> HIDE DEF most
<1> QED BY <1>1, <1>2, <1>3, <1>4, <1>5

LEMMA ReceiveOnce ==
  ASSUME TypeOK, TypeOK', AnsweredOnce, NEW th \in Threads, Receive(th), NEW n \in Nodes
  PROVE  invitations_accepted'[n] + Unanswered(n)' <= term'[n] * Len(Peers[n])
<1> DEFINE m == Head(hand[th])
           k == Head(hand[th]).to
<1>0. hand[th] # <<>> /\ Handed(th)
  BY DEF Receive, AcceptInvitation, RejectInvitation, ReceiveAccept,
         ReceiveReject, IgnoreAnswer, FollowLeader, IgnoreLeader, InHand
<1>1. m \in Message /\ m.from \in Nodes /\ k \in Nodes
  BY <1>0, HandedType
<1>2. /\ InOutboxes(n) \in Nat /\ InHands(n) \in Nat /\ InHands(n)' \in Nat
      /\ InHands(n) = InHands(n)' + (IF OfInvitation(m, n) THEN 1 ELSE 0)
  BY <1>0, CountTypes, HandedCount
<1>3. /\ invitations_accepted[n] \in Nat /\ term'[n] = term[n]
  BY DEF TypeOK, Receive, AcceptInvitation, RejectInvitation, ReceiveAccept,
         ReceiveReject, IgnoreAnswer, FollowLeader, IgnoreLeader
<1> HIDE DEF m, k
<1>4. ASSUME NEW type \in {"ACCEPT", "REJECT"}, m.type = "INVITATION",
             Send(k, <<Msg(type, k, m.from)>>), invitations_accepted' = invitations_accepted
      PROVE  invitations_accepted'[n] + Unanswered(n)' <= term'[n] * Len(Peers[n])
  <2> DEFINE a == Msg(type, k, m.from)
  <2>1. a \in Message /\ <<a>> \in Seq(Message)
    BY <1>1, <1>4, MsgType DEF Types
  <2>2. OfInvitation(a, n) <=> OfInvitation(m, n)
    BY <1>4 DEF OfInvitation, Msg
  <2>3. InOutboxes(n)' = InOutboxes(n) + Cardinality(Open(<<a>>, n))
    BY <1>1, <1>4, <2>1, SendCount
  <2>4. Cardinality(Open(<<a>>, n)) = IF OfInvitation(m, n) THEN 1 ELSE 0
    BY <2>1, <2>2, OpenSingle
  <2> HIDE DEF a
  <2>5. invitations_accepted'[n] + InOutboxes(n)' + InHands(n)'
          <= invitations_accepted[n] + InOutboxes(n) + InHands(n)
    BY <1>2, <1>3, <1>4, <2>3, <2>4
  <2> QED BY <1>3, <2>5, KeptOnce
<1>5. ASSUME InOutboxes(n)' = InOutboxes(n), invitations_accepted'[n] = invitations_accepted[n]
      PROVE  invitations_accepted'[n] + Unanswered(n)' <= term'[n] * Len(Peers[n])
  <2>1. invitations_accepted'[n] + InOutboxes(n)' + InHands(n)'
          <= invitations_accepted[n] + InOutboxes(n) + InHands(n)
    BY <1>2, <1>3, <1>5
  <2> QED BY <1>3, <2>1, KeptOnce
<1>6. CASE AcceptInvitation(th)
  BY <1>4, <1>6 DEF AcceptInvitation, InHand, countVars, m, k
<1>7. CASE RejectInvitation(th)
  BY <1>4, <1>7 DEF RejectInvitation, InHand, m, k
<1>8. CASE ReceiveAccept(th)
  <2>1. PICK G : \/ DecideLeadership(k, G)
                 \/ UNCHANGED <<state, leader_id, outbox, leaderVars>>
    BY <1>8 DEF ReceiveAccept, DecideIfAnswered, k
  <2>2. InOutboxes(n)' = InOutboxes(n)
    BY <1>1, <2>1, DecideCount
  <2>3. CASE n = k
    <3>1. m.type = "ACCEPT" /\ m.to = n
      BY <1>8, <2>3 DEF ReceiveAccept, InHand, m, k
    <3>2. OfInvitation(m, n)
      BY <3>1 DEF OfInvitation
    <3>3. invitations_accepted'[n] = invitations_accepted[n] + 1
      BY <1>8, <2>3 DEF ReceiveAccept, TypeOK, k
    <3>4. invitations_accepted'[n] + InOutboxes(n)' + InHands(n)'
            <= invitations_accepted[n] + InOutboxes(n) + InHands(n)
      BY <1>2, <1>3, <2>2, <3>2, <3>3
    <3> QED BY <1>3, <3>4, KeptOnce
  <2>4. CASE n # k
    <3>1. invitations_accepted'[n] = invitations_accepted[n]
      BY <1>8, <2>4 DEF ReceiveAccept, TypeOK, k
    <3> QED BY <1>5, <2>2, <3>1
  <2> QED BY <2>3, <2>4
<1>9. CASE ReceiveReject(th)
  <2>1. PICK G : \/ DecideLeadership(k, G)
                 \/ UNCHANGED <<state, leader_id, outbox, leaderVars>>
    BY <1>9 DEF ReceiveReject, DecideIfAnswered, k
  <2>2. InOutboxes(n)' = InOutboxes(n)
    BY <1>1, <2>1, DecideCount
  <2> QED BY <1>5, <1>9, <2>2 DEF ReceiveReject
<1>10. CASE IgnoreAnswer(th) \/ FollowLeader(th) \/ IgnoreLeader(th)
  BY <1>5, <1>10 DEF IgnoreAnswer, FollowLeader, IgnoreLeader, countVars, InOutboxes
<1> QED BY <1>6, <1>7, <1>8, <1>9, <1>10 DEF Receive

\* An election sends as many invitations as it may get answers.
LEMMA CandidacyOnce ==
  ASSUME TypeOK, TypeOK', AnsweredOnce, NEW k \in Nodes, Candidacy(k), hand' = hand,
         invitations_accepted' = invitations_accepted, NEW n \in Nodes
  PROVE  invitations_accepted'[n] + Unanswered(n)' <= term'[n] * Len(Peers[n])
<1> DEFINE l == Len(Peers[n])
           t == term[n]
           a == invitations_accepted[n]
<1>1. l \in Nat /\ t \in Nat /\ a \in Nat
  BY PeersAssumption DEF TypeOK
<1>2. Broadcast("INVITATION", k) \in Seq(Message) /\ Send(k, Broadcast("INVITATION", k))
  BY BroadcastType DEF Candidacy, Types
<1>3. InOutboxes(n)' = InOutboxes(n) + (IF n = k THEN l ELSE 0)
  BY <1>2, SendCount, OpenInvitations
<1>4. InHands(n)' = InHands(n) /\ InOutboxes(n) \in Nat /\ InHands(n) \in Nat
  BY CountTypes DEF InHands
<1>5. CASE n = k
  <2>1. term'[n] = t + 1
    BY <1>5 DEF Candidacy, TypeOK
  <2>2. Unanswered(n)' = InOutboxes(n)' + InHands(n)' /\ Unanswered(n) = InOutboxes(n) + InHands(n)
    BY DEF Unanswered, InOutboxes, InHands
  <2>3. a + Unanswered(n) <= t * l
    BY DEF AnsweredOnce
  <2> HIDE DEF l, t, a
  <2>4. (t + 1) * l = t * l + l /\ t * l \in Nat
    BY <1>1
  <2>5. a + Unanswered(n)' <= (t + 1) * l
    BY <1>1, <1>3, <1>4, <1>5, <2>2, <2>3, <2>4
  <2> QED BY <2>1, <2>5 DEF a, l
<1>6. CASE n # k
  <2>1. term'[n] = term[n]
    BY <1>6 DEF Candidacy, TypeOK
  <2>2. invitations_accepted'[n] + InOutboxes(n)' + InHands(n)'
          <= invitations_accepted[n] + InOutboxes(n) + InHands(n)
    BY <1>1, <1>3, <1>4, <1>6
  <2> QED BY <2>1, <2>2, KeptOnce
<1> QED BY <1>5, <1>6

\* The messages of an outbox move into a hand that was empty.
LEMMA TakeOnce ==
  ASSUME TypeOK, TypeOK', AnsweredOnce, NEW th \in Threads, TakeOutbox(th), NEW n \in Nodes
  PROVE  invitations_accepted'[n] + Unanswered(n)' <= term'[n] * Len(Peers[n])
<1> DEFINE k == Roster[visit[th]]
           q == outbox[k]
<1>1. k \in Nodes
  BY TakeOutboxType
<1>2. /\ hand' = [hand EXCEPT ![th] = q] /\ outbox' = [outbox EXCEPT ![k] = <<>>]
      /\ hand[th] = <<>> /\ term' = term /\ invitations_accepted' = invitations_accepted
  BY DEF TakeOutbox, Emptied, countVars
<1> HIDE DEF k
<1>3. q \in Seq(Message) /\ <<>> \in Seq(Message)
  BY <1>1 DEF TypeOK
<1>4. /\ InOutboxes(n)' \in Nat
      /\ InOutboxes(n)' + Cardinality(Open(q, n))
           = InOutboxes(n) + Cardinality(Open(<<>>, n))
  BY <1>1, <1>2, <1>3, OutboxCount
<1> HIDE DEF q
<1>5. /\ InHands(n)' \in Nat
      /\ InHands(n)' + Cardinality(Open(<<>>, n))
           = InHands(n) + Cardinality(Open(q, n))
  BY <1>2, <1>3, HandCount
<1>6. Cardinality(Open(<<>>, n)) = 0 /\ Cardinality(Open(q, n)) \in Nat
  BY <1>3, OpenEmpty, OpenFinite
<1>7. InOutboxes(n) \in Nat /\ InHands(n) \in Nat /\ invitations_accepted[n] \in Nat
  BY CountTypes DEF TypeOK
<1>8. invitations_accepted'[n] + InOutboxes(n)' + InHands(n)'
        <= invitations_accepted[n] + InOutboxes(n) + InHands(n)
  BY <1>2, <1>4, <1>5, <1>6, <1>7
<1> QED BY <1>2, <1>8, KeptOnce

\* Heartbeats are announcements.
LEMMA RoundOnce ==
  ASSUME TypeOK, TypeOK', AnsweredOnce, BeginRound, NEW n \in Nodes
  PROVE  invitations_accepted'[n] + Unanswered(n)' <= term'[n] * Len(Peers[n])
<1>1. InOutboxes(n)' = InOutboxes(n)
  <2>1. CASE \E l \in Nodes : current_leader = {l} /\ state[l] = "LEADER"
    <3>1. PICK l \in Nodes : current_leader = {l} /\ state[l] = "LEADER"
      BY <2>1
    <3>2. Broadcast("LEADER", l) \in Seq(Message)
      BY BroadcastType DEF Types
    <3>3. Send(l, Broadcast("LEADER", l))
      BY <3>1 DEF BeginRound, Send, TypeOK
    <3>4. InOutboxes(n)' = InOutboxes(n) + Cardinality(Open(Broadcast("LEADER", l), n))
      BY <3>2, <3>3, SendCount
    <3> QED BY <3>4, OpenAnnouncements, CountTypes
  <2>2. CASE ~\E l \in Nodes : current_leader = {l} /\ state[l] = "LEADER"
    <3>1. \A j \in Nodes : ~(j \in current_leader /\ state[j] = "LEADER")
      BY <2>2 DEF TypeOK, Nobody, Someone
    <3>2. outbox' = outbox
      BY <3>1 DEF BeginRound, TypeOK
    <3> QED BY <3>2 DEF InOutboxes
  <2> QED BY <2>1, <2>2
<1>2. /\ InHands(n)' = InHands(n) /\ term' = term
      /\ invitations_accepted' = invitations_accepted
  BY DEF BeginRound, InHands, countVars
<1>3. invitations_accepted[n] \in Nat /\ InOutboxes(n) \in Nat /\ InHands(n) \in Nat
  BY CountTypes DEF TypeOK
<1>4. invitations_accepted'[n] + InOutboxes(n)' + InHands(n)'
        <= invitations_accepted[n] + InOutboxes(n) + InHands(n)
  BY <1>1, <1>2, <1>3
<1> QED BY <1>2, <1>4, KeptOnce

LEMMA OnceStep == TypeOK /\ AnsweredOnce /\ [Next]_vars => AnsweredOnce'
<1> SUFFICES ASSUME TypeOK, AnsweredOnce, [Next]_vars, NEW n \in Nodes
             PROVE  invitations_accepted'[n] + Unanswered(n)' <= term'[n] * Len(Peers[n])
  BY DEF AnsweredOnce
<1>0. TypeOK'
  BY TypeStep
<1>1. ASSUME InOutboxes(n)' = InOutboxes(n), hand' = hand, term' = term,
             invitations_accepted' = invitations_accepted
      PROVE  invitations_accepted'[n] + Unanswered(n)' <= term'[n] * Len(Peers[n])
  <2>1. invitations_accepted[n] \in Nat /\ InOutboxes(n) \in Nat /\ InHands(n) \in Nat
    BY CountTypes DEF TypeOK
  <2>2. InHands(n)' = InHands(n)
    BY <1>1 DEF InHands
  <2>3. invitations_accepted'[n] + InOutboxes(n)' + InHands(n)'
          <= invitations_accepted[n] + InOutboxes(n) + InHands(n)
    BY <1>1, <2>1, <2>2
  <2> QED BY <1>0, <1>1, <2>3, KeptOnce
<1>2. CASE \E th \in Threads : Receive(th) \/ TakeOutbox(th)
  BY <1>0, <1>2, ReceiveOnce, TakeOnce
<1>3. CASE \E k \in Nodes : Timeout(k)
  <2>1. PICK k \in Nodes : Timeout(k)
    BY <1>3
  <2>2. PICK G : \/ DecideLeadership(k, G)
                 \/ UNCHANGED <<state, leader_id, outbox, leaderVars>>
    BY <2>1 DEF Timeout
  <2>3. InOutboxes(n)' = InOutboxes(n)
    BY <2>2, DecideCount
  <2> QED BY <1>1, <2>1, <2>3 DEF Timeout, countVars, threadVars
<1>4. CASE \E k \in Nodes : ElectLeader(k) \/ SuspectLeader(k)
  BY <1>0, <1>4, CandidacyOnce DEF ElectLeader, SuspectLeader, countVars, threadVars
<1>5. CASE (\E k \in Nodes : ElectCandidate(k)) \/ SetLeaders
  BY <1>1, <1>5 DEF ElectCandidate, SetLeaders, InOutboxes, countVars
<1>6. CASE BeginRound
  BY <1>0, <1>6, RoundOnce
<1>7. CASE UNCHANGED vars
  BY <1>1, <1>7 DEF vars, countVars, threadVars, InOutboxes
<1> QED BY <1>2, <1>3, <1>4, <1>5, <1>6, <1>7, ElectionBounds DEF Next, Calls

\* Every invitation is answered at most once and counted at most once, for any number
\* of nodes and elections, although two threads empty the outboxes
\* (get_outbox_messages, _handle_accept).
THEOREM AlwaysAnsweredOnce == Spec => []AnsweredOnce
<1>1. Init => TypeOK /\ AnsweredOnce
  <2> SUFFICES ASSUME Init, NEW n \in Nodes
               PROVE  invitations_accepted[n] + Unanswered(n) <= term[n] * Len(Peers[n])
    BY InitType DEF AnsweredOnce
  <2>1. OpenIn(outbox, n) = {} /\ OpenIn(hand, n) = {}
    BY DEF Init, OpenIn, Open
  <2>2. Unanswered(n) = 0 + 0
    BY <2>1, FS_EmptySet DEF Unanswered
  <2>3. invitations_accepted[n] = 0 /\ term[n] = 0 /\ Len(Peers[n]) \in Nat
    BY PeersAssumption DEF Init
  <2> QED BY <2>2, <2>3
<1>2. TypeOK /\ AnsweredOnce /\ [Next]_vars => TypeOK' /\ AnsweredOnce'
  BY TypeStep, OnceStep
<1> QED BY <1>1, <1>2, PTL DEF Spec

-----------------------------------------------------------------------------
(***************************************************************************)
(* Elections that one node begins, all of them.  Whoever leads, and        *)
(* whatever anybody believes, it is that node: two leaders take two nodes  *)
(* that begin elections.                                                   *)
(***************************************************************************)

\* Nobody but c has begun an election.
OnlyBegins(c) == \A n \in Nodes \ {c} : term[n] = 0

\* Whoever invites or announces itself in q is c, and tells others.
Speaks(q, c) ==
  \A i \in DOMAIN q :
    q[i].type \in {"INVITATION", "LEADER"} => q[i].from = c /\ q[i].to # c

\* Nobody but c is candidate or leader, is believed to lead, or holds a leader's flag.
OneOpinion(c) ==
  /\ current_leader \subseteq {c}
  /\ \A n \in Nodes :
       /\ leader_id[n] \subseteq {c}
       /\ n # c => state[n] \in {"IDLE", "FOLLOWER"} /\ ~is_leader[n]

OneVoice(c) ==
  /\ \A n \in Nodes : Speaks(outbox[n], c)
  /\ \A th \in Threads : Speaks(hand[th], c)

LEMMA SpeaksConcat ==
  ASSUME NEW c, NEW q \in Seq(Message), NEW e \in Seq(Message), Speaks(q, c), Speaks(e, c)
  PROVE  Speaks(q \o e, c)
<1>1. \A i \in DOMAIN (q \o e) :
        \/ i \in DOMAIN q /\ (q \o e)[i] = q[i]
        \/ i - Len(q) \in DOMAIN e /\ (q \o e)[i] = e[i - Len(q)]
  OBVIOUS
<1> QED BY <1>1 DEF Speaks

\* What c broadcasts, and the answers of others.
LEMMA SpeaksBroadcast ==
  ASSUME NEW c \in Nodes, NEW type \in Types
  PROVE  Broadcast(type, c) \in Seq(Message) /\ Speaks(Broadcast(type, c), c)
<1>1. \A i \in DOMAIN Peers[c] : Peers[c][i] \in Nodes \ {c}
  BY PeersAssumption
<1>2. DOMAIN Broadcast(type, c) = DOMAIN Peers[c]
      /\ \A i \in DOMAIN Peers[c] : Broadcast(type, c)[i].to = Peers[c][i]
  BY DEF Broadcast, Msg
<1> QED BY <1>1, <1>2, BroadcastType DEF Speaks

LEMMA SpeaksAnswer ==
  ASSUME NEW c, NEW n \in Nodes, NEW m \in Nodes, NEW type \in {"ACCEPT", "REJECT"}
  PROVE  <<Msg(type, n, m)>> \in Seq(Message) /\ Speaks(<<Msg(type, n, m)>>, c)
<1>1. Msg(type, n, m) \in Message /\ Msg(type, n, m).type = type
  BY MsgType DEF Types
<1> QED BY <1>1 DEF Speaks

\* Sending keeps the outboxes as they should be.
LEMMA SpeaksSend ==
  ASSUME TypeOK, NEW c \in Nodes, \A n \in Nodes : Speaks(outbox[n], c),
         NEW n \in Nodes, NEW e \in Seq(Message), Speaks(e, c), Send(n, e)
  PROVE  \A k \in Nodes : Speaks(outbox'[k], c)
<1>1. outbox[n] \in Seq(Message)
  BY DEF TypeOK
<1>2. Speaks(outbox[n] \o e, c)
  BY <1>1, SpeaksConcat
<1> QED BY <1>2 DEF Send, TypeOK

\* Only c decides, and in its own favour.
LEMMA DecideOpinion ==
  ASSUME TypeOK, NEW c \in Nodes, OneOpinion(c), \A n \in Nodes : Speaks(outbox[n], c),
         NEW n \in Nodes, NEW G, state[n] = "CANDIDATE",
         \/ DecideLeadership(n, G)
         \/ UNCHANGED <<state, leader_id, outbox, leaderVars>>
  PROVE  OneOpinion(c)' /\ \A k \in Nodes : Speaks(outbox'[k], c)
<1>1. n = c
  BY DEF OneOpinion
<1>2. CASE UNCHANGED <<state, leader_id, outbox, leaderVars>>
  BY <1>2 DEF OneOpinion, leaderVars
<1>3. CASE BecomeLeader(n)
  <2>1. OneOpinion(c)'
    BY <1>1, <1>3 DEF OneOpinion, BecomeLeader, TypeOK
  <2>2. "LEADER" \in Types
    BY DEF Types
  <2>3. /\ Send(n, Broadcast("LEADER", n)) /\ Broadcast("LEADER", n) \in Seq(Message)
        /\ Speaks(Broadcast("LEADER", n), c)
    BY <1>1, <1>3, <2>2, SpeaksBroadcast DEF BecomeLeader
  <2> QED BY <2>1, <2>3, SpeaksSend
<1> QED BY <1>2, <1>3 DEF DecideLeadership

LEMMA ReceiveOpinion ==
  ASSUME TypeOK, NEW c \in Nodes, OneOpinion(c), OneVoice(c), NEW th \in Threads,
         Receive(th)
  PROVE  OneOpinion(c)' /\ OneVoice(c)'
<1> DEFINE m == Head(hand[th])
           n == Head(hand[th]).to
<1>1. hand[th] # <<>> /\ Handed(th) /\ hand[th] \in Seq(Message)
  BY DEF Receive, AcceptInvitation, RejectInvitation, ReceiveAccept,
         ReceiveReject, IgnoreAnswer, FollowLeader, IgnoreLeader, InHand, TypeOK
<1>2. n \in Nodes /\ m.from \in Nodes
  BY <1>1, HandedType
<1>3. m.type \in {"INVITATION", "LEADER"} => m.from = c /\ n # c
  BY <1>1, FirstInHand DEF OneVoice, Speaks
<1>4. Speaks(Tail(hand[th]), c)
  BY <1>1, FirstInHand DEF OneVoice, Speaks
<1>5. \A t \in Threads : Speaks(hand'[t], c)
  BY <1>1, <1>4 DEF OneVoice, Handed, TypeOK
<1>6. \A k \in Nodes : Speaks(outbox[k], c)
  BY DEF OneVoice
<1> HIDE DEF m, n
<1>7. CASE AcceptInvitation(th)
  <2>1. m.from = c
    BY <1>3, <1>7 DEF AcceptInvitation, InHand, m
  <2>2. /\ state' = [state EXCEPT ![n] = "FOLLOWER"]
        /\ leader_id' = [leader_id EXCEPT ![n] = {c}]
        /\ Send(n, <<Msg("ACCEPT", n, m.from)>>)
        /\ UNCHANGED leaderVars
    BY <1>7, <2>1 DEF AcceptInvitation, m, n
  <2>3. OneOpinion(c)'
    BY <1>2, <2>2 DEF OneOpinion, TypeOK, leaderVars
  <2>4. \A k \in Nodes : Speaks(outbox'[k], c)
    BY <1>2, <1>6, <2>2, SpeaksAnswer, SpeaksSend
  <2> QED BY <1>5, <2>3, <2>4 DEF OneVoice
<1>8. CASE RejectInvitation(th)
  <2>1. /\ Send(n, <<Msg("REJECT", n, m.from)>>)
        /\ UNCHANGED <<state, leader_id, leaderVars>>
    BY <1>8 DEF RejectInvitation, groupVars, m, n
  <2>2. \A k \in Nodes : Speaks(outbox'[k], c)
    BY <1>2, <1>6, <2>1, SpeaksAnswer, SpeaksSend
  <2> QED BY <1>5, <2>1, <2>2 DEF OneVoice, OneOpinion, leaderVars
<1>9. CASE ReceiveAccept(th) \/ ReceiveReject(th)
  <2>1. PICK G : \/ DecideLeadership(n, G)
                 \/ UNCHANGED <<state, leader_id, outbox, leaderVars>>
    BY <1>9 DEF ReceiveAccept, ReceiveReject, DecideIfAnswered, n
  <2>2. state[n] = "CANDIDATE"
    BY <1>9 DEF ReceiveAccept, ReceiveReject, n
  <2>3. OneOpinion(c)' /\ \A k \in Nodes : Speaks(outbox'[k], c)
    BY <1>2, <1>6, <2>1, <2>2, DecideOpinion
  <2> QED BY <1>5, <2>3 DEF OneVoice
<1>10. CASE IgnoreAnswer(th) \/ IgnoreLeader(th)
  BY <1>5, <1>10 DEF IgnoreAnswer, IgnoreLeader, groupVars, leaderVars, OneVoice,
                     OneOpinion
<1>11. CASE FollowLeader(th)
  <2>1. m.from = c
    BY <1>3, <1>11 DEF FollowLeader, InHand, m
  <2>2. /\ state' = [state EXCEPT ![n] = "FOLLOWER"]
        /\ leader_id' = [leader_id EXCEPT ![n] = {c}]
        /\ current_leader' = {c}
        /\ is_leader' = [is_leader EXCEPT ![n] = FALSE]
        /\ outbox' = outbox
    BY <1>11, <2>1 DEF FollowLeader, m, n
  <2>3. OneOpinion(c)'
    BY <1>2, <2>2 DEF OneOpinion, TypeOK
  <2> QED BY <1>5, <1>6, <2>2, <2>3 DEF OneVoice
<1> QED BY <1>7, <1>8, <1>9, <1>10, <1>11 DEF Receive

\* An election begins: it is c that begins it.
LEMMA CandidacyOpinion ==
  ASSUME TypeOK, NEW c \in Nodes, OneOpinion(c), OneVoice(c), OnlyBegins(c)',
         NEW n \in Nodes, ElectLeader(n) \/ SuspectLeader(n)
  PROVE  OneOpinion(c)' /\ OneVoice(c)'
<1>1. Candidacy(n) /\ UNCHANGED <<hand, leaderVars>>
      /\ leader_id' \in {leader_id, [leader_id EXCEPT ![n] = {}]}
  BY DEF ElectLeader, SuspectLeader, threadVars
<1>2. n = c
  <2>1. term[n] \in Nat /\ term'[n] = term[n] + 1
    BY <1>1 DEF TypeOK, Candidacy
  <2>2. term'[n] # 0
    BY <2>1
  <2> QED BY <2>2 DEF OnlyBegins
<1>3. OneOpinion(c)'
  BY <1>1, <1>2 DEF OneOpinion, Candidacy, TypeOK, leaderVars
<1>4. "INVITATION" \in Types
  BY DEF Types
<1>5. /\ Send(n, Broadcast("INVITATION", n)) /\ Broadcast("INVITATION", n) \in Seq(Message)
      /\ Speaks(Broadcast("INVITATION", n), c)
  BY <1>1, <1>2, <1>4, SpeaksBroadcast DEF Candidacy
<1>6. \A k \in Nodes : Speaks(outbox'[k], c)
  BY <1>5, SpeaksSend DEF OneVoice
<1> QED BY <1>1, <1>3, <1>6 DEF OneVoice

LEMMA RoundOpinion ==
  ASSUME TypeOK, NEW c \in Nodes, OneOpinion(c), OneVoice(c),
         BeginRound \/ SetLeaders \/ \E th \in Threads : TakeOutbox(th)
  PROVE  OneOpinion(c)' /\ OneVoice(c)'
<1>1. CASE BeginRound
  <2>1. ASSUME NEW n \in Nodes PROVE Speaks(outbox'[n], c)
    <3>1. outbox[n] \in Seq(Message) /\ Speaks(outbox[n], c) /\ "LEADER" \in Types
      BY DEF TypeOK, OneVoice, Types
    <3>2. CASE n = c
      <4>1. Speaks(outbox[n] \o Broadcast("LEADER", n), c)
        BY <3>1, <3>2, SpeaksBroadcast, SpeaksConcat
      <4> QED BY <1>1, <3>1, <4>1 DEF BeginRound
    <3>3. CASE n # c
      <4>1. n \notin current_leader
        BY <3>3 DEF OneOpinion
      <4> QED BY <1>1, <3>1, <4>1 DEF BeginRound
    <3> QED BY <3>2, <3>3
  <2> QED BY <1>1, <2>1 DEF BeginRound, OneOpinion, OneVoice, groupVars, leaderVars
<1>2. CASE SetLeaders
  <2>1. \A n \in Nodes : n # c => ~is_leader'[n]
    <3>1. CASE current_leader = {}
      BY <1>2, <3>1 DEF SetLeaders, OneOpinion
    <3>2. CASE current_leader # {}
      BY <1>2, <3>2 DEF SetLeaders, OneOpinion
    <3> QED BY <3>1, <3>2
  <2> QED BY <1>2, <2>1 DEF SetLeaders, OneOpinion, OneVoice, groupVars
<1>3. ASSUME NEW th \in Threads, TakeOutbox(th) PROVE OneOpinion(c)' /\ OneVoice(c)'
  <2> DEFINE n == Roster[visit[th]]
  <2>1. n \in Nodes
    BY <1>3, TakeOutboxType
  <2>2. /\ hand' = [hand EXCEPT ![th] = outbox[n]]
        /\ outbox' = [outbox EXCEPT ![n] = <<>>]
        /\ UNCHANGED <<state, leader_id, leaderVars>>
    BY <1>3 DEF TakeOutbox, Emptied, groupVars
  <2> HIDE DEF n
  <2>3. Speaks(<<>>, c)
    BY DEF Speaks
  <2>4. OneVoice(c)'
    BY <2>1, <2>2, <2>3 DEF OneVoice, TypeOK
  <2> QED BY <2>2, <2>4 DEF OneOpinion, leaderVars
<1> QED BY <1>1, <1>2, <1>3

LEMMA OpinionStep ==
  ASSUME TypeOK, NEW c \in Nodes, OneOpinion(c), OneVoice(c), OnlyBegins(c)', [Next]_vars
  PROVE  OneOpinion(c)' /\ OneVoice(c)'
<1>1. CASE \E th \in Threads : Receive(th) \/ TakeOutbox(th)
  BY <1>1, ReceiveOpinion, RoundOpinion
<1>2. ASSUME NEW n \in Nodes, Timeout(n) PROVE OneOpinion(c)' /\ OneVoice(c)'
  <2>1. hand' = hand
    BY <1>2 DEF Timeout, threadVars
  <2>2. CASE state[n] = "CANDIDATE"
    <3>1. PICK G : \/ DecideLeadership(n, G)
                   \/ UNCHANGED <<state, leader_id, outbox, leaderVars>>
      BY <1>2 DEF Timeout
    <3> QED BY <2>1, <2>2, <3>1, DecideOpinion DEF OneVoice
  <2>3. CASE state[n] # "CANDIDATE"
    <3>1. UNCHANGED <<state, leader_id, outbox, leaderVars>>
      BY <1>2, <2>3 DEF Timeout
    <3> QED BY <2>1, <3>1 DEF OneVoice, OneOpinion, leaderVars
  <2> QED BY <2>2, <2>3
<1>3. ASSUME NEW n \in Nodes, SuspectLeader(n) PROVE OneOpinion(c)' /\ OneVoice(c)'
  BY <1>3, CandidacyOpinion
<1>4. CASE BeginRound \/ SetLeaders
  BY <1>4, RoundOpinion
<1>5. ASSUME NEW n \in Nodes, ElectLeader(n) PROVE OneOpinion(c)' /\ OneVoice(c)'
  BY <1>5, CandidacyOpinion
<1>6. ASSUME NEW n \in Nodes, ElectCandidate(n) PROVE OneOpinion(c)' /\ OneVoice(c)'
  BY <1>6 DEF ElectCandidate, groupVars, leaderVars, OneVoice, OneOpinion
<1>7. CASE UNCHANGED vars
  BY <1>7 DEF vars, groupVars, leaderVars, threadVars, OneVoice, OneOpinion
<1> QED BY <1>1, <1>2, <1>3, <1>4, <1>5, <1>6, <1>7, ElectionBounds DEF Next, Calls

\* As long as one node begins all elections, however many and by calls or by suspicion,
\* nobody else ever leads, follows another, or holds a leader's flag (handle_message,
\* elect_leader, check_leader_heartbeat).
THEOREM OneInitiatorOneOpinion ==
  ASSUME NEW c \in Nodes
  PROVE  Spec /\ []OnlyBegins(c) => []OneOpinion(c)
<1>1. Init => OneOpinion(c) /\ OneVoice(c)
  BY DEF Init, OneOpinion, OneVoice, Speaks
<1>2. TypeOK /\ OneOpinion(c) /\ OneVoice(c) /\ OnlyBegins(c)' /\ [Next]_vars
        => OneOpinion(c)' /\ OneVoice(c)'
  BY OpinionStep
<1> QED BY <1>1, <1>2, TypeCorrect, PTL DEF Spec

\* So it takes two nodes that begin elections to have two leaders: what the run of
\* AtMostOneLeader shows does not happen to one candidate alone, whatever becomes of
\* its timers and of the answers to earlier elections (_decide_leadership).
THEOREM SplitNeedsTwoInitiators ==
  ASSUME NEW c \in Nodes
  PROVE  Spec /\ []OnlyBegins(c) => []AtMostOneLeader
<1>1. OneOpinion(c) => AtMostOneLeader
  BY DEF OneOpinion, AtMostOneLeader
<1> QED BY <1>1, OneInitiatorOneOpinion, PTL

-----------------------------------------------------------------------------
(***************************************************************************)
(* Elections that are called for the node of the highest id only, as       *)
(* start_simulation calls the one it holds (with fewer than ten zones,     *)
(* ids are ordered as zones are).  Then nobody else ever begins one, as    *)
(* nobody has cause to suspect the leader.                                 *)
(***************************************************************************)

\* c is not begun yet and nothing is about, or it leads or soon will: a candidate has a
\* timer left, and whoever has heard of a leader has heard of c.
InOffice(c) ==
  /\ OnlyBegins(c)
  /\ state[c] # "FOLLOWER"
  /\ state[c] = "CANDIDATE" => timers[c] > 0
  /\ \A n \in Nodes : heard[n] => current_leader = {c}
  /\ state[c] = "IDLE" =>
       /\ current_leader = {}
       /\ \A n \in Nodes : outbox[n] = <<>>
       /\ \A th \in Threads : hand[th] = <<>>

\* The parts a step of the election of c can disturb.
LEMMA OfficeKept ==
  ASSUME TypeOK, NEW c \in Nodes, InOffice(c), state[c] # "IDLE",
         UNCHANGED <<term, heard>>, current_leader' \in {current_leader, {c}},
         state'[c] # "FOLLOWER", state'[c] # "IDLE",
         state'[c] = "CANDIDATE" => timers'[c] > 0
  PROVE  InOffice(c)'
  BY DEF InOffice, OnlyBegins

\* The highest node leads whatever group it has.
LEMMA HighestDecides ==
  ASSUME TypeOK, NEW c \in Nodes, \A n \in Nodes : n <= c, NEW G \in SUBSET Nodes,
         DecideLeadership(c, G)
  PROVE  state'[c] = "LEADER" /\ current_leader' = {c}
<1>1. Highest(c, G)
  BY DEF Highest
<1> QED BY <1>1 DEF DecideLeadership, BecomeLeader, TypeOK

LEMMA ReceiveOffice ==
  ASSUME TypeOK, NEW c \in Nodes, \A n \in Nodes : n <= c,
         OneOpinion(c), OneVoice(c), InOffice(c), NEW th \in Threads, Receive(th)
  PROVE  InOffice(c)'
<1> DEFINE m == Head(hand[th])
           n == Head(hand[th]).to
<1>1. hand[th] # <<>> /\ Handed(th) /\ hand[th] \in Seq(Message)
  BY DEF Receive, AcceptInvitation, RejectInvitation, ReceiveAccept,
         ReceiveReject, IgnoreAnswer, FollowLeader, IgnoreLeader, InHand, TypeOK
<1>2. n \in Nodes /\ m.from \in Nodes
  BY <1>1, HandedType
<1>3. m.type \in {"INVITATION", "LEADER"} => m.from = c /\ n # c
  BY <1>1, FirstInHand DEF OneVoice, Speaks
<1>4. state[c] # "IDLE" /\ state[c] # "FOLLOWER"
  BY <1>1 DEF InOffice
<1> HIDE DEF m, n
<1>5. CASE AcceptInvitation(th)
  <2>1. n # c
    BY <1>3, <1>5 DEF AcceptInvitation, InHand, m
  <2>2. state' = [state EXCEPT ![n] = "FOLLOWER"]
        /\ UNCHANGED <<term, timers, heard, current_leader>>
    BY <1>5 DEF AcceptInvitation, leaderVars, n
  <2>3. state'[c] = state[c]
    BY <1>2, <2>1, <2>2 DEF TypeOK
  <2> QED BY <1>4, <2>2, <2>3, OfficeKept DEF InOffice
<1>6. CASE RejectInvitation(th) \/ IgnoreAnswer(th) \/ IgnoreLeader(th)
  <2>1. UNCHANGED <<state, term, timers, heard, current_leader>>
    BY <1>6 DEF RejectInvitation, IgnoreAnswer, IgnoreLeader, groupVars, leaderVars
  <2> QED BY <1>4, <2>1, OfficeKept DEF InOffice
<1>7. CASE ReceiveAccept(th) \/ ReceiveReject(th)
  <2>1. UNCHANGED <<term, timers, heard>> /\ state[n] = "CANDIDATE"
    BY <1>7 DEF ReceiveAccept, ReceiveReject, n
  <2>2. n = c
    BY <1>2, <2>1 DEF OneOpinion
  <2>3. \/ \E G \in SUBSET Nodes : DecideLeadership(n, G)
        \/ UNCHANGED <<state, leader_id, outbox, leaderVars>>
    <3>1. group_members[n] \in SUBSET Nodes /\ group_members[n] \cup {m.from} \in SUBSET Nodes
      BY <1>2 DEF TypeOK
    <3> QED BY <1>7, <3>1 DEF ReceiveAccept, ReceiveReject, DecideIfAnswered, m, n
  <2>4. CASE \E G \in SUBSET Nodes : DecideLeadership(n, G)
    <3>1. state'[c] = "LEADER" /\ current_leader' = {c}
      BY <2>2, <2>4, HighestDecides
    <3> QED BY <1>4, <2>1, <3>1, OfficeKept
  <2>5. CASE UNCHANGED <<state, leader_id, outbox, leaderVars>>
    <3>1. UNCHANGED <<state, term, timers, heard, current_leader>>
      BY <2>1, <2>5 DEF leaderVars
    <3> QED BY <1>4, <3>1, OfficeKept DEF InOffice
  <2> QED BY <2>3, <2>4, <2>5
<1>8. CASE FollowLeader(th)
  <2>1. m.from = c /\ n # c
    BY <1>3, <1>8 DEF FollowLeader, InHand, m
  <2>2. /\ state' = [state EXCEPT ![n] = "FOLLOWER"]
        /\ heard' = [heard EXCEPT ![n] = TRUE]
        /\ current_leader' = {c}
        /\ UNCHANGED <<term, timers>>
    BY <1>8, <2>1 DEF FollowLeader, m, n
  <2>3. state'[c] = state[c]
    BY <1>2, <2>1, <2>2 DEF TypeOK
  <2> QED BY <1>4, <2>2, <2>3 DEF InOffice, OnlyBegins
<1> QED BY <1>5, <1>6, <1>7, <1>8 DEF Receive

LEMMA TimeoutOffice ==
  ASSUME TypeOK, NEW c \in Nodes, \A n \in Nodes : n <= c,
         OneOpinion(c), InOffice(c), NEW n \in Nodes, Timeout(n)
  PROVE  InOffice(c)'
<1>1. UNCHANGED <<term, heard, hand>>
  BY DEF Timeout, threadVars
<1>2. CASE state[n] = "CANDIDATE"
  <2>1. n = c /\ group_members[n] \in SUBSET Nodes
    BY <1>2 DEF OneOpinion, TypeOK
  <2>2. state'[c] = "LEADER" /\ current_leader' = {c}
    BY <1>2, <2>1, HighestDecides DEF Timeout
  <2> QED BY <1>1, <1>2, <2>1, <2>2, OfficeKept
<1>3. CASE state[n] # "CANDIDATE"
  <2>1. UNCHANGED <<state, outbox, current_leader>>
    BY <1>3 DEF Timeout, leaderVars
  <2>2. state[c] = "CANDIDATE" => timers'[c] = timers[c]
    BY <1>3 DEF Timeout, TypeOK
  <2> QED BY <1>1, <2>1, <2>2 DEF InOffice, OnlyBegins
<1> QED BY <1>2, <1>3

LEMMA RoundOffice ==
  ASSUME TypeOK, NEW c \in Nodes, OneOpinion(c), InOffice(c),
         BeginRound \/ SetLeaders \/ \E th \in Threads : TakeOutbox(th)
  PROVE  InOffice(c)'
<1>1. UNCHANGED <<state, term, timers, heard, current_leader>>
  BY DEF BeginRound, SetLeaders, TakeOutbox, groupVars, leaderVars
<1>2. ASSUME state[c] = "IDLE"
      PROVE  /\ \A n \in Nodes : outbox'[n] = <<>>
             /\ \A th \in Threads : hand'[th] = <<>>
  <2>1. /\ current_leader = {} /\ \A n \in Nodes : outbox[n] = <<>>
        /\ \A th \in Threads : hand[th] = <<>>
    BY <1>2 DEF InOffice
  <2>2. CASE BeginRound \/ SetLeaders
    BY <2>1, <2>2 DEF BeginRound, SetLeaders
  <2>3. ASSUME NEW th \in Threads, TakeOutbox(th)
        PROVE  /\ \A n \in Nodes : outbox'[n] = <<>>
               /\ \A t \in Threads : hand'[t] = <<>>
    <3>1. PICK n \in Nodes : /\ hand' = [hand EXCEPT ![th] = outbox[n]]
                             /\ outbox' = [outbox EXCEPT ![n] = <<>>]
      BY <2>3, TakeOutboxType DEF TakeOutbox, Emptied
    <3> QED BY <2>1, <3>1 DEF TypeOK
  <2> QED BY <2>2, <2>3
<1> QED BY <1>1, <1>2 DEF InOffice, OnlyBegins

LEMMA OfficeStep ==
  ASSUME TypeOK, NEW c \in Nodes, \A n \in Nodes : n <= c, Initiators \subseteq {c},
         OneOpinion(c), OneVoice(c), InOffice(c), [Next]_vars
  PROVE  InOffice(c)'
<1>1. CASE \E th \in Threads : Receive(th) \/ TakeOutbox(th)
  BY <1>1, ReceiveOffice, RoundOffice
<1>2. ASSUME NEW n \in Nodes, Timeout(n) PROVE InOffice(c)'
  BY <1>2, TimeoutOffice
<1>3. ASSUME NEW n \in Nodes, SuspectLeader(n) PROVE FALSE
  <2>1. current_leader = {c} /\ n # c
    BY <1>3 DEF SuspectLeader, InOffice
  <2>2. state[c] # "LEADER" /\ timers[c] = 0
    BY <1>3, <2>1 DEF SuspectLeader, Silent
  <2>3. state[c] \in States /\ state[c] # "IDLE"
    BY <2>1 DEF InOffice, TypeOK
  <2> QED BY <2>2, <2>3 DEF InOffice, States
<1>4. CASE BeginRound \/ SetLeaders
  BY <1>4, RoundOffice
<1>5. ASSUME ElectLeader(c) PROVE InOffice(c)'
  <2>1. /\ state'[c] = "CANDIDATE" /\ timers'[c] = timers[c] + 1 /\ timers[c] \in Nat
        /\ \A n \in Nodes \ {c} : term'[n] = term[n]
        /\ UNCHANGED <<heard, current_leader>>
    BY <1>5 DEF ElectLeader, Candidacy, leaderVars, TypeOK
  <2> QED BY <2>1 DEF InOffice, OnlyBegins
<1>6. ASSUME ElectCandidate(c) PROVE InOffice(c)'
  BY <1>6 DEF ElectCandidate, groupVars, leaderVars, InOffice, OnlyBegins
<1>7. CASE UNCHANGED vars
  BY <1>7 DEF vars, groupVars, leaderVars, threadVars, InOffice, OnlyBegins
<1> QED BY <1>1, <1>2, <1>3, <1>4, <1>5, <1>6, <1>7 DEF Next, Calls

\* When elect_leader is called for the highest node only, any number of times, nobody
\* else ever begins an election, leads, or is believed to lead: a candidate never stays
\* without a timer, so nobody finds its leader silent (elect_leader,
\* check_leader_heartbeat, _decide_leadership).
THEOREM HighestAloneInOffice ==
  ASSUME NEW c \in Nodes, \A n \in Nodes : n <= c, Initiators \subseteq {c}
  PROVE  Spec => [](OneOpinion(c) /\ InOffice(c))
<1>1. Init => OneOpinion(c) /\ OneVoice(c) /\ InOffice(c)
  BY DEF Init, OneOpinion, OneVoice, Speaks, InOffice, OnlyBegins
<1>2. TypeOK /\ OneOpinion(c) /\ OneVoice(c) /\ InOffice(c) /\ [Next]_vars
        => OneOpinion(c)' /\ OneVoice(c)' /\ InOffice(c)'
  <2> SUFFICES ASSUME TypeOK, OneOpinion(c), OneVoice(c), InOffice(c), [Next]_vars
               PROVE  OneOpinion(c)' /\ OneVoice(c)' /\ InOffice(c)'
    OBVIOUS
  <2>1. InOffice(c)'
    BY OfficeStep
  <2>2. OnlyBegins(c)'
    BY <2>1 DEF InOffice
  <2> QED BY <2>1, <2>2, OpinionStep
<1> QED BY <1>1, <1>2, TypeCorrect, PTL DEF Spec

\* So such a system never has two leaders: one that nobody but start_simulation calls
\* elections in, as the web console starts it (start_simulation).
THEOREM HighestLeadsAlone ==
  ASSUME NEW c \in Nodes, \A n \in Nodes : n <= c, Initiators \subseteq {c}
  PROVE  Spec => []AtMostOneLeader
<1>1. OneOpinion(c) => AtMostOneLeader
  BY DEF OneOpinion, AtMostOneLeader
<1> QED BY <1>1, HighestAloneInOffice, PTL
=============================================================================
