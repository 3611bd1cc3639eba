-------------------------- MODULE InvitationElection --------------------------
(***************************************************************************)
(* Leader election by invitation (modules/election_module): the election   *)
(* objects of all nodes, LeaderManager, and the leader flags of the nodes. *)
(*                                                                         *)
(* Two threads deliver messages: the monitor of start_heartbeat_service,   *)
(* and the caller of elect_leader.  Each visits the nodes in turn, takes   *)
(* the whole outbox of the node into its hand, and hands out the messages  *)
(* one by one.  A handler is one action: it runs under the node's lock.    *)
(* Nodes are numbered by the order of their ids, which are strings.        *)
(***************************************************************************)
EXTENDS Integers, Sequences, FiniteSets, FiniteSetsExt

CONSTANTS
  Nodes,      \* the nodes, numbered in the (string) order of their ids
  Roster,     \* the nodes in the order of election_nodes
  Peers,      \* Peers[n]: the other nodes in the order of all_node_ids
  Initiators, \* model bound: the nodes elect_leader is called for
  MaxElections, \* model bound: elections begun by calls; one more by suspicion
  Prompt      \* TRUE: timers end only when every message was delivered

ASSUME NodesAssumption == Nodes \subseteq Nat /\ IsFiniteSet(Nodes) /\ Nodes # {}
ASSUME RosterAssumption ==
  Roster \in Seq(Nodes) /\ Nodes = {Roster[i] : i \in DOMAIN Roster}
ASSUME PeersAssumption ==
  /\ Peers \in [Nodes -> Seq(Nodes)]
  /\ \A n \in Nodes : Nodes \ {n} = {Peers[n][i] : i \in DOMAIN Peers[n]}
ASSUME ElectionBounds ==
  Initiators \subseteq Nodes /\ MaxElections \in Nat /\ Prompt \in BOOLEAN

VARIABLES
  state,                 \* ElectionState.state
  leader_id,             \* whom the node follows, {}: nobody
  group_members,
  term,                  \* elections the node has begun
  invitations_accepted,  \* answers counted, over all elections of the node
  invitations_rejected,
  heard,                 \* last_leader_heartbeat is set
  timers,                \* election timers of the node still sleeping
  outbox,
  current_leader,        \* of the LeaderManager, {}: none yet
  is_leader,             \* FogNode.is_leader
  visit,                 \* node a delivering thread visits next, 0: none
  hand                   \* messages the thread took out of an outbox

groupVars == <<leader_id, group_members, heard>>
countVars == <<invitations_accepted, invitations_rejected>>
leaderVars == <<current_leader, is_leader>>
threadVars == <<visit, hand>>
vars == <<state, term, timers, outbox, groupVars, countVars, leaderVars,
          threadVars>>

States == {"IDLE", "CANDIDATE", "FOLLOWER", "LEADER"}
Types == {"INVITATION", "ACCEPT", "REJECT", "LEADER"}
Message == [type : Types, from : Nodes, to : Nodes]
Threads == {"monitor", "caller"}

Msg(type, n, m) == [type |-> type, from |-> n, to |-> m]

\* A message of this type to every other node.
Broadcast(type, n) == [i \in DOMAIN Peers[n] |-> Msg(type, n, Peers[n][i])]

Send(n, messages) == outbox' = [outbox EXCEPT ![n] = @ \o messages]

-----------------------------------------------------------------------------
(***************************************************************************)
(* Beginning and deciding an election.                                     *)
(***************************************************************************)

\* All elections begun so far.
Begun == MapThenSumSet(LAMBDA n : term[n], Nodes)

\* become_candidate, the invitations, the timer.
Candidacy(n) ==
  /\ state' = [state EXCEPT ![n] = "CANDIDATE"]
  /\ group_members' = [group_members EXCEPT ![n] = {n}]
  /\ term' = [term EXCEPT ![n] = @ + 1]
  /\ timers' = [timers EXCEPT ![n] = @ + 1]
  /\ Send(n, Broadcast("INVITATION", n))

\* elect_leader(n), from the command line or the web console: the caller goes
\* on to deliver messages.
ElectLeader(n) ==
  /\ visit["caller"] = 0
  /\ Begun < MaxElections
  /\ state[n] # "CANDIDATE"
  /\ Candidacy(n)
  /\ visit' = [visit EXCEPT !["caller"] = 1]
  /\ UNCHANGED <<leader_id, heard, hand, countVars, leaderVars>>

\* elect_leader for a candidate begins nothing, the caller delivers messages.
ElectCandidate(n) ==
  /\ visit["caller"] = 0
  /\ state[n] = "CANDIDATE"
  /\ visit' = [visit EXCEPT !["caller"] = 1]
  /\ UNCHANGED <<state, term, timers, outbox, hand, groupVars, countVars,
                 leaderVars>>

\* n is leader, and tells everybody.
BecomeLeader(n) ==
  /\ state' = [state EXCEPT ![n] = "LEADER"]
  /\ leader_id' = [leader_id EXCEPT ![n] = {n}]
  /\ Send(n, Broadcast("LEADER", n))
  /\ current_leader' = {n}
  /\ is_leader' = [is_leader EXCEPT ![n] = TRUE]

\* Faulty variant of Highest: whoever decides wins.
Highest_Any(n, G) == TRUE

Highest(n, G) == \A m \in G : m <= n

\* _decide_leadership of candidate n, whose group is G.
DecideLeadership(n, G) ==
  \/ Highest(n, G) /\ BecomeLeader(n)
  \/ ~Highest(n, G) /\ UNCHANGED <<state, leader_id, outbox, leaderVars>>

Delivered ==
  /\ \A n \in Nodes : outbox[n] = <<>>
  /\ \A th \in Threads : hand[th] = <<>>

\* Faulty variant of Timeout: does not check that the node is a candidate.
Timeout_Unchecked(n) ==
  /\ timers[n] > 0
  /\ Prompt => Delivered
  /\ timers' = [timers EXCEPT ![n] = @ - 1]
  /\ DecideLeadership(n, group_members[n])
  /\ UNCHANGED <<term, group_members, heard, countVars, threadVars>>

\* The timer of an election, of this one or of an earlier one, has slept.
Timeout(n) ==
  /\ timers[n] > 0
  /\ Prompt => Delivered
  /\ timers' = [timers EXCEPT ![n] = @ - 1]
  /\ \/ state[n] = "CANDIDATE" /\ DecideLeadership(n, group_members[n])
     \/ state[n] # "CANDIDATE" /\ UNCHANGED <<state, leader_id, outbox, leaderVars>>
  /\ UNCHANGED <<term, group_members, heard, countVars, threadVars>>

-----------------------------------------------------------------------------
(***************************************************************************)
(* Receiving a message: m is the first one in the hand of thread th.       *)
(***************************************************************************)
InHand(th, type) == hand[th] # <<>> /\ Head(hand[th]).type = type

Handed(th) == hand' = [hand EXCEPT ![th] = Tail(@)] /\ UNCHANGED visit

\* An idle node joins any candidate, a candidate only a higher one.
Joins(n, s) ==
  state[n] = "IDLE" \/ (state[n] = "CANDIDATE" /\ s > n)

AcceptInvitation(th) ==
  /\ InHand(th, "INVITATION")
  /\ LET m == Head(hand[th])
         n == m.to
     IN  /\ Joins(n, m.from)
         /\ state' = [state EXCEPT ![n] = "FOLLOWER"]
         /\ leader_id' = [leader_id EXCEPT ![n] = {m.from}]
         /\ group_members' = [group_members EXCEPT ![n] = {n, m.from}]
         /\ Send(n, <<Msg("ACCEPT", n, m.from)>>)
  /\ Handed(th)
  /\ UNCHANGED <<term, timers, heard, countVars, leaderVars>>

\* A candidate that declines counts it with the rejections it received.
RejectInvitation(th) ==
  /\ InHand(th, "INVITATION")
  /\ LET m == Head(hand[th])
         n == m.to
     IN  /\ ~Joins(n, m.from)
         /\ Send(n, <<Msg("REJECT", n, m.from)>>)
         /\ invitations_rejected' = [invitations_rejected EXCEPT
              ![n] = IF state[n] = "CANDIDATE" THEN @ + 1 ELSE @]
  /\ Handed(th)
  /\ UNCHANGED <<state, term, timers, invitations_accepted, groupVars,
                 leaderVars>>

\* "All responses collected": the counts cover every other node.
AllAnswered(n, accepted, rejected) ==
  accepted + rejected >= Cardinality(Nodes) - 1

DecideIfAnswered(n, G, accepted, rejected) ==
  \/ AllAnswered(n, accepted, rejected) /\ DecideLeadership(n, G)
  \/ /\ ~AllAnswered(n, accepted, rejected)
     /\ UNCHANGED <<state, leader_id, outbox, leaderVars>>

ReceiveAccept(th) ==
  /\ InHand(th, "ACCEPT")
  /\ LET m == Head(hand[th])
         n == m.to
     IN  /\ state[n] = "CANDIDATE"
         /\ group_members' = [group_members EXCEPT ![n] = @ \cup {m.from}]
         /\ invitations_accepted' = [invitations_accepted EXCEPT ![n] = @ + 1]
         /\ DecideIfAnswered(n, group_members[n] \cup {m.from},
              invitations_accepted[n] + 1, invitations_rejected[n])
  /\ Handed(th)
  /\ UNCHANGED <<term, timers, heard, invitations_rejected>>

ReceiveReject(th) ==
  /\ InHand(th, "REJECT")
  /\ LET n == Head(hand[th]).to
     IN  /\ state[n] = "CANDIDATE"
         /\ invitations_rejected' = [invitations_rejected EXCEPT ![n] = @ + 1]
         /\ DecideIfAnswered(n, group_members[n],
              invitations_accepted[n], invitations_rejected[n] + 1)
  /\ Handed(th)
  /\ UNCHANGED <<term, timers, heard, group_members, invitations_accepted>>

\* Answers that reach a node that is no candidate (any more).
IgnoreAnswer(th) ==
  /\ InHand(th, "ACCEPT") \/ InHand(th, "REJECT")
  /\ state[Head(hand[th]).to] # "CANDIDATE"
  /\ Handed(th)
  /\ UNCHANGED <<state, term, timers, outbox, groupVars, countVars, leaderVars>>

\* Whatever it was, a node that is not leader itself follows the sender.
FollowLeader(th) ==
  /\ InHand(th, "LEADER")
  /\ LET m == Head(hand[th])
         n == m.to
     IN  /\ state[n] # "LEADER"
         /\ state' = [state EXCEPT ![n] = "FOLLOWER"]
         /\ leader_id' = [leader_id EXCEPT ![n] = {m.from}]
         /\ heard' = [heard EXCEPT ![n] = TRUE]
         /\ current_leader' = {m.from}
         /\ is_leader' = [is_leader EXCEPT ![n] = FALSE]
  /\ Handed(th)
  /\ UNCHANGED <<term, timers, outbox, group_members, countVars>>

IgnoreLeader(th) ==
  /\ InHand(th, "LEADER")
  /\ state[Head(hand[th]).to] = "LEADER"
  /\ Handed(th)
  /\ UNCHANGED <<state, term, timers, outbox, groupVars, countVars, leaderVars>>

-----------------------------------------------------------------------------
(***************************************************************************)
(* The delivering threads.                                                 *)
(***************************************************************************)

\* Faulty variants of VisitAfter: visit one node too many, or too few.
VisitAfter_Past(th) ==
  IF visit[th] <= Len(Roster) THEN visit[th] + 1
  ELSE IF th = "monitor" THEN 0 ELSE 1

VisitAfter_Short(th) ==
  IF visit[th] < Len(Roster) - 1 THEN visit[th] + 1
  ELSE IF th = "monitor" THEN 0 ELSE 1

\* The monitor goes back to sleep after the last node, the caller (who makes
\* twenty rounds) to the first.
VisitAfter(th) ==
  IF visit[th] < Len(Roster) THEN visit[th] + 1
  ELSE IF th = "monitor" THEN 0 ELSE 1

\* Faulty variant of Emptied: the outbox is copied but not cleared.
Emptied_Kept(n) == outbox

\* The outboxes after get_outbox_messages of node n.
Emptied(n) == [outbox EXCEPT ![n] = <<>>]

\* get_outbox_messages of the next node.
TakeOutbox(th) ==
  /\ visit[th] > 0
  /\ hand[th] = <<>>
  /\ LET n == Roster[visit[th]]
     IN  /\ hand' = [hand EXCEPT ![th] = outbox[n]]
         /\ outbox' = Emptied(n)
  /\ visit' = [visit EXCEPT ![th] = VisitAfter(th)]
  /\ UNCHANGED <<state, term, timers, groupVars, countVars, leaderVars>>

\* The end of elect_leader.
SetLeaders ==
  /\ visit["caller"] = 1
  /\ hand["caller"] = <<>>
  /\ visit' = [visit EXCEPT !["caller"] = 0]
  /\ is_leader' = IF current_leader = {} THEN is_leader
                  ELSE [n \in Nodes |-> n \in current_leader]
  /\ UNCHANGED <<state, term, timers, outbox, hand, current_leader, groupVars,
                 countVars>>

Awake == visit["monitor"] = 0 /\ hand["monitor"] = <<>>

\* A round of the monitor begins: the current leader sends its heartbeat, if
\* it is leader.
BeginRound ==
  /\ Awake
  /\ visit' = [visit EXCEPT !["monitor"] = 1]
  /\ outbox' = [n \in Nodes |->
       IF n \in current_leader /\ state[n] = "LEADER"
         THEN outbox[n] \o Broadcast("LEADER", n) ELSE outbox[n]]
  /\ UNCHANGED <<state, term, timers, hand, groupVars, countVars, leaderVars>>

\* The current leader, if any, sends no heartbeats and will not decide soon:
\* an election timer (5 s) ends long before the heartbeat limit (30 s).
Silent == \A l \in current_leader : state[l] # "LEADER" /\ timers[l] = 0

\* check_leader_heartbeat: too long without heartbeat.
SuspectLeader(n) ==
  /\ Awake
  /\ Begun <= MaxElections
  /\ state[n] = "FOLLOWER"
  /\ heard[n]
  /\ n \notin current_leader
  /\ Silent
  /\ Candidacy(n)
  /\ leader_id' = [leader_id EXCEPT ![n] = {}]
  /\ UNCHANGED <<heard, countVars, leaderVars, threadVars>>

-----------------------------------------------------------------------------
Init ==
  /\ state = [n \in Nodes |-> "IDLE"]
  /\ leader_id = [n \in Nodes |-> {}]
  /\ group_members = [n \in Nodes |-> {}]
  /\ term = [n \in Nodes |-> 0]
  /\ invitations_accepted = [n \in Nodes |-> 0]
  /\ invitations_rejected = [n \in Nodes |-> 0]
  /\ heard = [n \in Nodes |-> FALSE]
  /\ timers = [n \in Nodes |-> 0]
  /\ outbox = [n \in Nodes |-> <<>>]
  /\ current_leader = {}
  /\ is_leader = [n \in Nodes |-> FALSE]
  /\ visit = [th \in Threads |-> 0]
  /\ hand = [th \in Threads |-> <<>>]

Receive(th) ==
  \/ AcceptInvitation(th)
  \/ RejectInvitation(th)
  \/ ReceiveAccept(th)
  \/ ReceiveReject(th)
  \/ IgnoreAnswer(th)
  \/ FollowLeader(th)
  \/ IgnoreLeader(th)

Calls == \E n \in Initiators : ElectLeader(n) \/ ElectCandidate(n)

Next ==
  \/ \E th \in Threads : Receive(th) \/ TakeOutbox(th)
  \/ \E n \in Nodes : Timeout(n) \/ SuspectLeader(n)
  \/ BeginRound
  \/ SetLeaders
  \/ Calls

Spec == Init /\ [][Next]_vars

\* Timers end, the monitor comes round every five seconds, and a thread goes
\* on handing out what it holds.
Fairness ==
  /\ \A n \in Nodes : WF_vars(Timeout(n))
  /\ \A th \in Threads : WF_vars(Receive(th))
  /\ WF_vars(TakeOutbox("monitor"))
  /\ WF_vars(BeginRound)

FairSpec == Spec /\ Fairness

-----------------------------------------------------------------------------
(***************************************************************************)
(* Properties.                                                             *)
(***************************************************************************)
Nobody == {{}}
Someone == {{n} : n \in Nodes}

\* Every variable keeps its type.
TypeOK ==
  /\ state \in [Nodes -> States]
  /\ leader_id \in [Nodes -> Nobody \cup Someone]
  /\ group_members \in [Nodes -> SUBSET Nodes]
  /\ term \in [Nodes -> Nat]
  /\ invitations_accepted \in [Nodes -> Nat]
  /\ invitations_rejected \in [Nodes -> Nat]
  /\ heard \in [Nodes -> BOOLEAN]
  /\ timers \in [Nodes -> Nat]
  /\ outbox \in [Nodes -> Seq(Message)]
  /\ current_leader \in Nobody \cup Someone
  /\ is_leader \in [Nodes -> BOOLEAN]
  /\ visit \in [Threads -> 0 .. Len(Roster)]
  /\ hand \in [Threads -> Seq(Message)]

\* Nobody leads a group with a higher node in it, although groups grow while
\* timers and answers of earlier elections are still about
\* (_decide_leadership).
LeaderIsHighestInGroup ==
  \A n \in Nodes : state[n] = "LEADER" => \A m \in group_members[n] : m <= n

\* The message is an invitation of n, or an answer to one.
OfInvitation(m, n) ==
  \/ m.type = "INVITATION" /\ m.from = n
  \/ m.type \in {"ACCEPT", "REJECT"} /\ m.to = n

Open(q, n) == {i \in DOMAIN q : OfInvitation(q[i], n)}

\* The same in several queues: the queue, and the place in it.
OpenIn(queues, n) ==
  UNION {{k} \X Open(queues[k], n) : k \in DOMAIN queues}

\* Invitations of n, and answers to them, that are still under way.
Unanswered(n) == Cardinality(OpenIn(outbox, n)) + Cardinality(OpenIn(hand, n))

\* Every invitation is answered at most once, and counted at most once
\* (get_outbox_messages by two threads, _handle_accept).
AnsweredOnce ==
  \A n \in Nodes :
    invitations_accepted[n] + Unanswered(n) <= term[n] * Len(Peers[n])

Announces(m, l) == m.type = "LEADER" /\ m.from = l

\* l leads, everybody knows and follows it, and only announcements of that
\* are still under way.
Settled(l) ==
  /\ state[l] = "LEADER" /\ current_leader = {l}
  /\ \A n \in Nodes :
       /\ leader_id[n] = {l} /\ (is_leader[n] <=> n = l)
       /\ n # l => state[n] = "FOLLOWER"
       /\ \A i \in DOMAIN outbox[n] : Announces(outbox[n][i], l)
  /\ \A th \in Threads :
       \A i \in DOMAIN hand[th] : Announces(hand[th][i], l)

CallBegins == visit["caller"] = 0 /\ visit'["caller"] # 0

\* Timers and answers of earlier elections, heartbeats and the two delivering
\* threads do not disturb a leader that everybody follows: only a call of
\* elect_leader does.
SettledStays ==
  [][\A l \in Nodes : Settled(l) /\ ~CallBegins => Settled(l)']_vars

Alone(n) == term[n] = 1 /\ \A m \in Nodes \ {n} : term[m] = 0

\* When the node of the highest id is the only one that ever begins an
\* election, everybody ends up following it.
HighestWins ==
  LET n == Max(Nodes) IN Alone(n) ~> Settled(n) \/ ~Alone(n)

-----------------------------------------------------------------------------
(***************************************************************************)
(* What the documentation says, and the code does not do.                  *)
(***************************************************************************)

\* "One zone elected as leader" (Leader Coordination in the README), "Other
\* nodes become FOLLOWERS" (InvitationElection).
AtMostOneLeader ==
  \A n, m \in Nodes : state[n] = "LEADER" /\ state[m] = "LEADER" => n = m
=============================================================================
