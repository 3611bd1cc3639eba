--------------------------- MODULE MessageRouter ---------------------------
(***************************************************************************)
(* The outgoing queue of one MessageRouter and the threads that deliver    *)
(* from it: the simulator's simulate_message_delivery and, when demo.py    *)
(* runs, the loop it starts beside it.  Messages are numbered in the order *)
(* they are sent, so that a list of messages in the queue's order is the   *)
(* set of their numbers.  Nothing here is locked: each access to a shared  *)
(* list or dict is a step of its own.                                      *)
(***************************************************************************)
EXTENDS Naturals, Sequences, FiniteSets

CONSTANTS
  Nodes,        \* the receiving zones
  Receiver,     \* Receiver[m] is the zone message m is for
  Threads,      \* the threads that may deliver
  Simulator,    \* the one FogNodeSimulator starts
  Sheltered,    \* the threads that catch what receive_message lets through
  MaxTracked,   \* cap of sent_messages and of received_messages
  MaxSent       \* bound: how many messages the zone sends

ASSUME RouterAssumption ==
  /\ MaxSent \in Nat \ {0}
  /\ MaxTracked \in Nat \ {0}
  /\ Simulator \in Threads
  /\ Sheltered \subseteq Threads
  /\ Receiver \in [1 .. MaxSent -> Nodes]

Messages == 1 .. MaxSent

VARIABLES
  sent,               \* total_sent: messages 1 .. sent were sent
  message_queue,      \* the messages in the sender's queue
  status,             \* status of each message; sender and receiver share it
  received_messages,  \* per receiver, the ids of this zone it remembers
  total_received,     \* per receiver, how many messages it recorded
  arrival,            \* place of an id in the insertion order of the dict
  handled,            \* per thread, the messages whose handler it ran
  failed,             \* messages recorded whose handler did not complete
  started,            \* the threads running a delivery loop
  pc,                 \* per thread, the step it is at
  batch,              \* per thread, what is left of its pending_messages
  current,            \* per thread, the message it delivers
  victims,            \* per thread, the ids _trim is about to delete
  kept                \* per thread, the filtered queue before it is assigned

receivers == <<received_messages, total_received, arrival>>
shared == <<sent, message_queue, status, receivers, handled, failed>>
local == <<started, pc, batch, current, victims, kept>>
vars == <<sent, message_queue, status, received_messages, total_received, arrival,
          handled, failed, started, pc, batch, current, victims, kept>>

Steps == {"idle", "visit", "record", "trim", "handle", "mark", "assign", "dead"}

\* sent_messages keeps the last MaxTracked messages.
Tracked(m) == m + MaxTracked > sent

\* Faulty variant of Pending: no look at the status.
Pending_All == message_queue

\* Faulty variant of Pending: only messages still in sent_messages.
Pending_Tracked == {m \in message_queue : status[m] = "sent" /\ Tracked(m)}

\* get_pending_messages
Pending == {m \in message_queue : status[m] = "sent"}

\* Faulty variant of Foremost: the list walked from its end.
Foremost_Last(S) == CHOOSE m \in S : \A k \in S : m >= k

\* The next message of a list in the queue's order.
Foremost(S) == CHOOSE m \in S : \A k \in S : m <= k

\* Faulty variant of Without: the message stays.
Without_Kept(m) == message_queue

\* mark_message_delivered: the queue without the message.
Without(m) == message_queue \ {m}

Goto(t, step) == pc' = [pc EXCEPT ![t] = step]

-----------------------------------------------------------------------------
Init ==
  /\ sent = 0
  /\ message_queue = {}
  /\ status = [m \in Messages |-> "sent"]
  /\ received_messages = [n \in Nodes |-> {}]
  /\ total_received = [n \in Nodes |-> 0]
  /\ arrival = [m \in Messages |-> 0]
  /\ handled = [t \in Threads |-> <<>>]
  /\ failed = {}
  /\ started = {Simulator}
  /\ pc = [t \in Threads |-> "idle"]
  /\ batch = [t \in Threads |-> {}]
  /\ current = [t \in Threads |-> 0]
  /\ victims = [t \in Threads |-> {}]
  /\ kept = [t \in Threads |-> {}]

\* send_message, by the operation loop, an alert or a handler.
Send ==
  /\ sent < MaxSent
  /\ sent' = sent + 1
  /\ message_queue' = message_queue \cup {sent + 1}
  /\ UNCHANGED <<status, receivers, handled, failed, local>>

\* run_basic_demo and run_scenario_demo start a second delivery thread.
Start(t) ==
  /\ t \notin started
  /\ started' = started \cup {t}
  /\ UNCHANGED <<shared, pc, batch, current, victims, kept>>

\* The thread takes the pending messages of the queue.
Poll(t) ==
  /\ t \in started
  /\ pc[t] = "idle"
  /\ Pending # {}
  /\ batch' = [batch EXCEPT ![t] = Pending]
  /\ Goto(t, "visit")
  /\ UNCHANGED <<shared, started, current, victims, kept>>

\* Its list of pending messages is used up: it sleeps and polls again.
Finish(t) ==
  /\ pc[t] = "visit"
  /\ batch[t] = {}
  /\ Goto(t, "idle")
  /\ UNCHANGED <<shared, started, batch, current, victims, kept>>

\* receive_message up to the test whether the id was received before.
Visit(t) ==
  /\ pc[t] = "visit"
  /\ batch[t] # {}
  /\ LET m == Foremost(batch[t])
         known == m \in received_messages[Receiver[m]]
     IN /\ batch' = [batch EXCEPT ![t] = @ \ {m}]
        /\ current' = [current EXCEPT ![t] = IF known THEN 0 ELSE m]
        /\ Goto(t, IF known THEN "visit" ELSE "record")
  /\ UNCHANGED <<shared, started, victims, kept>>

\* _trim: the ids beyond the cap, those inserted first.
Excess(ids, placed) ==
  {k \in ids : Cardinality({j \in ids : placed[j] > placed[k]}) >= MaxTracked}

\* The message is marked received and remembered; _trim finds the excess.
Record(t) ==
  /\ pc[t] = "record"
  /\ LET m == current[t]
         n == Receiver[m]
     IN /\ status' = [status EXCEPT ![m] = "received"]
        /\ received_messages' = [received_messages EXCEPT ![n] = @ \cup {m}]
        /\ total_received' = [total_received EXCEPT ![n] = @ + 1]
        /\ arrival' = IF m \in received_messages[n] THEN arrival
                      ELSE [arrival EXCEPT ![m] = total_received[n] + 1]
        /\ victims' = [victims EXCEPT
             ![t] = Excess(received_messages'[n], arrival')]
  /\ Goto(t, "trim")
  /\ UNCHANGED <<sent, message_queue, handled, failed, started, batch, current,
                 kept>>

\* _trim deletes the ids it found.
Trim(t) ==
  /\ pc[t] = "trim"
  /\ LET n == Receiver[current[t]]
     IN /\ victims[t] \subseteq received_messages[n]
        /\ received_messages' = [received_messages EXCEPT ![n] = @ \ victims[t]]
  /\ arrival' = [m \in Messages |-> IF m \in victims[t] THEN 0 ELSE arrival[m]]
  /\ victims' = [victims EXCEPT ![t] = {}]
  /\ Goto(t, "handle")
  /\ UNCHANGED <<sent, message_queue, status, total_received, handled, failed,
                 started, batch, current, kept>>

\* Messages of other zones, delivered by a thread that is not busy with this
\* zone's queue, push the oldest id out.
Crowd(n) ==
  /\ \E t \in started : pc[t] = "idle"
  /\ \E m \in received_messages[n] :
       /\ \A k \in received_messages[n] : arrival[m] <= arrival[k]
       /\ received_messages' = [received_messages EXCEPT ![n] = @ \ {m}]
       /\ arrival' = [arrival EXCEPT ![m] = 0]
  /\ UNCHANGED <<sent, message_queue, status, total_received, handled, failed,
                 local>>

\* Another thread deleted one of them first: KeyError, after some of the others
\* were deleted.  The simulator's loop catches it, the demo's thread ends.
TrimFails(t) ==
  /\ pc[t] = "trim"
  /\ LET n == Receiver[current[t]]
     IN /\ ~ (victims[t] \subseteq received_messages[n])
        /\ \E gone \in SUBSET (victims[t] \cap received_messages[n]) :
             /\ received_messages' = [received_messages EXCEPT ![n] = @ \ gone]
             /\ arrival' = [m \in Messages |-> IF m \in gone THEN 0 ELSE arrival[m]]
  /\ failed' = failed \cup {current[t]}
  /\ batch' = [batch EXCEPT ![t] = {}]
  /\ current' = [current EXCEPT ![t] = 0]
  /\ victims' = [victims EXCEPT ![t] = {}]
  /\ Goto(t, IF t \in Sheltered THEN "idle" ELSE "dead")
  /\ UNCHANGED <<sent, message_queue, status, total_received, handled, started,
                 kept>>

\* The handler of the message runs.
Handle(t) ==
  /\ pc[t] = "handle"
  /\ handled' = [handled EXCEPT ![t] = Append(@, current[t])]
  /\ Goto(t, "mark")
  /\ UNCHANGED <<sent, message_queue, status, receivers, failed, started, batch,
                 current, victims, kept>>

\* It raises: receive_message returns False, and the message is not marked.
HandleFails(t) ==
  /\ pc[t] = "handle"
  /\ handled' = [handled EXCEPT ![t] = Append(@, current[t])]
  /\ failed' = failed \cup {current[t]}
  /\ current' = [current EXCEPT ![t] = 0]
  /\ Goto(t, "visit")
  /\ UNCHANGED <<sent, message_queue, status, receivers, started, batch, victims,
                 kept>>

\* mark_message_delivered: the status, and the filtered copy of the queue.
Mark(t) ==
  /\ pc[t] = "mark"
  /\ status' = IF Tracked(current[t])
               THEN [status EXCEPT ![current[t]] = "delivered"] ELSE status
  /\ kept' = [kept EXCEPT ![t] = Without(current[t])]
  /\ Goto(t, "assign")
  /\ UNCHANGED <<sent, message_queue, receivers, handled, failed, started, batch,
                 current, victims>>

\* The copy replaces the queue.
Assign(t) ==
  /\ pc[t] = "assign"
  /\ message_queue' = kept[t]
  /\ kept' = [kept EXCEPT ![t] = {}]
  /\ current' = [current EXCEPT ![t] = 0]
  /\ Goto(t, "visit")
  /\ UNCHANGED <<sent, status, receivers, handled, failed, started, batch, victims>>

Deliver(t) ==
  \/ Poll(t) \/ Finish(t) \/ Visit(t) \/ Record(t) \/ Trim(t) \/ TrimFails(t)
  \/ Handle(t) \/ HandleFails(t) \/ Mark(t) \/ Assign(t)

Next ==
  \/ Send
  \/ \E t \in Threads : Start(t) \/ Deliver(t)
  \/ \E n \in Nodes : Crowd(n)

Spec == Init /\ [][Next]_vars

\* A started thread is scheduled: the loops run for as long as the simulation.
FairSpec == Spec /\ WF_vars(Deliver(Simulator))

-----------------------------------------------------------------------------
TypeOK ==
  /\ sent \in 0 .. MaxSent
  /\ message_queue \subseteq 1 .. sent
  /\ status \in [Messages -> {"sent", "received", "delivered"}]
  /\ received_messages \in [Nodes -> SUBSET (1 .. sent)]
  /\ total_received \in [Nodes -> Nat]
  /\ arrival \in [Messages -> Nat]
  /\ handled \in [Threads -> Seq(1 .. sent)]
  /\ failed \subseteq 1 .. sent
  /\ started \subseteq Threads
  /\ pc \in [Threads -> Steps]
  /\ batch \in [Threads -> SUBSET (1 .. sent)]
  /\ current \in [Threads -> 0 .. sent]
  /\ \A t \in Threads : pc[t] \notin {"idle", "visit", "dead"} => current[t] # 0
  /\ victims \in [Threads -> SUBSET (1 .. sent)]
  /\ kept \in [Threads -> SUBSET (1 .. sent)]

\* However many threads deliver, and however much the receivers forget, no
\* thread hands a message to its handler a second time: a message leaves status
\* "sent" for good when it is recorded, and a thread takes only sent messages
\* (get_pending_messages, receive_message).
OncePerThread ==
  \A t \in Threads : \A i, j \in DOMAIN handled[t] :
    i # j => handled[t][i] # handled[t][j]

\* With the simulator's thread alone the messages of a zone are handled in the
\* order they were sent, those whose handler raised included: spillover answers
\* do not overtake the states gossiped before them.
InOrderAlone ==
  started = {Simulator} =>
    \A i, j \in DOMAIN handled[Simulator] :
      i < j => handled[Simulator][i] < handled[Simulator][j]

\* With the simulator's thread alone the queue keeps only messages that wait,
\* the one under way, and those whose handler raised (mark_message_delivered).
QueueDrains ==
  started = {Simulator} =>
    \A m \in message_queue :
      status[m] = "sent" \/ m \in failed \/ m = current[Simulator]

\* A message that waits in the queue is recorded by its receiver, or is lost from
\* the queue by an assignment of mark_message_delivered; it never waits for ever.
NoneWaitsForever ==
  \A m \in Messages :
    (m \in message_queue /\ status[m] = "sent")
      ~> (m \notin message_queue \/ status[m] # "sent")
=============================================================================
