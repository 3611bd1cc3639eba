------------------------ MODULE MessageRouterProofs ------------------------
(***************************************************************************)
(* Proofs about MessageRouter, for any number of receivers, of delivering  *)
(* threads and of messages, and for any cap of what is remembered.         *)
(***************************************************************************)
EXTENDS MessageRouter, FiniteSetTheorems, WellFoundedInduction, TLAPS

\* Status "sent" is left for good when a message is recorded, so what a thread
\* still has to handle is never among what it handled.
Unhandled ==
  \A t \in Threads :
    /\ \A i \in DOMAIN handled[t] :
         status[handled[t][i]] # "sent" /\ handled[t][i] \notin batch[t]
    /\ pc[t] \in {"record", "trim", "handle"} =>
         /\ current[t] \notin batch[t]
         /\ \A i \in DOMAIN handled[t] : handled[t][i] # current[t]
    /\ pc[t] \in {"trim", "handle"} => status[current[t]] # "sent"

Waiting == {m \in message_queue : status[m] = "sent"}

-----------------------------------------------------------------------------
LEMMA AppendFacts ==
  ASSUME NEW S, NEW s \in Seq(S), NEW e \in S
  PROVE  /\ Append(s, e) \in Seq(S)
         /\ DOMAIN Append(s, e) = DOMAIN s \cup {Len(s) + 1}
         /\ \A i \in DOMAIN s : i \in Nat /\ i < Len(s) + 1 /\ Append(s, e)[i] = s[i]
         /\ Append(s, e)[Len(s) + 1] = e
         /\ Len(s) + 1 \notin DOMAIN s
<1>1. Len(s) \in Nat /\ DOMAIN s = 1 .. Len(s)
  OBVIOUS
<1>2. Append(s, e) \in Seq(S) /\ Len(Append(s, e)) = Len(s) + 1
  OBVIOUS
<1>3. DOMAIN Append(s, e) = 1 .. Len(s) + 1
  BY <1>2
<1>4. \A i \in 1 .. Len(s) : Append(s, e)[i] = s[i]
  OBVIOUS
<1>5. Append(s, e)[Len(s) + 1] = e
  OBVIOUS
<1> QED BY <1>1, <1>2, <1>3, <1>4, <1>5

LEMMA Widened ==
  ASSUME NEW n \in Nat, NEW s \in Seq(1 .. n)
  PROVE  s \in Seq(1 .. n + 1)
<1>1. Len(s) \in Nat /\ DOMAIN s = 1 .. Len(s) /\ s \in [1 .. Len(s) -> 1 .. n]
  OBVIOUS
<1>2. s \in [1 .. Len(s) -> 1 .. n + 1]
  BY <1>1
<1> QED BY <1>1, <1>2

\* A thread takes the first message of its list.
LEMMA ForemostFacts ==
  ASSUME NEW S \in SUBSET Nat, S # {}
  PROVE  Foremost(S) \in S /\ \A k \in S : Foremost(S) <= k
<1>1. PICK x \in S : \A y \in S : ~(<<y, x>> \in OpToRel(<, Nat))
  BY WFMin, NatLessThanWellFounded
<1>2. \A y \in S : x <= y
  <2> SUFFICES ASSUME NEW y \in S PROVE x <= y
    OBVIOUS
  <2>1. x \in Nat /\ y \in Nat /\ <<y, x>> \in Nat \X Nat
    OBVIOUS
  <2>2. ~(y < x)
    BY <1>1, <2>1 DEF OpToRel
  <2> QED BY <2>1, <2>2
<1> QED BY <1>1, <1>2 DEF Foremost

-----------------------------------------------------------------------------
(***************************************************************************)
(* Types.                                                                  *)
(***************************************************************************)
LEMMA TypeInit == Init => TypeOK
  BY RouterAssumption DEF Init, TypeOK, Messages, Steps

LEMMA TypeSend == TypeOK /\ Send => TypeOK'
<1> SUFFICES ASSUME TypeOK, Send PROVE TypeOK'
  OBVIOUS
<1>1. sent \in Nat /\ sent' = sent + 1 /\ sent' \in 0 .. MaxSent
  BY RouterAssumption DEF TypeOK, Send
<1>2. 1 .. sent \subseteq 1 .. sent' /\ 0 .. sent \subseteq 0 .. sent'
  BY <1>1
<1>3. handled' \in [Threads -> Seq(1 .. sent')]
  <2>1. handled' = handled /\ handled \in [Threads -> Seq(1 .. sent)]
    BY DEF TypeOK, Send
  <2>2. \A t \in Threads : handled[t] \in Seq(1 .. sent')
    BY <1>1, <2>1, Widened
  <2> QED BY <2>1, <2>2
<1>4. message_queue' \subseteq 1 .. sent'
  BY <1>1, <1>2 DEF TypeOK, Send
<1>5. /\ received_messages' \in [Nodes -> SUBSET (1 .. sent')]
      /\ batch' \in [Threads -> SUBSET (1 .. sent')]
      /\ victims' \in [Threads -> SUBSET (1 .. sent')]
      /\ kept' \in [Threads -> SUBSET (1 .. sent')]
  BY <1>2 DEF TypeOK, Send, receivers, local
<1>6. current' \in [Threads -> 0 .. sent'] /\ failed' \subseteq 1 .. sent'
  BY <1>2 DEF TypeOK, Send, local
<1> QED BY <1>1, <1>3, <1>4, <1>5, <1>6 DEF TypeOK, Send, receivers, local

\* What the type invariant says of the message a thread works on.
LEMMA CurrentType ==
  ASSUME TypeOK, NEW t \in Threads, pc[t] \notin {"idle", "visit", "dead"}
  PROVE  /\ current[t] \in 1 .. sent /\ current[t] \in Messages
         /\ Receiver[current[t]] \in Nodes
<1>1. current[t] \in 0 .. sent /\ current[t] # 0 /\ sent \in 0 .. MaxSent
  BY DEF TypeOK
<1>2. current[t] \in 1 .. sent /\ current[t] \in Messages
  BY <1>1, RouterAssumption DEF Messages
<1> QED BY <1>2, RouterAssumption DEF Messages

\* The message a thread takes next.
LEMMA VisitedType ==
  ASSUME TypeOK, NEW t \in Threads, batch[t] # {}
  PROVE  /\ Foremost(batch[t]) \in batch[t] /\ batch[t] \in SUBSET (1 .. sent)
         /\ \A k \in batch[t] : Foremost(batch[t]) <= k
<1>1. batch[t] \in SUBSET (1 .. sent) /\ sent \in Nat
  BY RouterAssumption DEF TypeOK
<1>2. batch[t] \in SUBSET Nat
  BY <1>1
<1> QED BY <1>1, <1>2, ForemostFacts

LEMMA TypeDeliver ==
  ASSUME TypeOK, NEW t \in Threads, Deliver(t)
  PROVE  TypeOK'
<1>1. CASE Poll(t)
  BY <1>1 DEF TypeOK, Poll, Pending, Goto, Steps, shared, receivers
<1>2. CASE Finish(t)
  BY <1>2 DEF TypeOK, Finish, Goto, Steps, shared, receivers
<1>3. CASE Visit(t)
  <2>1. Foremost(batch[t]) \in 1 .. sent
    BY <1>3, VisitedType DEF Visit
  <2>2. Foremost(batch[t]) \in 0 .. sent /\ Foremost(batch[t]) # 0
    BY <2>1, RouterAssumption DEF TypeOK
  <2>3. batch' \in [Threads -> SUBSET (1 .. sent)]
    BY <1>3 DEF TypeOK, Visit
  <2>4. current' \in [Threads -> 0 .. sent] /\ pc' \in [Threads -> Steps]
    BY <1>3, <2>2, RouterAssumption DEF TypeOK, Visit, Goto, Steps
  <2>5. \A u \in Threads : pc'[u] \notin {"idle", "visit", "dead"} => current'[u] # 0
    BY <1>3, <2>2 DEF TypeOK, Visit, Goto
  <2> QED BY <1>3, <2>3, <2>4, <2>5 DEF TypeOK, Visit, shared, receivers
<1>4. CASE Record(t)
  <2> DEFINE m == current[t]
             n == Receiver[m]
  <2>1. m \in 1 .. sent /\ m \in Messages /\ n \in Nodes
    BY <1>4, CurrentType DEF Record
  <2>2. received_messages' \in [Nodes -> SUBSET (1 .. sent)]
    BY <1>4, <2>1 DEF TypeOK, Record
  <2>3. total_received' \in [Nodes -> Nat] /\ arrival' \in [Messages -> Nat]
    BY <1>4, <2>1 DEF TypeOK, Record
  <2>4. victims' \in [Threads -> SUBSET (1 .. sent)]
    <3>1. Excess(received_messages'[n], arrival') \subseteq received_messages'[n]
      BY DEF Excess
    <3> QED BY <1>4, <2>1, <2>2, <3>1 DEF TypeOK, Record
  <2>5. status' \in [Messages -> {"sent", "received", "delivered"}]
    BY <1>4, <2>1 DEF TypeOK, Record
  <2>6. /\ pc' \in [Threads -> Steps]
        /\ \A u \in Threads : pc'[u] \notin {"idle", "visit", "dead"} => current'[u] # 0
    BY <1>4 DEF TypeOK, Record, Goto, Steps
  <2> QED BY <1>4, <2>2, <2>3, <2>4, <2>5, <2>6 DEF TypeOK, Record
<1>5. CASE Trim(t)
  <2>1. Receiver[current[t]] \in Nodes
    BY <1>5, CurrentType DEF Trim
  <2>2. received_messages' \in [Nodes -> SUBSET (1 .. sent)]
    BY <1>5, <2>1 DEF TypeOK, Trim
  <2>3. arrival' \in [Messages -> Nat] /\ victims' \in [Threads -> SUBSET (1 .. sent)]
    BY <1>5 DEF TypeOK, Trim
  <2>4. /\ pc' \in [Threads -> Steps]
        /\ \A u \in Threads : pc'[u] \notin {"idle", "visit", "dead"} => current'[u] # 0
    BY <1>5 DEF TypeOK, Trim, Goto, Steps
  <2> QED BY <1>5, <2>2, <2>3, <2>4 DEF TypeOK, Trim
<1>6. CASE TrimFails(t)
  <2>1. Receiver[current[t]] \in Nodes /\ current[t] \in 1 .. sent
    BY <1>6, CurrentType DEF TrimFails
  <2>2. PICK gone \in SUBSET (victims[t] \cap received_messages[Receiver[current[t]]]) :
          /\ received_messages' = [received_messages EXCEPT
               ![Receiver[current[t]]] = @ \ gone]
          /\ arrival' = [m \in Messages |-> IF m \in gone THEN 0 ELSE arrival[m]]
    BY <1>6 DEF TrimFails
  <2>3. received_messages' \in [Nodes -> SUBSET (1 .. sent)]
    BY <2>1, <2>2 DEF TypeOK
  <2>4. arrival' \in [Messages -> Nat]
    BY <2>2 DEF TypeOK
  <2>5. /\ victims' \in [Threads -> SUBSET (1 .. sent)]
        /\ batch' \in [Threads -> SUBSET (1 .. sent)]
        /\ failed' \subseteq 1 .. sent
    BY <1>6, <2>1 DEF TypeOK, TrimFails
  <2>6. /\ pc' \in [Threads -> Steps] /\ current' \in [Threads -> 0 .. sent]
        /\ \A u \in Threads : pc'[u] \notin {"idle", "visit", "dead"} => current'[u] # 0
    BY <1>6, RouterAssumption DEF TypeOK, TrimFails, Goto, Steps
  <2> QED BY <1>6, <2>3, <2>4, <2>5, <2>6 DEF TypeOK, TrimFails
<1>7. CASE Handle(t) \/ HandleFails(t)
  <2>1. current[t] \in 1 .. sent
    BY <1>7, CurrentType DEF Handle, HandleFails
  <2>2. Append(handled[t], current[t]) \in Seq(1 .. sent)
    BY <2>1, AppendFacts DEF TypeOK
  <2>3. handled' \in [Threads -> Seq(1 .. sent)] /\ failed' \subseteq 1 .. sent
    BY <1>7, <2>1, <2>2 DEF TypeOK, Handle, HandleFails
  <2>4. /\ pc' \in [Threads -> Steps] /\ current' \in [Threads -> 0 .. sent]
        /\ \A u \in Threads : pc'[u] \notin {"idle", "visit", "dead"} => current'[u] # 0
    <3>1. CASE Handle(t)
      BY <3>1 DEF TypeOK, Handle, Goto, Steps
    <3>2. CASE HandleFails(t)
      BY <3>2, RouterAssumption DEF TypeOK, HandleFails, Goto, Steps
    <3> QED BY <1>7, <3>1, <3>2
  <2> QED BY <1>7, <2>3, <2>4 DEF TypeOK, Handle, HandleFails, receivers
<1>8. CASE Mark(t)
  <2>1. status' \in [Messages -> {"sent", "received", "delivered"}]
    BY <1>8 DEF TypeOK, Mark
  <2>2. kept' \in [Threads -> SUBSET (1 .. sent)]
    BY <1>8 DEF TypeOK, Mark, Without
  <2>3. /\ pc' \in [Threads -> Steps]
        /\ \A u \in Threads : pc'[u] \notin {"idle", "visit", "dead"} => current'[u] # 0
    BY <1>8 DEF TypeOK, Mark, Goto, Steps
  <2> QED BY <1>8, <2>1, <2>2, <2>3 DEF TypeOK, Mark, receivers
<1>9. CASE Assign(t)
  <2>1. /\ pc' \in [Threads -> Steps] /\ current' \in [Threads -> 0 .. sent]
        /\ \A u \in Threads : pc'[u] \notin {"idle", "visit", "dead"} => current'[u] # 0
    BY <1>9, RouterAssumption DEF TypeOK, Assign, Goto, Steps
  <2> QED BY <1>9, <2>1 DEF TypeOK, Assign, receivers
<1> QED BY <1>1, <1>2, <1>3, <1>4, <1>5, <1>6, <1>7, <1>8, <1>9 DEF Deliver

LEMMA TypeNext == TypeOK /\ [Next]_vars => TypeOK'
<1> SUFFICES ASSUME TypeOK, [Next]_vars PROVE TypeOK'
  OBVIOUS
<1>1. CASE Send
  BY <1>1, TypeSend
<1>2. ASSUME NEW t \in Threads, Start(t) PROVE TypeOK'
  BY <1>2 DEF TypeOK, Start, shared, receivers
<1>3. ASSUME NEW t \in Threads, Deliver(t) PROVE TypeOK'
  BY <1>3, TypeDeliver
<1>4. ASSUME NEW n \in Nodes, Crowd(n) PROVE TypeOK'
  <2>1. PICK m \in received_messages[n] :
          /\ received_messages' = [received_messages EXCEPT ![n] = @ \ {m}]
          /\ arrival' = [arrival EXCEPT ![m] = 0]
    BY <1>4 DEF Crowd
  <2>2. received_messages' \in [Nodes -> SUBSET (1 .. sent)]
    BY <2>1 DEF TypeOK
  <2>3. arrival' \in [Messages -> Nat]
    BY <2>1 DEF TypeOK
  <2> QED BY <1>4, <2>2, <2>3 DEF TypeOK, Crowd, local
<1>5. CASE UNCHANGED vars
  BY <1>5 DEF TypeOK, vars
<1> QED BY <1>1, <1>2, <1>3, <1>4, <1>5 DEF Next

\* The variables keep their types: what is queued, handled or remembered was sent,
\* and a thread past its test works on a message.
THEOREM TypeCorrect == Spec => []TypeOK
  BY TypeInit, TypeNext, PTL DEF Spec

-----------------------------------------------------------------------------
(***************************************************************************)
(* No thread handles a message twice.                                      *)
(***************************************************************************)
LEMMA UnhandledInit == Init => Unhandled /\ OncePerThread
  BY DEF Init, Unhandled, OncePerThread

\* A status never returns to "sent".
StatusMoves == \A m \in Messages : status'[m] = "sent" => status[m] = "sent"

LEMMA HandledAreMessages ==
  ASSUME TypeOK, NEW t \in Threads, NEW i \in DOMAIN handled[t]
  PROVE  handled[t][i] \in 1 .. sent /\ handled[t][i] \in Messages
<1>1. handled[t] \in Seq(1 .. sent) /\ sent \in 0 .. MaxSent
  BY DEF TypeOK
<1>2. handled[t][i] \in 1 .. sent
  BY <1>1
<1> QED BY <1>1, <1>2, RouterAssumption DEF Messages

\* Steps that leave what a thread handled, its list and its place alone.
LEMMA UnhandledKept ==
  ASSUME TypeOK, Unhandled, OncePerThread, StatusMoves,
         UNCHANGED handled,
         \A u \in Threads : batch'[u] \subseteq batch[u],
         \A u \in Threads :
           /\ pc'[u] \in {"record", "trim", "handle"} =>
                current'[u] = current[u] /\ pc[u] \in {"record", "trim", "handle"}
           /\ pc'[u] \in {"trim", "handle"} => status'[current'[u]] # "sent"
  PROVE  Unhandled' /\ OncePerThread'
<1>1. OncePerThread'
  BY DEF OncePerThread
<1>2. ASSUME NEW u \in Threads, NEW i \in DOMAIN handled[u]
      PROVE  status'[handled[u][i]] # "sent" /\ handled[u][i] \notin batch'[u]
  BY <1>2, HandledAreMessages DEF StatusMoves, Unhandled
<1>3. ASSUME NEW u \in Threads, pc'[u] \in {"record", "trim", "handle"}
      PROVE  /\ current'[u] \notin batch'[u]
             /\ \A i \in DOMAIN handled[u] : handled[u][i] # current'[u]
  BY <1>3 DEF Unhandled
<1> QED BY <1>1, <1>2, <1>3 DEF Unhandled

LEMMA UnhandledDeliver ==
  ASSUME TypeOK, Unhandled, OncePerThread, NEW t \in Threads, Deliver(t)
  PROVE  Unhandled' /\ OncePerThread'
<1>0. \A u \in Threads : pc[u] \in {"record", "trim", "handle", "mark"} =>
        current[u] \in Messages
  BY CurrentType
<1>1. CASE Poll(t)
  <2>1. OncePerThread'
    BY <1>1 DEF OncePerThread, Poll, shared
  <2>2. \A u \in Threads : \A i \in DOMAIN handled[u] :
          handled[u][i] \notin batch'[u]
    BY <1>1 DEF TypeOK, Unhandled, Poll, Pending
  <2> QED BY <1>1, <2>1, <2>2 DEF TypeOK, Unhandled, Poll, Goto, shared
<1>2. CASE Finish(t)
  BY <1>2, UnhandledKept DEF TypeOK, StatusMoves, Unhandled, Finish, Goto, shared
<1>3. CASE Visit(t)
  <2>1. Foremost(batch[t]) \in batch[t]
    BY <1>3, VisitedType DEF Visit
  <2>2. OncePerThread'
    BY <1>3 DEF OncePerThread, Visit, shared
  <2>3. ASSUME NEW u \in Threads, u # t
        PROVE  batch'[u] = batch[u] /\ pc'[u] = pc[u] /\ current'[u] = current[u]
    BY <1>3, <2>3 DEF TypeOK, Visit, Goto
  <2>4. batch'[t] = batch[t] \ {Foremost(batch[t])}
    BY <1>3 DEF TypeOK, Visit
  <2>5. pc'[t] # "visit" => pc'[t] = "record" /\ current'[t] = Foremost(batch[t])
    BY <1>3 DEF TypeOK, Visit, Goto
  <2>6. UNCHANGED <<handled, status>>
    BY <1>3 DEF Visit, shared
  <2> QED BY <2>1, <2>2, <2>3, <2>4, <2>5, <2>6 DEF Unhandled
<1>4. CASE Record(t)
  <2>1. StatusMoves /\ status'[current[t]] # "sent"
    BY <1>0, <1>4 DEF TypeOK, StatusMoves, Record
  <2>2. \A u \in Threads :
          /\ pc'[u] \in {"record", "trim", "handle"} =>
               pc[u] \in {"record", "trim", "handle"}
          /\ u # t => pc'[u] = pc[u]
    BY <1>4 DEF TypeOK, Record, Goto
  <2>3. \A u \in Threads : pc'[u] \in {"trim", "handle"} => status'[current[u]] # "sent"
    BY <1>0, <2>1, <2>2 DEF Unhandled, StatusMoves
  <2> QED BY <1>4, <2>1, <2>2, <2>3, UnhandledKept DEF Record
<1>5. CASE Trim(t)
  BY <1>5, UnhandledKept DEF TypeOK, StatusMoves, Unhandled, Trim, Goto
<1>6. CASE TrimFails(t)
  <2>1. \A u \in Threads : batch'[u] \subseteq batch[u]
    BY <1>6 DEF TypeOK, TrimFails
  <2>2. \A u \in Threads : pc'[u] \in {"record", "trim", "handle"} =>
          pc'[u] = pc[u] /\ current'[u] = current[u]
    BY <1>6 DEF TypeOK, TrimFails, Goto
  <2> QED BY <1>6, <2>1, <2>2, UnhandledKept DEF StatusMoves, Unhandled, TrimFails
<1>7. CASE Handle(t) \/ HandleFails(t)
  <2>1. current[t] \in 1 .. sent /\ status[current[t]] # "sent"
        /\ current[t] \notin batch[t]
        /\ \A i \in DOMAIN handled[t] : handled[t][i] # current[t]
    BY <1>7, CurrentType DEF Unhandled, Handle, HandleFails
  <2> DEFINE h == Append(handled[t], current[t])
             n == Len(handled[t]) + 1
  <2>2. /\ DOMAIN h = DOMAIN handled[t] \cup {n} /\ n \notin DOMAIN handled[t]
        /\ \A i \in DOMAIN handled[t] : h[i] = handled[t][i]
        /\ h[n] = current[t]
    BY <2>1, AppendFacts DEF TypeOK
  <2>3. handled'[t] = h /\ \A u \in Threads : u # t => handled'[u] = handled[u]
    BY <1>7 DEF TypeOK, Handle, HandleFails
  <2> HIDE DEF h, n
  <2>4. UNCHANGED <<status, batch>>
    BY <1>7 DEF Handle, HandleFails
  <2>5. pc'[t] \in {"mark", "visit"}
        /\ \A u \in Threads : u # t => pc'[u] = pc[u] /\ current'[u] = current[u]
    BY <1>7 DEF TypeOK, Handle, HandleFails, Goto
  <2>6. OncePerThread'
    <3> SUFFICES ASSUME NEW u \in Threads, NEW i \in DOMAIN handled'[u],
                        NEW j \in DOMAIN handled'[u], i # j
                 PROVE  handled'[u][i] # handled'[u][j]
      BY DEF OncePerThread
    <3>1. CASE u # t
      BY <2>3, <3>1 DEF OncePerThread
    <3>2. CASE u = t
      BY <2>1, <2>2, <2>3, <3>2 DEF OncePerThread
    <3> QED BY <3>1, <3>2
  <2>7. \A u \in Threads : \A i \in DOMAIN handled'[u] :
          status[handled'[u][i]] # "sent" /\ handled'[u][i] \notin batch[u]
    BY <2>1, <2>2, <2>3 DEF Unhandled
  <2> QED BY <2>3, <2>4, <2>5, <2>6, <2>7 DEF Unhandled
<1>8. CASE Mark(t)
  <2>1. StatusMoves
    BY <1>0, <1>8 DEF TypeOK, StatusMoves, Mark
  <2>2. \A u \in Threads : pc'[u] \in {"record", "trim", "handle"} => pc'[u] = pc[u]
    BY <1>8 DEF TypeOK, Mark, Goto
  <2>3. \A u \in Threads : pc'[u] \in {"trim", "handle"} => status'[current[u]] # "sent"
    BY <1>0, <2>1, <2>2 DEF Unhandled, StatusMoves
  <2> QED BY <1>8, <2>1, <2>2, <2>3, UnhandledKept DEF Mark
<1>9. CASE Assign(t)
  BY <1>9, UnhandledKept DEF TypeOK, StatusMoves, Unhandled, Assign, Goto
<1> QED BY <1>1, <1>2, <1>3, <1>4, <1>5, <1>6, <1>7, <1>8, <1>9 DEF Deliver

LEMMA UnhandledNext ==
  TypeOK /\ Unhandled /\ OncePerThread /\ [Next]_vars => Unhandled' /\ OncePerThread'
<1> SUFFICES ASSUME TypeOK, Unhandled, OncePerThread, [Next]_vars
             PROVE  Unhandled' /\ OncePerThread'
  OBVIOUS
<1>1. CASE Send
  BY <1>1, UnhandledKept DEF StatusMoves, Unhandled, Send, local
<1>2. ASSUME NEW t \in Threads, Start(t) PROVE Unhandled' /\ OncePerThread'
  BY <1>2, UnhandledKept DEF StatusMoves, Unhandled, Start, shared
<1>3. ASSUME NEW t \in Threads, Deliver(t) PROVE Unhandled' /\ OncePerThread'
  BY <1>3, UnhandledDeliver
<1>4. ASSUME NEW n \in Nodes, Crowd(n) PROVE Unhandled' /\ OncePerThread'
  BY <1>4, UnhandledKept DEF StatusMoves, Unhandled, Crowd, local
<1>5. CASE UNCHANGED vars
  BY <1>5, UnhandledKept DEF StatusMoves, Unhandled, vars
<1> QED BY <1>1, <1>2, <1>3, <1>4, <1>5 DEF Next

\* No thread hands a message to its handler twice, however many threads deliver
\* and whatever the receivers have forgotten (get_pending_messages).
THEOREM HandledOnce == Spec => []OncePerThread
  BY TypeCorrect, UnhandledInit, UnhandledNext, PTL DEF Spec

-----------------------------------------------------------------------------
(***************************************************************************)
(* The simulator's thread alone: messages in order, and a queue that       *)
(* drains.                                                                 *)
(***************************************************************************)

\* Where the simulator's thread stands: what it handled lies before what it has
\* in hand, that before the rest of its list, and that before what is sent since.
WaitingLast ==
  LET S == Simulator IN
  \A w \in Waiting :
    /\ \A i \in DOMAIN handled[S] : handled[S][i] < w
    /\ \A b \in batch[S] :
         w \in batch[S] \/ b < w \/ (w = current[S] /\ pc[S] = "record")
    /\ current[S] <= w

ListLast ==
  LET S == Simulator IN
  \A b \in batch[S] :
    /\ status[b] = "sent" /\ current[S] < b
    /\ \A i \in DOMAIN handled[S] : handled[S][i] < b

InHand ==
  LET S == Simulator IN
  /\ pc[S] \in {"record", "trim", "handle"} =>
       \A i \in DOMAIN handled[S] : handled[S][i] < current[S]
  /\ pc[S] \in {"idle", "visit", "dead"} => current[S] = 0
  /\ pc[S] = "record" => status[current[S]] = "sent"

Ordered == WaitingLast /\ ListLast /\ InHand

\* What stays in the queue: the filtered copy holds nothing else.
Drained ==
  LET S == Simulator IN
  /\ \A m \in message_queue :
       \/ status[m] = "sent" \/ m \in failed
       \/ m = current[S] /\ pc[S] \in {"trim", "handle", "mark", "assign"}
  /\ pc[S] = "assign" => kept[S] \subseteq message_queue \ {current[S]}

\* Nobody else delivers, and receivers remember only what was recorded.
Alone ==
  /\ \A t \in Threads \ {Simulator} : pc[t] = "idle"
  /\ \A n \in Nodes : \A m \in received_messages[n] : status[m] # "sent"
  /\ \A i, j \in DOMAIN handled[Simulator] :
       i < j => handled[Simulator][i] < handled[Simulator][j]
  /\ \A m \in Messages : m > sent => status[m] = "sent"
  /\ Ordered
  /\ Drained

AloneInv ==
  /\ Simulator \in started
  /\ started = {Simulator} => Alone

LEMMA AloneInit == Init => AloneInv
  BY RouterAssumption DEF Init, AloneInv, Alone, Ordered, WaitingLast, ListLast, InHand,
     Drained, Waiting

\* Messages are numbers.
LEMMA Numbers ==
  ASSUME TypeOK
  PROVE  /\ sent \in Nat /\ Simulator \in Threads
         /\ message_queue \subseteq Nat /\ Waiting \subseteq message_queue
         /\ batch[Simulator] \subseteq Nat /\ current[Simulator] \in Nat
         /\ \A i \in DOMAIN handled[Simulator] :
              i \in Nat /\ handled[Simulator][i] \in Nat
<1>1. sent \in Nat /\ Simulator \in Threads
  BY RouterAssumption DEF TypeOK
<1>2. \A i \in DOMAIN handled[Simulator] :
        i \in Nat /\ handled[Simulator][i] \in 1 .. sent
  <2>1. handled[Simulator] \in Seq(1 .. sent)
    BY <1>1 DEF TypeOK
  <2>2. DOMAIN handled[Simulator] \subseteq Nat
    BY <2>1
  <2> QED BY <1>1, <2>2, HandledAreMessages
<1>3. /\ message_queue \subseteq 1 .. sent /\ batch[Simulator] \subseteq 1 .. sent
      /\ current[Simulator] \in 0 .. sent
  BY <1>1 DEF TypeOK
<1>4. 0 .. sent \subseteq Nat /\ 1 .. sent \subseteq Nat
  BY <1>1
<1> QED BY <1>1, <1>2, <1>3, <1>4 DEF Waiting

\* ... those that wait among them.
LEMMA WaitingNumbers ==
  ASSUME TypeOK, NEW w \in Waiting
  PROVE  w \in 1 .. sent /\ w \in Nat /\ w # 0 /\ status[w] = "sent"
<1>1. w \in 1 .. sent /\ sent \in Nat
  BY RouterAssumption DEF TypeOK, Waiting
<1> QED BY <1>1 DEF Waiting

\* Steps that add nothing to what waits and leave the list and what was handled.
LEMMA OrderedKept ==
  ASSUME TypeOK, Ordered, UNCHANGED handled,
         Waiting' \subseteq Waiting,
         batch'[Simulator] = batch[Simulator],
         \A b \in batch[Simulator] : status'[b] = status[b],
         current'[Simulator] \in {0, current[Simulator]},
         pc[Simulator] = "record" => current[Simulator] \notin Waiting',
         InHand'
  PROVE  Ordered'
<1> DEFINE S == Simulator
<1>1. current'[S] <= current[S] /\ current'[S] \in Nat
  BY Numbers
<1>2. WaitingLast'
  <2> SUFFICES ASSUME NEW w \in Waiting'
               PROVE  /\ \A i \in DOMAIN handled[S] : handled[S][i] < w
                      /\ \A b \in batch[S] : w \in batch[S] \/ b < w
                      /\ current'[S] <= w
    BY DEF WaitingLast
  <2>1. w \in Waiting /\ w \in Nat
    BY WaitingNumbers
  <2>2. current[S] <= w /\ current[S] \in Nat
    BY <2>1, Numbers DEF Ordered, WaitingLast
  <2> QED BY <1>1, <2>1, <2>2 DEF Ordered, WaitingLast
<1>3. ListLast'
  <2>1. \A b \in batch[S] : b \in Nat /\ current[S] \in Nat /\ current[S] < b
    BY Numbers DEF Ordered, ListLast
  <2>2. \A b \in batch[S] : current'[S] < b
    BY <1>1, <2>1
  <2> QED BY <2>2 DEF Ordered, ListLast
<1> QED BY <1>2, <1>3 DEF Ordered

LEMMA AloneSend == TypeOK /\ Alone /\ Send => Alone'
<1> SUFFICES ASSUME TypeOK, Alone, Send PROVE Alone'
  OBVIOUS
<1> DEFINE S == Simulator
<1>1. UNCHANGED <<status, received_messages, handled, failed, pc, batch, current, kept>>
  BY DEF Send, receivers, local
<1>2. message_queue' = message_queue \cup {sent + 1} /\ sent \in Nat
  BY RouterAssumption DEF TypeOK, Send
<1>3. Waiting' \subseteq Waiting \cup {sent + 1}
  BY <1>1, <1>2 DEF Waiting
<1>4. /\ S \in Threads /\ \A b \in batch[S] : b < sent + 1
      /\ current[S] <= sent + 1
      /\ \A i \in DOMAIN handled[S] : handled[S][i] < sent + 1
  <2>1. S \in Threads /\ handled[S] \in Seq(1 .. sent)
    BY RouterAssumption DEF TypeOK
  <2>2. \A i \in DOMAIN handled[S] : handled[S][i] \in 1 .. sent
    BY <2>1, HandledAreMessages
  <2>3. batch[S] \subseteq 1 .. sent /\ current[S] \in 0 .. sent
    BY <2>1 DEF TypeOK
  <2>4. \A b \in 0 .. sent : b < sent + 1
    BY <1>2
  <2>5. \A b \in 1 .. sent : b < sent + 1
    BY <1>2
  <2>6. current[S] < sent + 1 /\ current[S] \in Nat
    BY <1>2, <2>3, <2>4
  <2> QED BY <1>2, <2>1, <2>2, <2>3, <2>5, <2>6
<1>5. Ordered'
  <2>1. WaitingLast'
    BY <1>1, <1>3, <1>4 DEF Alone, Ordered, WaitingLast
  <2>2. ListLast' /\ InHand'
    BY <1>1 DEF Alone, Ordered, ListLast, InHand
  <2> QED BY <2>1, <2>2 DEF Ordered
<1>6. Drained'
  <2>1. sent + 1 \in Messages /\ sent + 1 > sent
    BY <1>2, RouterAssumption DEF Send, Messages
  <2>2. status[sent + 1] = "sent"
    BY <2>1 DEF Alone
  <2> QED BY <1>1, <1>2, <2>2 DEF Alone, Drained
<1>7. \A m \in Messages : m > sent' => status'[m] = "sent"
  BY <1>1, <1>2 DEF Alone, Messages, Send
<1> QED BY <1>1, <1>5, <1>6, <1>7 DEF Alone

LEMMA AloneDeliver ==
  ASSUME TypeOK, Unhandled, Alone, started = {Simulator},
         NEW t \in Threads, Deliver(t)
  PROVE  Alone'
<1> DEFINE S == Simulator
<1>0. S \in Threads /\ sent \in Nat /\ t = S
  <2>1. CASE pc[t] = "idle"
    BY <2>1, Numbers DEF Deliver, Poll, Finish, Visit, Record, Trim, TrimFails,
       Handle, HandleFails, Mark, Assign
  <2>2. CASE pc[t] # "idle"
    BY <2>2, Numbers DEF Alone
  <2> QED BY <2>1, <2>2
<1>a. pc[S] \notin {"idle", "visit", "dead"} =>
        /\ current[S] \in 1 .. sent /\ current[S] \in Messages
        /\ Receiver[current[S]] \in Nodes
  BY <1>0, CurrentType
<1>b. /\ message_queue \subseteq Nat /\ Waiting \subseteq message_queue
      /\ batch[S] \subseteq Nat /\ current[S] \in Nat
      /\ \A i \in DOMAIN handled[S] : i \in Nat /\ handled[S][i] \in Nat
  BY Numbers
<1>c. \A u \in Threads \ {S} : pc'[u] = "idle"
  <2>1. \A u \in Threads \ {S} : pc'[u] = pc[u]
    BY <1>0 DEF TypeOK, Deliver, Poll, Finish, Visit, Record, Trim, TrimFails,
       Handle, HandleFails, Mark, Assign, Goto
  <2> QED BY <2>1 DEF Alone
<1>1. CASE Poll(t)
  <2>1. UNCHANGED <<sent, message_queue, status, received_messages, handled, failed,
                    current, kept>>
        /\ batch'[S] = Waiting /\ pc'[S] = "visit" /\ pc[S] = "idle"
    BY <1>0, <1>1 DEF TypeOK, Poll, Pending, Waiting, Goto, shared, receivers
  <2>2. current[S] = 0
    BY <2>1 DEF Alone, Ordered, InHand
  <2>3. \A w \in Waiting : 0 < w
    BY <1>0 DEF TypeOK, Waiting
  <2>4. Ordered'
    <3>1. WaitingLast'
      <4>1. Waiting' = Waiting
        BY <2>1 DEF Waiting
      <4>2. \A w \in Waiting : 0 <= w
        BY WaitingNumbers
      <4> QED BY <2>1, <2>2, <4>1, <4>2 DEF Alone, Ordered, WaitingLast
    <3>2. ListLast'
      BY <2>1, <2>2, <2>3 DEF Alone, Ordered, WaitingLast, ListLast, Waiting
    <3>3. InHand'
      BY <2>1, <2>2 DEF InHand
    <3> QED BY <3>1, <3>2, <3>3 DEF Ordered
  <2>5. Drained'
    BY <2>1 DEF Alone, Drained
  <2> QED BY <1>c, <2>1, <2>4, <2>5 DEF Alone
<1>2. CASE Finish(t)
  <2>1. UNCHANGED <<sent, message_queue, status, received_messages, handled, failed,
                    batch, current, kept>>
        /\ pc'[S] = "idle" /\ pc[S] = "visit"
    BY <1>0, <1>2 DEF TypeOK, Finish, Goto, shared, receivers
  <2>2. Ordered'
    BY <2>1 DEF Alone, Ordered, WaitingLast, ListLast, InHand, Waiting
  <2> QED BY <1>c, <2>1, <2>2 DEF Alone, Drained
<1>3. CASE Visit(t)
  <2> DEFINE m == Foremost(batch[S])
  <2>1. m \in batch[S] /\ batch[S] \in SUBSET (1 .. sent) /\ \A k \in batch[S] : m <= k
    BY <1>0, <1>3, VisitedType DEF Visit
  <2>2. status[m] = "sent" /\ m \in Messages /\ Receiver[m] \in Nodes
    BY <2>1, RouterAssumption DEF TypeOK, Alone, Ordered, ListLast, Messages
  <2>3. m \notin received_messages[Receiver[m]]
    BY <2>2 DEF Alone
  <2>4. UNCHANGED <<sent, message_queue, status, received_messages, handled, failed, kept>>
        /\ batch'[S] = batch[S] \ {m} /\ current'[S] = m
        /\ pc'[S] = "record" /\ pc[S] = "visit"
    BY <1>0, <1>3, <2>3 DEF TypeOK, Visit, Goto, shared, receivers
  <2> HIDE DEF m
  <2>5. \A k \in batch[S] \ {m} : m < k
    BY <1>b, <2>1
  <2>6. \A w \in Waiting : m <= w
    <3>1. \A w \in Waiting : w \in batch[S] \/ m < w
      BY <2>1, <2>4 DEF Alone, Ordered, WaitingLast
    <3>2. \A w \in Waiting : w \in Nat /\ m \in Nat
      BY <1>b, <2>1, WaitingNumbers
    <3> QED BY <2>1, <3>1, <3>2
  <2>7. \A w \in Waiting : \A b \in batch[S] \ {m} :
          w \in batch[S] \ {m} \/ b < w \/ w = m
    BY <2>4 DEF Alone, Ordered, WaitingLast
  <2>8. Ordered'
    <3>1. WaitingLast'
      BY <2>4, <2>6, <2>7 DEF Alone, Ordered, WaitingLast, Waiting
    <3>2. ListLast'
      BY <2>4, <2>5 DEF Alone, Ordered, ListLast
    <3>3. InHand'
      BY <2>1, <2>2, <2>4 DEF Alone, Ordered, ListLast, InHand
    <3> QED BY <3>1, <3>2, <3>3 DEF Ordered
  <2>9. Drained'
    BY <2>4 DEF Alone, Drained
  <2> QED BY <1>c, <2>4, <2>8, <2>9 DEF Alone
<1>4. CASE Record(t)
  <2> DEFINE m == current[S]
             n == Receiver[m]
  <2>1. UNCHANGED <<sent, message_queue, handled, failed, batch, current, kept>>
        /\ status' = [status EXCEPT ![m] = "received"]
        /\ received_messages' = [received_messages EXCEPT ![n] = @ \cup {m}]
        /\ pc'[S] = "trim" /\ pc[S] = "record"
    BY <1>0, <1>4 DEF TypeOK, Record, Goto
  <2>2. m \in 1 .. sent /\ m \in Messages /\ n \in Nodes
    BY <1>a, <2>1
  <2>3. status'[m] = "received" /\ \A k \in Messages : k # m => status'[k] = status[k]
    BY <2>1, <2>2 DEF TypeOK
  <2>4. /\ \A k \in Nodes : received_messages'[k] \subseteq received_messages[k] \cup {m}
        /\ \A k \in Nodes : received_messages[k] \subseteq Messages
    BY <1>0, <2>1, <2>2, RouterAssumption DEF TypeOK, Messages
  <2>5. \A k \in Nodes : \A j \in received_messages'[k] : status'[j] # "sent"
    BY <2>3, <2>4 DEF Alone
  <2>6. message_queue \subseteq Messages /\ batch[S] \subseteq Messages /\ m \notin batch[S]
    BY <1>0, <1>b, <2>1, RouterAssumption DEF TypeOK, Messages, Alone, Ordered, ListLast
  <2>7. Waiting' \subseteq Waiting
    BY <2>1, <2>3, <2>6 DEF Waiting
  <2>8. Ordered'
    <3>1. InHand'
      BY <2>1 DEF Alone, Ordered, InHand
    <3>2. m \notin Waiting'
      BY <2>3 DEF Waiting
    <3>3. \A b \in batch[S] : status'[b] = status[b]
      BY <2>3, <2>6
    <3> QED BY <2>1, <2>7, <3>1, <3>2, <3>3, OrderedKept DEF Alone
  <2>9. Drained'
    BY <2>1, <2>3, <2>6 DEF Alone, Drained
  <2>10. \A k \in Messages : k > sent' => status'[k] = "sent"
    BY <1>0, <2>1, <2>2, <2>3 DEF Alone
  <2> QED BY <1>c, <2>1, <2>5, <2>8, <2>9, <2>10 DEF Alone
<1>5. CASE Trim(t)
  <2>1. UNCHANGED <<sent, message_queue, status, handled, failed, batch, current, kept>>
        /\ pc'[S] = "handle" /\ pc[S] = "trim"
    BY <1>0, <1>5 DEF TypeOK, Trim, Goto
  <2>2. \A k \in Nodes : received_messages'[k] \subseteq received_messages[k]
    BY <1>5 DEF TypeOK, Trim
  <2>3. Ordered'
    BY <2>1 DEF Alone, Ordered, WaitingLast, ListLast, InHand, Waiting
  <2> QED BY <1>c, <2>1, <2>2, <2>3 DEF Alone, Drained
<1>6. CASE TrimFails(t)
  <2>1. UNCHANGED <<sent, message_queue, status, handled, kept>>
        /\ failed' = failed \cup {current[S]}
        /\ batch'[S] = {} /\ current'[S] = 0
        /\ pc'[S] \in {"idle", "dead"} /\ pc[S] = "trim"
    BY <1>0, <1>6 DEF TypeOK, TrimFails, Goto
  <2>2. \A k \in Nodes : received_messages'[k] \subseteq received_messages[k]
    <3>1. PICK gone : received_messages' =
            [received_messages EXCEPT ![Receiver[current[t]]] = @ \ gone]
      BY <1>6 DEF TrimFails
    <3> QED BY <3>1 DEF TypeOK
  <2>3. Ordered'
    <3>1. WaitingLast'
      <4>1. Waiting' = Waiting
        BY <2>1 DEF Waiting
      <4>2. \A w \in Waiting : 0 <= w
        BY <1>b, WaitingNumbers
      <4>3. \A w \in Waiting : \A i \in DOMAIN handled[S] : handled[S][i] < w
        BY DEF Alone, Ordered, WaitingLast
      <4> QED BY <2>1, <4>1, <4>2, <4>3 DEF WaitingLast
    <3> QED BY <2>1, <3>1 DEF Ordered, ListLast, InHand
  <2>4. Drained'
    BY <2>1 DEF Alone, Drained
  <2> QED BY <1>c, <2>1, <2>2, <2>3, <2>4 DEF Alone
<1>7. CASE Handle(t) \/ HandleFails(t)
  <2> DEFINE m == current[S]
             h == Append(handled[S], m)
             n == Len(handled[S]) + 1
  <2>1. /\ m \in 1 .. sent /\ status[m] # "sent" /\ pc[S] = "handle"
        /\ \A i \in DOMAIN handled[S] : handled[S][i] < m
    BY <1>0, <1>7, <1>a DEF Unhandled, Alone, Ordered, InHand, Handle, HandleFails
  <2>2. /\ DOMAIN h = DOMAIN handled[S] \cup {n} /\ n \notin DOMAIN handled[S]
        /\ \A i \in DOMAIN handled[S] : i \in Nat /\ i < n /\ h[i] = handled[S][i]
        /\ h[n] = m
    BY <1>0, <2>1, AppendFacts DEF TypeOK
  <2>3. n \in Nat
    <3>1. handled[S] \in Seq(1 .. sent)
      BY <1>0 DEF TypeOK
    <3> QED BY <3>1
  <2>4. /\ UNCHANGED <<sent, message_queue, status, received_messages, batch, kept>>
        /\ handled'[S] = h /\ failed \subseteq failed'
        /\ \/ pc'[S] = "mark" /\ current'[S] = m
           \/ pc'[S] = "visit" /\ current'[S] = 0 /\ m \in failed'
    <3>1. CASE Handle(t)
      BY <1>0, <3>1 DEF TypeOK, Handle, Goto, receivers
    <3>2. CASE HandleFails(t)
      BY <1>0, <3>2 DEF TypeOK, HandleFails, Goto, receivers
    <3> QED BY <1>7, <3>1, <3>2
  <2>5. \A w \in Waiting : m < w
    <3>1. \A w \in Waiting : m <= w /\ status[w] = "sent"
      BY DEF Alone, Ordered, WaitingLast, Waiting
    <3>2. \A w \in Waiting : w \in Nat /\ m \in Nat /\ w # m
      BY <1>b, <2>1, <3>1, WaitingNumbers
    <3> QED BY <3>1, <3>2
  <2> HIDE DEF h, n, m
  <2>6. \A i, j \in DOMAIN handled'[S] : i < j => handled'[S][i] < handled'[S][j]
    <3> SUFFICES ASSUME NEW i \in DOMAIN h, NEW j \in DOMAIN h, i < j
                 PROVE  h[i] < h[j]
      BY <2>4
    <3>1. i \in DOMAIN handled[S]
      BY <2>2, <2>3
    <3>2. CASE j = n
      BY <2>1, <2>2, <3>1, <3>2
    <3>3. CASE j \in DOMAIN handled[S]
      BY <2>2, <3>1, <3>3 DEF Alone
    <3> QED BY <2>2, <3>2, <3>3
  <2>7. \A w \in Waiting : \A i \in DOMAIN handled'[S] : handled'[S][i] < w
    BY <2>2, <2>4, <2>5 DEF Alone, Ordered, WaitingLast
  <2>8. \A b \in batch[S] : m < b /\ \A i \in DOMAIN handled'[S] : handled'[S][i] < b
    BY <2>2, <2>4 DEF Alone, Ordered, ListLast, m
  <2>9. current'[S] <= m /\ m \in Nat
    BY <1>b, <2>4 DEF m
  <2>10. Ordered'
    <3>1. \A w \in Waiting : current'[S] <= w
      BY <1>b, <2>5, <2>9, <2>4
    <3>2. \A b \in batch[S] : current'[S] < b
      BY <1>b, <2>8, <2>9, <2>4
    <3>3. Waiting' = Waiting
      BY <2>4 DEF Waiting
    <3>4. WaitingLast'
      BY <2>1, <2>4, <2>7, <3>1, <3>3 DEF Alone, Ordered, WaitingLast
    <3>5. ListLast'
      BY <2>4, <2>8, <3>2 DEF Alone, Ordered, ListLast
    <3>6. InHand'
      BY <2>4 DEF InHand
    <3> QED BY <3>4, <3>5, <3>6 DEF Ordered
  <2>11. Drained'
    BY <2>4 DEF Alone, Drained, m
  <2> QED BY <1>c, <2>4, <2>6, <2>10, <2>11 DEF Alone
<1>8. CASE Mark(t)
  <2> DEFINE m == current[S]
  <2>1. UNCHANGED <<sent, message_queue, received_messages, handled, failed, batch, current>>
        /\ status' \in {status, [status EXCEPT ![m] = "delivered"]}
        /\ kept'[S] = message_queue \ {m}
        /\ pc'[S] = "assign" /\ pc[S] = "mark"
    BY <1>0, <1>8 DEF TypeOK, Mark, Without, Goto, receivers
  <2>2. m \in 1 .. sent /\ m \in Messages
    BY <1>a, <2>1
  <2>3. \A k \in Messages : status'[k] = "sent" => status[k] = "sent"
    BY <2>1, <2>2 DEF TypeOK
  <2>4. \A k \in Messages : k # m => status'[k] = status[k]
    BY <2>1, <2>2 DEF TypeOK
  <2>5. message_queue \subseteq Messages /\ batch[S] \subseteq Messages /\ m \notin batch[S]
        /\ \A k \in Nodes : received_messages[k] \subseteq Messages
    BY <1>0, <1>b, RouterAssumption DEF TypeOK, Messages, Alone, Ordered, ListLast
  <2>6. Waiting' \subseteq Waiting
    BY <2>1, <2>3, <2>5 DEF Waiting
  <2>7. Ordered'
    <3>1. InHand'
      BY <2>1 DEF InHand
    <3>2. \A b \in batch[S] : status'[b] = status[b]
      BY <2>4, <2>5
    <3> QED BY <2>1, <2>6, <3>1, <3>2, OrderedKept DEF Alone
  <2>8. Drained'
    BY <2>1, <2>4, <2>5 DEF Alone, Drained
  <2>9. \A k \in Messages : k > sent' => status'[k] = "sent"
    BY <1>0, <2>1, <2>2, <2>4 DEF Alone
  <2>10. \A k \in Nodes : \A j \in received_messages'[k] : status'[j] # "sent"
    BY <2>1, <2>3, <2>5 DEF Alone
  <2> QED BY <1>c, <2>1, <2>7, <2>8, <2>9, <2>10 DEF Alone
<1>9. CASE Assign(t)
  <2>1. UNCHANGED <<sent, status, received_messages, handled, failed, batch>>
        /\ message_queue' = kept[S] /\ current'[S] = 0
        /\ pc'[S] = "visit" /\ pc[S] = "assign"
    BY <1>0, <1>9 DEF TypeOK, Assign, Goto, receivers
  <2>2. kept[S] \subseteq message_queue \ {current[S]}
    BY <2>1 DEF Alone, Drained
  <2>3. Waiting' \subseteq Waiting
    BY <2>1, <2>2 DEF Waiting
  <2>4. Ordered'
    <3>1. InHand'
      BY <2>1 DEF InHand
    <3> QED BY <2>1, <2>3, <3>1, OrderedKept DEF Alone
  <2>5. Drained'
    BY <2>1, <2>2 DEF Alone, Drained
  <2> QED BY <1>c, <2>1, <2>4, <2>5 DEF Alone
<1> QED BY <1>1, <1>2, <1>3, <1>4, <1>5, <1>6, <1>7, <1>8, <1>9 DEF Deliver

LEMMA AloneNext ==
  TypeOK /\ Unhandled /\ AloneInv /\ [Next]_vars => AloneInv'
<1> SUFFICES ASSUME TypeOK, Unhandled, AloneInv, [Next]_vars PROVE AloneInv'
  OBVIOUS
<1>1. CASE Send
  BY <1>1, AloneSend DEF AloneInv, Send, local
<1>2. ASSUME NEW t \in Threads, Start(t) PROVE AloneInv'
  BY <1>2 DEF AloneInv, Start
<1>3. ASSUME NEW t \in Threads, Deliver(t) PROVE AloneInv'
  <2>1. UNCHANGED started
    BY <1>3 DEF Deliver, Poll, Finish, Visit, Record, Trim, TrimFails, Handle,
       HandleFails, Mark, Assign
  <2> QED BY <1>3, <2>1, AloneDeliver DEF AloneInv
<1>4. ASSUME NEW n \in Nodes, Crowd(n) PROVE AloneInv'
  <2>1. \A k \in Nodes : received_messages'[k] \subseteq received_messages[k]
    BY <1>4 DEF TypeOK, Crowd
  <2> QED BY <1>4, <2>1 DEF AloneInv, Alone, Ordered, WaitingLast, ListLast, InHand,
     Drained, Waiting, Crowd, local
<1>5. CASE UNCHANGED vars
  BY <1>5 DEF AloneInv, Alone, Ordered, WaitingLast, ListLast, InHand, Drained,
     Waiting, vars
<1> QED BY <1>1, <1>2, <1>3, <1>4, <1>5 DEF Next

LEMMA AloneAlways == Spec => []AloneInv
  BY TypeCorrect, UnhandledInit, UnhandledNext, AloneInit, AloneNext, PTL DEF Spec

\* As long as the simulator's thread delivers alone, a zone's messages are handled
\* in the order they were sent, none of them twice (simulate_message_delivery).
THEOREM OrderKept == Spec => []InOrderAlone
<1>1. AloneInv => InOrderAlone
  BY DEF AloneInv, Alone, InOrderAlone
<1> QED BY <1>1, AloneAlways, PTL

\* ... and what is received does not stay in the queue, unless its handler raised
\* (mark_message_delivered).
THEOREM Drains == Spec => []QueueDrains
<1>1. AloneInv => QueueDrains
  BY DEF AloneInv, Alone, Drained, QueueDrains
<1> QED BY <1>1, AloneAlways, PTL

-----------------------------------------------------------------------------
(***************************************************************************)
(* What NoneWaitsForever rests on but for fairness: a waiting message is   *)
(* not skipped, and a thread's turn comes to an end.                       *)
(***************************************************************************)

\* An id that is remembered was recorded; a thread without a turn has no list.
Known ==
  /\ \A n \in Nodes : \A m \in received_messages[n] : status[m] # "sent"
  /\ \A t \in Threads : pc[t] = "idle" => batch[t] = {}

\* A message that leaves t's list while it waits to be received is the one t delivers
\* next, unless t lost its list to the KeyError of _trim.
NotSkipped(t) ==
  \A m \in batch[t] \ batch'[t] :
    status[m] = "sent" => (pc'[t] = "record" /\ current'[t] = m) \/ TrimFails(t)

LEMMA KnownInit == Init => Known
  BY DEF Init, Known

\* Steps that remember nothing, and give nobody a turn or a longer list.
LEMMA KnownKept ==
  ASSUME TypeOK, Known, StatusMoves,
         \A n \in Nodes : received_messages'[n] \subseteq received_messages[n],
         \A t \in Threads : /\ batch'[t] \subseteq batch[t]
                            /\ pc'[t] = "idle" => pc[t] = "idle"
  PROVE  Known'
<1>1. ASSUME NEW n \in Nodes, NEW m \in received_messages'[n] PROVE status'[m] # "sent"
  <2>1. m \in received_messages[n] /\ m \in 1 .. sent /\ sent \in 0 .. MaxSent
    BY <1>1 DEF TypeOK
  <2>2. m \in Messages
    BY <2>1, RouterAssumption DEF Messages
  <2> QED BY <2>1, <2>2 DEF Known, StatusMoves
<1>2. ASSUME NEW t \in Threads, pc'[t] = "idle" PROVE batch'[t] = {}
  BY <1>2 DEF Known
<1> QED BY <1>1, <1>2 DEF Known

\* The turn that ends has no list left.
LEMMA KnownEnds ==
  ASSUME TypeOK, Known, StatusMoves,
         \A n \in Nodes : received_messages'[n] \subseteq received_messages[n],
         NEW t \in Threads, batch'[t] = {},
         \A u \in Threads : u # t => batch'[u] = batch[u] /\ pc'[u] = pc[u]
  PROVE  Known'
<1>1. ASSUME NEW n \in Nodes, NEW m \in received_messages'[n] PROVE status'[m] # "sent"
  <2>1. m \in received_messages[n] /\ m \in 1 .. sent /\ sent \in 0 .. MaxSent
    BY <1>1 DEF TypeOK
  <2>2. m \in Messages
    BY <2>1, RouterAssumption DEF Messages
  <2> QED BY <2>1, <2>2 DEF Known, StatusMoves
<1>2. ASSUME NEW u \in Threads, pc'[u] = "idle" PROVE batch'[u] = {}
  <2>1. CASE u = t
    BY <2>1
  <2>2. CASE u # t
    BY <1>2, <2>2 DEF Known
  <2> QED BY <2>1, <2>2
<1> QED BY <1>1, <1>2 DEF Known

LEMMA KnownDeliver ==
  ASSUME TypeOK, Known, NEW t \in Threads, Deliver(t)
  PROVE  Known'
<1>0. \A u \in Threads : pc[u] \notin {"idle", "visit", "dead"} =>
        current[u] \in Messages /\ Receiver[current[u]] \in Nodes
  BY CurrentType
<1>1. CASE Poll(t)
  <2>1. \A u \in Threads : pc'[u] = "idle" => u # t /\ pc[u] = "idle" /\ batch'[u] = batch[u]
    BY <1>1 DEF TypeOK, Poll, Goto
  <2> QED BY <1>1, <2>1 DEF Known, Poll, shared, receivers
<1>2. CASE Finish(t)
  <2>1. batch' = batch /\ batch[t] = {}
    BY <1>2 DEF Finish
  <2>2. \A u \in Threads : u # t => pc'[u] = pc[u]
    BY <1>2 DEF TypeOK, Finish, Goto
  <2>3. StatusMoves /\ received_messages' = received_messages
    BY <1>2 DEF Finish, shared, receivers, StatusMoves
  <2> QED BY <2>1, <2>2, <2>3, KnownEnds
<1>3. CASE Visit(t)
  <2>1. \A u \in Threads : batch'[u] \subseteq batch[u] /\ (pc'[u] = "idle" => pc[u] = "idle")
    BY <1>3 DEF TypeOK, Visit, Goto
  <2>2. StatusMoves /\ received_messages' = received_messages
    BY <1>3 DEF Visit, shared, receivers, StatusMoves
  <2> QED BY <2>1, <2>2, KnownKept
<1>4. CASE Record(t)
  <2> DEFINE m == current[t]
             n == Receiver[m]
  <2>1. m \in Messages /\ n \in Nodes
    BY <1>0, <1>4 DEF Record
  <2>2. /\ status' = [status EXCEPT ![m] = "received"]
        /\ received_messages' = [received_messages EXCEPT ![n] = @ \cup {m}]
    BY <1>4 DEF Record
  <2>3. \A u \in Threads : batch'[u] = batch[u] /\ (pc'[u] = "idle" => pc[u] = "idle")
    BY <1>4 DEF TypeOK, Record, Goto
  <2> HIDE DEF m, n
  <2>4. ASSUME NEW k \in Nodes, NEW j \in received_messages'[k] PROVE status'[j] # "sent"
    <3>1. CASE j = m
      BY <2>1, <2>2, <3>1 DEF TypeOK
    <3>2. CASE j # m
      <4>1. j \in received_messages[k]
        BY <2>1, <2>2, <2>4, <3>2 DEF TypeOK
      <4>2. status'[j] = status[j]
        BY <2>1, <2>2, <3>2 DEF TypeOK
      <4> QED BY <4>1, <4>2 DEF Known
    <3> QED BY <3>1, <3>2
  <2> QED BY <2>3, <2>4 DEF Known
<1>5. CASE Trim(t)
  <2>1. \A u \in Threads : batch'[u] = batch[u] /\ (pc'[u] = "idle" => pc[u] = "idle")
    BY <1>5 DEF TypeOK, Trim, Goto
  <2>2. StatusMoves
    BY <1>5 DEF Trim, StatusMoves
  <2>3. \A k \in Nodes : received_messages'[k] \subseteq received_messages[k]
    BY <1>5 DEF TypeOK, Trim
  <2> QED BY <2>1, <2>2, <2>3, KnownKept
<1>6. CASE TrimFails(t)
  <2>1. /\ batch'[t] = {}
        /\ \A u \in Threads : u # t => batch'[u] = batch[u] /\ pc'[u] = pc[u]
    BY <1>6 DEF TypeOK, TrimFails, Goto
  <2>2. StatusMoves
    BY <1>6 DEF TrimFails, StatusMoves
  <2>3. \A k \in Nodes : received_messages'[k] \subseteq received_messages[k]
    BY <1>6 DEF TypeOK, TrimFails
  <2> QED BY <2>1, <2>2, <2>3, KnownEnds
<1>7. CASE Handle(t) \/ HandleFails(t)
  <2>1. \A u \in Threads : batch'[u] = batch[u] /\ (pc'[u] = "idle" => pc[u] = "idle")
    BY <1>7 DEF TypeOK, Handle, HandleFails, Goto
  <2>2. StatusMoves /\ received_messages' = received_messages
    BY <1>7 DEF Handle, HandleFails, receivers, StatusMoves
  <2> QED BY <2>1, <2>2, KnownKept
<1>8. CASE Mark(t)
  <2>1. \A u \in Threads : batch'[u] = batch[u] /\ (pc'[u] = "idle" => pc[u] = "idle")
    BY <1>8 DEF TypeOK, Mark, Goto
  <2>2. StatusMoves /\ received_messages' = received_messages
    BY <1>0, <1>8 DEF TypeOK, Mark, receivers, StatusMoves
  <2> QED BY <2>1, <2>2, KnownKept
<1>9. CASE Assign(t)
  <2>1. \A u \in Threads : batch'[u] = batch[u] /\ (pc'[u] = "idle" => pc[u] = "idle")
    BY <1>9 DEF TypeOK, Assign, Goto
  <2>2. StatusMoves /\ received_messages' = received_messages
    BY <1>9 DEF Assign, receivers, StatusMoves
  <2> QED BY <2>1, <2>2, KnownKept
<1> QED BY <1>1, <1>2, <1>3, <1>4, <1>5, <1>6, <1>7, <1>8, <1>9 DEF Deliver

LEMMA KnownNext == TypeOK /\ Known /\ [Next]_vars => Known'
<1> SUFFICES ASSUME TypeOK, Known, [Next]_vars PROVE Known'
  OBVIOUS
<1>1. CASE Send
  BY <1>1 DEF Known, Send, local, receivers
<1>2. ASSUME NEW t \in Threads, Start(t) PROVE Known'
  BY <1>2 DEF Known, Start, shared, receivers
<1>3. ASSUME NEW t \in Threads, Deliver(t) PROVE Known'
  BY <1>3, KnownDeliver
<1>4. ASSUME NEW n \in Nodes, Crowd(n) PROVE Known'
  <2>1. \A k \in Nodes : received_messages'[k] \subseteq received_messages[k]
    BY <1>4 DEF TypeOK, Crowd
  <2>2. StatusMoves /\ UNCHANGED <<batch, pc>>
    BY <1>4 DEF Crowd, local, StatusMoves
  <2> QED BY <2>1, <2>2, KnownKept
<1>5. CASE UNCHANGED vars
  BY <1>5 DEF Known, vars
<1> QED BY <1>1, <1>2, <1>3, <1>4, <1>5 DEF Next

\* Steps of others leave a thread's list and its place alone.
LEMMA OthersStep ==
  ASSUME TypeOK, Next, NEW t \in Threads, ~Deliver(t)
  PROVE  pc'[t] = pc[t] /\ batch'[t] = batch[t]
<1>1. CASE Send
  BY <1>1 DEF Send, local
<1>2. ASSUME NEW u \in Threads, Start(u) PROVE pc'[t] = pc[t] /\ batch'[t] = batch[t]
  BY <1>2 DEF Start
<1>3. ASSUME NEW u \in Threads, Deliver(u), u # t
      PROVE  pc'[t] = pc[t] /\ batch'[t] = batch[t]
  BY <1>3 DEF TypeOK, Deliver, Poll, Finish, Visit, Record, Trim, TrimFails, Handle,
              HandleFails, Mark, Assign, Goto
<1>4. ASSUME NEW n \in Nodes, Crowd(n) PROVE pc'[t] = pc[t] /\ batch'[t] = batch[t]
  BY <1>4 DEF Crowd, local
<1> QED BY <1>1, <1>2, <1>3, <1>4 DEF Next

\* The test whether an id was received before skips no message that still waits, and a
\* thread gives up its list with waiting messages on it only when _trim raised: those
\* stay in the queue for the next poll (receive_message, simulate_message_delivery).
THEOREM WaitingNotSkipped == Spec => [][\A t \in Threads : NotSkipped(t)]_vars
<1>1. ASSUME TypeOK, Known, Next, NEW t \in Threads PROVE NotSkipped(t)
  <2>1. CASE ~Deliver(t)
    BY <1>1, <2>1, OthersStep DEF NotSkipped
  <2>2. CASE Poll(t)
    BY <1>1, <2>2 DEF NotSkipped, Known, Poll
  <2>3. CASE Visit(t)
    <3>1. /\ Foremost(batch[t]) \in batch[t] /\ batch[t] \in SUBSET (1 .. sent)
          /\ sent \in 0 .. MaxSent
      BY <1>1, <2>3, VisitedType DEF Visit, TypeOK
    <3>2. Foremost(batch[t]) \in Messages
      BY <3>1, RouterAssumption DEF Messages
    <3>3. Receiver[Foremost(batch[t])] \in Nodes
      BY <3>2, RouterAssumption DEF Messages
    <3>4. batch'[t] = batch[t] \ {Foremost(batch[t])}
      BY <1>1, <2>3 DEF TypeOK, Visit
    <3>5. CASE Foremost(batch[t]) \in received_messages[Receiver[Foremost(batch[t])]]
      <4>1. status[Foremost(batch[t])] # "sent"
        BY <1>1, <3>3, <3>5 DEF Known
      <4> QED BY <3>4, <4>1 DEF NotSkipped
    <3>6. CASE Foremost(batch[t]) \notin received_messages[Receiver[Foremost(batch[t])]]
      <4>1. pc'[t] = "record" /\ current'[t] = Foremost(batch[t])
        BY <1>1, <2>3, <3>6 DEF TypeOK, Visit, Goto
      <4> QED BY <3>4, <4>1 DEF NotSkipped
    <3> QED BY <3>5, <3>6
  <2>4. CASE TrimFails(t)
    BY <2>4 DEF NotSkipped
  <2>5. CASE Finish(t) \/ Record(t) \/ Trim(t) \/ Handle(t) \/ HandleFails(t) \/ Mark(t)
               \/ Assign(t)
    <3>1. batch' = batch
      BY <2>5 DEF Finish, Record, Trim, Handle, HandleFails, Mark, Assign
    <3> QED BY <3>1 DEF NotSkipped
  <2> QED BY <2>1, <2>2, <2>3, <2>4, <2>5 DEF Deliver
<1>2. TypeOK /\ Known /\ [Next]_vars => [\A t \in Threads : NotSkipped(t)]_vars
  BY <1>1
<1> QED BY <1>2, TypeCorrect, KnownInit, KnownNext, PTL DEF Spec

-----------------------------------------------------------------------------
\* The steps a delivery has still to take at each place, and in a whole turn.
ToGo == [visit |-> 0, record |-> 6, trim |-> 5, handle |-> 4, mark |-> 3, assign |-> 2]
Work(t) == 7 * Cardinality(batch[t]) + ToGo[pc[t]]

\* A thread is let alone, begins a turn with all that waits, ends it with its list
\* used up, loses it to the KeyError, or has less work left.
TurnEnds(t) ==
  \/ pc'[t] = pc[t] /\ batch'[t] = batch[t]
  \/ pc[t] = "idle" /\ batch'[t] = Waiting
  \/ pc'[t] = "idle" /\ batch[t] = {}
  \/ TrimFails(t)
  \/ Work(t)' \in Nat /\ Work(t)' < Work(t)

LEMMA WorkType ==
  ASSUME TypeOK, NEW t \in Threads
  PROVE  IsFiniteSet(batch[t]) /\ Cardinality(batch[t]) \in Nat
<1>1. batch[t] \in SUBSET (1 .. sent) /\ sent \in Nat
  BY RouterAssumption DEF TypeOK
<1>2. IsFiniteSet(1 .. sent)
  BY <1>1, FS_Interval
<1>3. IsFiniteSet(batch[t])
  BY <1>1, <1>2, FS_Subset
<1> QED BY <1>3, FS_CardinalityType

\* A step to the next place of a delivery.
LEMMA WorkStep ==
  ASSUME TypeOK, NEW t \in Threads, batch'[t] = batch[t],
         <<pc[t], pc'[t]>> \in {<<"record", "trim">>, <<"trim", "handle">>,
                                <<"handle", "mark">>, <<"handle", "visit">>,
                                <<"mark", "assign">>, <<"assign", "visit">>}
  PROVE  Work(t)' \in Nat /\ Work(t)' < Work(t)
<1>1. PICK c \in Nat : c = Cardinality(batch[t])
  BY WorkType
<1>2. Work(t) = 7 * c + ToGo[pc[t]] /\ Work(t)' = 7 * c + ToGo[pc'[t]]
  BY <1>1 DEF Work, ToGo
<1>3. ToGo[pc[t]] \in Nat /\ ToGo[pc'[t]] \in Nat /\ ToGo[pc'[t]] < ToGo[pc[t]]
  BY DEF ToGo
<1> QED BY <1>1, <1>2, <1>3

\* A turn of a delivery thread takes a bounded number of steps of its own, and begins
\* with all that waits in the queue: nothing it does, however others send, deliver and
\* forget, makes it go on for ever (simulate_message_delivery).
THEOREM TurnsEnd == Spec => [][\A t \in Threads : TurnEnds(t)]_vars
<1>1. ASSUME TypeOK, Next, NEW t \in Threads PROVE TurnEnds(t)
  <2>1. CASE ~Deliver(t)
    BY <1>1, <2>1, OthersStep DEF TurnEnds
  <2>2. CASE Poll(t)
    <3>1. batch'[t] = Waiting
      BY <1>1, <2>2 DEF TypeOK, Poll, Pending, Waiting
    <3> QED BY <2>2, <3>1 DEF TurnEnds, Poll
  <2>3. CASE Finish(t)
    BY <1>1, <2>3 DEF TypeOK, TurnEnds, Finish, Goto
  <2>4. CASE Visit(t)
    <3>1. Foremost(batch[t]) \in batch[t]
      BY <1>1, <2>4, VisitedType DEF Visit
    <3>2. batch'[t] = batch[t] \ {Foremost(batch[t])} /\ pc[t] = "visit"
      BY <1>1, <2>4 DEF TypeOK, Visit
    <3>3. pc'[t] \in {"visit", "record"}
      BY <1>1, <2>4 DEF TypeOK, Visit, Goto
    <3>4. IsFiniteSet(batch[t]) /\ Cardinality(batch[t]) \in Nat
      BY <1>1, WorkType
    <3>5. /\ Cardinality(batch'[t]) = Cardinality(batch[t]) - 1
          /\ IsFiniteSet(batch'[t])
      BY <3>1, <3>2, <3>4, FS_RemoveElement
    <3>6. Cardinality(batch'[t]) \in Nat
      BY <3>5, FS_CardinalityType
    <3>7. PICK c \in Nat : c = Cardinality(batch[t])
      BY <3>4
    <3>8. PICK d \in Nat : d = Cardinality(batch'[t])
      BY <3>6
    <3>9. d = c - 1
      BY <3>5, <3>7, <3>8
    <3>10. Work(t) = 7 * c + ToGo["visit"] /\ Work(t)' = 7 * d + ToGo[pc'[t]]
      BY <3>2, <3>7, <3>8 DEF Work, ToGo
    <3>11. ToGo["visit"] = 0 /\ ToGo[pc'[t]] \in {0, 6}
      BY <3>3 DEF ToGo
    <3>12. Work(t)' \in Nat /\ Work(t)' < Work(t)
      BY <3>7, <3>8, <3>9, <3>10, <3>11
    <3> QED BY <3>12 DEF TurnEnds
  <2>5. CASE TrimFails(t)
    BY <2>5 DEF TurnEnds
  <2>6. CASE Record(t) \/ Trim(t) \/ Handle(t) \/ HandleFails(t) \/ Mark(t) \/ Assign(t)
    <3>1. batch'[t] = batch[t]
      BY <2>6 DEF Record, Trim, Handle, HandleFails, Mark, Assign
    <3>2. <<pc[t], pc'[t]>> \in {<<"record", "trim">>, <<"trim", "handle">>,
                                <<"handle", "mark">>, <<"handle", "visit">>,
                                <<"mark", "assign">>, <<"assign", "visit">>}
      BY <1>1, <2>6
         DEF TypeOK, Record, Trim, Handle, HandleFails, Mark, Assign, Goto
    <3> QED BY <1>1, <3>1, <3>2, WorkStep DEF TurnEnds
  <2> QED BY <2>1, <2>2, <2>3, <2>4, <2>5, <2>6 DEF Deliver
<1>2. TypeOK /\ [Next]_vars => [\A t \in Threads : TurnEnds(t)]_vars
  BY <1>1
<1> QED BY <1>2, TypeCorrect, PTL DEF Spec
=============================================================================
