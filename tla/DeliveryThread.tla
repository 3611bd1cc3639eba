--------------------------- MODULE DeliveryThread ---------------------------
(***************************************************************************)
(* Spillover under the delivery order of FogNodeSimulator: one thread      *)
(* visits the nodes in the order they were created, takes a snapshot of    *)
(* the node's pending messages and delivers them in order.  Messages the   *)
(* handlers enqueue meanwhile wait for the next visit.  Operation loops    *)
(* and alerts run on threads of their own, in between.                     *)
(***************************************************************************)
EXTENDS Spillover

CONSTANT Visit   \* the zones in the order of fog_nodes

ASSUME VisitAssumption ==
  /\ Visit \in Seq(Zones) /\ Visit # <<>>
  /\ \A z \in Zones : \E i \in DOMAIN Visit : Visit[i] = z

VARIABLES
  turn,    \* position in Visit of the node whose messages are delivered
  batch    \* how many messages of the snapshot are still to be delivered

threadVars == <<turn, batch>>
allVars == <<vars, threadVars>>

\* The snapshot is a prefix of the queue: nobody else takes messages off it.
DeliverNext ==
  /\ batch > 0
  /\ Deliver(Visit[turn])
  /\ batch' = batch - 1
  /\ UNCHANGED turn

\* Faulty variant of VisitNext: the length is that of the last node's queue.
VisitNext_Stale ==
  /\ batch = 0
  /\ turn' = (turn % Len(Visit)) + 1
  /\ batch' = Len(message_queue[Visit[turn]])
  /\ UNCHANGED vars

VisitNext ==
  /\ batch = 0
  /\ turn' = (turn % Len(Visit)) + 1
  /\ batch' = Len(message_queue[Visit[turn']])
  /\ UNCHANGED vars

ThreadInit == Init /\ turn = 1 /\ batch = 0

OtherThreads ==
  /\ \/ \E z \in Looping : OperationLoop(z)
     \/ \E b \in Bins : Environment(b)
  /\ UNCHANGED threadVars

ThreadNext == DeliverNext \/ VisitNext \/ OtherThreads

ThreadSpec == ThreadInit /\ [][ThreadNext]_allVars

-----------------------------------------------------------------------------
\* The thread's position is within the visited nodes, and its snapshot never
\* reaches beyond the queue it was taken from.
SnapshotIsPending ==
  /\ turn \in DOMAIN Visit
  /\ batch \in 0 .. Len(message_queue[Visit[turn]])

\* Every bin is owned by some zone at all times: a transfer moves ownership,
\* it does not lose it (receive_spillover_request, _handle_spillover_adopted,
\* _handle_spillover_completed).
NoOrphanBin == \A b \in Bins : \E z \in Zones : b \in zone_bins[z]
=============================================================================
