-------------------------- MODULE MCMessageRouter --------------------------
(***************************************************************************)
(* A small instance of MessageRouter for TLC.                              *)
(***************************************************************************)
EXTENDS MessageRouter

CONSTANTS simulator, demo

MCThreads == {simulator, demo}
\* Every message goes to node 2.
MCReceiver == <<2, 2, 2>>
=============================================================================
