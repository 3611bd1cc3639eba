-------------------------- MODULE MCDeliveryThread --------------------------
(***************************************************************************)
(* Small instances of DeliveryThread for TLC.                              *)
(***************************************************************************)
EXTENDS DeliveryThread, MCSpillover

MCVisit == <<1, 2, 3>>

\* UnlistedInit is reached from ThreadInit too, with the thread at any node.
UnlistedThreadSpec ==
  UnlistedInit /\ turn = 1 /\ batch = 0 /\ [][ThreadNext]_allVars
=============================================================================
