------------------------------ MODULE MCLedger ------------------------------
(***************************************************************************)
(* Small instances of Ledger for TLC.                                      *)
(***************************************************************************)
EXTENDS LedgerAudit, TLC

CONSTANTS v1, v2, v3, v4, z1, z2

MCValidators == {v1, v2, v3, v4}
MCSubmitters == {z1, z2}
=============================================================================
