------------------------------ MODULE AuditLog ------------------------------
(***************************************************************************)
(* What the ledger promises the zones: an event that was signed is waiting *)
(* until it is in the log, it gets into the log once, and what is in the   *)
(* log stays there (contracts/ledger.py, "append-only").                   *)
(***************************************************************************)
EXTENDS Integers, Sequences

CONSTANT Events

VARIABLES
  waiting,   \* the events signed and not yet in the log
  log        \* the batches logged so far, each a set of events

auditVars == <<waiting, log>>

Logged == UNION {log[i] : i \in DOMAIN log}

AuditInit == waiting = {} /\ log = <<{}>>

SignEvent(e) ==
  /\ e \notin waiting \cup Logged
  /\ waiting' = waiting \cup {e}
  /\ UNCHANGED log

\* A batch of waiting events is logged.
LogBatch(B) ==
  /\ B # {}
  /\ log' = Append(log, B)
  /\ waiting' = waiting \ B

AuditNext ==
  \/ \E e \in Events : SignEvent(e)
  \/ \E B \in SUBSET waiting : LogBatch(B)

AuditSpec == AuditInit /\ [][AuditNext]_auditVars
=============================================================================
