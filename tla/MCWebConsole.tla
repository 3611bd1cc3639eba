---------------------------- MODULE MCWebConsole ----------------------------
(***************************************************************************)
(* A small instance of WebConsole for TLC: two requests at a time.         *)
(***************************************************************************)
EXTENDS WebConsole, TLC

CONSTANTS r1, r2

MCRequests == {r1, r2}
MCSymmetry == Permutations(MCRequests)
=============================================================================
