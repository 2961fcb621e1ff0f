----------------------------- MODULE MCConsole -----------------------------
(***************************************************************************)
(* Small executions of Console for TLC.                                    *)
(***************************************************************************)
EXTENDS Console, TLC

SessionSymmetry == Permutations(Sessions)
=============================================================================
