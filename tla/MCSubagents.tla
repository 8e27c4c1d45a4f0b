---------------------------- MODULE MCSubagents ----------------------------
(* Workers are alike: they differ only in what the run does with them.     *)
EXTENDS Subagents, TLC

CONSTANTS w1, w2, p

Alike == Permutations(Worker)
=============================================================================
