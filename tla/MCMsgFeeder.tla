---------------------------- MODULE MCMsgFeeder ----------------------------
(* Model-checking instance of MsgFeeder.                                   *)
EXTENDS MsgFeeder, TLC

MCLevels == {"INFO", "DEBUG", "ERROR"}
MCSymmetry == Permutations(Subs) \cup Permutations(Producers)
=============================================================================
