---------------------------- MODULE MCSessionStore ----------------------------
(* Two sessions for a cache of one, and one fork: every load evicts, and a       *)
(* session has a branch to leave and one to enter.                               *)
EXTENDS SessionStore, TLC

CONSTANTS s1, s2, f1
MCSessions == {s1, s2}
MCForks == {f1}
MCSymmetry == Permutations(MCSessions)
=============================================================================
