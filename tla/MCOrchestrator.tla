--------------------------- MODULE MCOrchestrator ---------------------------
(***************************************************************************)
(* Two spawns for a pool of one: the second waits for the first, or finds  *)
(* the orchestrator shut down.  s1 takes a worktree, s2's consumer leaves  *)
(* on an error.  Channels of capacity one make every send block or drop.   *)
(***************************************************************************)
EXTENDS Orchestrator, TLC
CONSTANTS s1, s2
MCSpawns == {s1, s2}
MCWantsWorktree == {s1}
MCQuitters == {s2}
MCMaxLines == (s1 :> 0) @@ (s2 :> 1)
=============================================================================
