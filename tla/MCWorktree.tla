----------------------------- MODULE MCWorktree -----------------------------
(***************************************************************************)
(* Two agents and the exit share the manager.  In the run that must pass   *)
(* the user has one piece of work, which an agent's entry and hers may     *)
(* hold at once, and stashes or pops twice between any two git commands of *)
(* the program.  In the other she has two and leaves the list alone.       *)
(***************************************************************************)
EXTENDS Worktree, TLC
CONSTANTS a1, a2, w1, w2
MCAgents == {a1, a2}
MCItems == {w1, w2}
MCAgentSymmetry == Permutations(MCAgents)
MCSymmetry == MCAgentSymmetry \cup Permutations(MCItems)
=============================================================================
