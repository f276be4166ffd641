----------------------------- MODULE AgentRuns -----------------------------
(***************************************************************************)
(* What the subagent orchestrator promises to those who use it, without    *)
(* its goroutines, channels and child processes: at most Slots agents hold *)
(* a slot; an agent's outcome is decided once, while it holds its slot;    *)
(* its consumer is told that outcome, once.                                *)
(***************************************************************************)
EXTENDS Integers, FiniteSets

CONSTANTS Agents, Slots, Results, None

VARIABLES
    holding,    \* the agents that hold a slot
    outcome,    \* how an agent ended, None while it has not
    told        \* what its consumer was told

vars == <<holding, outcome, told>>

Init ==
    /\ holding = {}
    /\ outcome = [a \in Agents |-> None]
    /\ told = [a \in Agents |-> None]

Admit(a) ==
    /\ a \notin holding
    /\ outcome[a] = None
    /\ Cardinality(holding) < Slots
    /\ holding' = holding \cup {a}
    /\ UNCHANGED <<outcome, told>>

\* Several agents are decided together when the orchestrator shuts down.
Decide(S) ==
    /\ S # {}
    /\ \A a \in S : outcome[a] = None
    /\ \E r \in Results : outcome' = [a \in Agents |-> IF a \in S THEN r ELSE outcome[a]]
    /\ UNCHANGED <<holding, told>>

Tell(a) ==
    /\ outcome[a] # None
    /\ told[a] = None
    /\ told' = [told EXCEPT ![a] = outcome[a]]
    /\ UNCHANGED <<holding, outcome>>

\* An agent that never started returns its slot undecided.
Return(a) ==
    /\ a \in holding
    /\ holding' = holding \ {a}
    /\ UNCHANGED <<outcome, told>>

Next ==
    \/ \E a \in Agents : Admit(a) \/ Tell(a) \/ Return(a)
    \/ \E S \in SUBSET holding : Decide(S)

Spec == Init /\ [][Next]_vars
=============================================================================
