---------------------------- MODULE TokenWindow ----------------------------
(***************************************************************************)
(* What the request limiter promises to its callers, without its ledger,   *)
(* its channels, timers and contexts: requests that have to wait are       *)
(* admitted in the order they came, each for the tokens it asked for, and  *)
(* whatever is admitted fits the budget of the window that ends with it.   *)
(***************************************************************************)
EXTENDS Integers, Sequences, Functions, SequencesExt

CONSTANTS Callers, TokenLimit, Window

VARIABLES
    queue,      \* the requests that wait, first come first
    admitted    \* tokens admitted 0, 1, ..., Window ticks ago

vars == <<queue, admitted>>

Requests == [caller : Callers, tokens : 1..TokenLimit]

Init ==
    /\ queue = <<>>
    /\ admitted = [a \in 0..Window |-> 0]

\* A caller waits for one request at a time.
Wait(r) ==
    /\ \A i \in DOMAIN queue : queue[i].caller # r.caller
    /\ queue' = Append(queue, r)
    /\ UNCHANGED admitted

GiveUp(i) ==
    /\ queue' = RemoveAt(queue, i)
    /\ UNCHANGED admitted

\* The budget is that of the window, whatever is admitted in it.
Admit(tokens) ==
    /\ SumFunction(admitted) + tokens <= TokenLimit
    /\ admitted' = [admitted EXCEPT ![0] = @ + tokens]

AdmitAtOnce(r) ==
    /\ queue = <<>>
    /\ Admit(r.tokens)
    /\ UNCHANGED queue

AdmitFirst ==
    /\ queue # <<>>
    /\ Admit(Head(queue).tokens)
    /\ queue' = Tail(queue)

\* What was admitted Window ticks ago leaves the window.
Tick ==
    /\ admitted' = [a \in 0..Window |-> IF a = 0 THEN 0 ELSE admitted[a - 1]]
    /\ UNCHANGED queue

Next ==
    \/ \E r \in Requests : Wait(r) \/ AdmitAtOnce(r)
    \/ \E i \in DOMAIN queue : GiveUp(i)
    \/ AdmitFirst
    \/ Tick

Spec == Init /\ [][Next]_vars
=============================================================================
