--------------------------- MODULE BashSupervisor ---------------------------
(***************************************************************************)
(* The supervisor of shell commands (src/internal/tools/bash_supervisor.go).*)
(* A command starts in the foreground of a tool call; one that takes too   *)
(* long is handed to the supervisor, and the model reads it (bash_wait) or *)
(* stops it (bash_kill) by its handle.  The supervisor's mutex is held for *)
(* one look at the table at a time, so a command can exit, be evicted or   *)
(* be killed between any two steps of a tool.                              *)
(*                                                                         *)
(* Both streams of a command are one here, counted in chunks: what was     *)
(* written, and up to where it was read.                                   *)
(***************************************************************************)
EXTENDS Integers, FiniteSets, FiniteSetsExt

CONSTANTS
    MaxProcs,  \* bound: commands, numbered in the order they start
    Tools,     \* the bash_wait and bash_kill calls that run at once
    Capacity,  \* maxBackgroundProcs
    MaxWrites  \* bound: chunks a command writes

ASSUME BashSupervisorAssumption ==
    /\ {MaxProcs, Capacity} \subseteq Nat \ {0}
    /\ MaxWrites \in Nat

VARIABLES
    proc,   \* a command's process group and its streams
    caller, \* the tool call that started it
    table,  \* BashSupervisor.procs
    reaper, \* the commands with a goroutine in reap
    doomed, \* the commands KillAll took and still has to kill
    swept,  \* KillAll was called
    tool    \* the bash_wait and bash_kill calls

vars == <<proc, caller, table, reaper, doomed, swept, tool>>

Procs == 1 .. MaxProcs
Idle == [at |-> "idle", of |-> 0]

Started == {p \in Procs : proc[p].state # "none"}
Running(p) == proc[p].state = "running"
Exited(p) == proc[p].state = "exited"

\* terminate: the signal and the cancellation; the exit comes later.
Terminated(p) == [proc EXCEPT ![p].killed = TRUE]

\* oldestLocked: the oldest that has exited, or else the oldest.
Oldest(handles) ==
    LET done == {p \in handles : Exited(p)} IN Min(IF done # {} THEN done ELSE handles)

-----------------------------------------------------------------------------
\* A command and the call that started it.

\* start: the process and the goroutine that waits for it.
Start(p) ==
    /\ ~swept
    /\ p = Cardinality(Started) + 1
    /\ proc' = [proc EXCEPT ![p].state = "running"]
    /\ caller' = [caller EXCEPT ![p].at = "watching"]
    /\ UNCHANGED <<table, reaper, doomed, swept, tool>>

Write(p) ==
    /\ Running(p) /\ proc[p].written < MaxWrites
    /\ proc' = [proc EXCEPT ![p].written = @ + 1]
    /\ UNCHANGED <<caller, table, reaper, doomed, swept, tool>>

\* Wait returns and done closes, by itself or after a kill.
Exit(p) ==
    /\ Running(p)
    /\ proc' = [proc EXCEPT ![p].state = "exited"]
    /\ UNCHANGED <<caller, table, reaper, doomed, swept, tool>>

\* finish: the call returns the whole output and the exit code.
Finish(p) ==
    /\ caller[p].at = "watching" /\ Exited(p)
    /\ caller' = [caller EXCEPT ![p].at = "ended"]
    /\ proc' = [proc EXCEPT ![p].cursor = proc[p].written, ![p].told = TRUE]
    /\ UNCHANGED <<table, reaper, doomed, swept, tool>>

\* The turn is canceled: the command is killed, and the call waits for its exit.
CancelTurn(p) ==
    /\ caller[p].at = "watching"
    /\ proc' = Terminated(p)
    /\ caller' = [caller EXCEPT ![p].at = "canceling"]
    /\ UNCHANGED <<table, reaper, doomed, swept, tool>>

ReturnCanceled(p) ==
    /\ caller[p].at = "canceling" /\ Exited(p)
    /\ caller' = [caller EXCEPT ![p].at = "ended"]
    /\ UNCHANGED <<proc, table, reaper, doomed, swept, tool>>

\* Slip: the evicted command is not killed.
BackgroundForgetting(p) ==
    /\ caller[p].at = "watching"
    /\ table' = {p} \union (IF Cardinality(table) >= Capacity
                            THEN table \ {Oldest(table)} ELSE table)
    /\ caller' = [caller EXCEPT ![p].at = "handing"]
    /\ reaper' = reaper \union {p}
    /\ UNCHANGED <<proc, doomed, swept, tool>>

\* Slip: nothing limits the life of a background command.
BackgroundForever(p) ==
    /\ caller[p].at = "watching"
    /\ LET victims == IF Cardinality(table) >= Capacity THEN {Oldest(table)} ELSE {} IN
       /\ table' = {p} \union (table \ victims)
       /\ caller' = [caller EXCEPT
             ![p].at = IF victims = {} THEN "handing" ELSE "evicting", ![p].victims = victims]
    /\ UNCHANGED <<proc, reaper, doomed, swept, tool>>

\* background, on the hard limit or a stall: register under the lock.  select may
\* prefer the timer to an exit that is there too.
Background(p) ==
    /\ caller[p].at = "watching"
    /\ LET victims == IF Cardinality(table) >= Capacity THEN {Oldest(table)} ELSE {} IN
       /\ table' = {p} \union (table \ victims)
       /\ caller' = [caller EXCEPT
             ![p].at = IF victims = {} THEN "handing" ELSE "evicting", ![p].victims = victims]
    /\ reaper' = reaper \union {p}
    /\ UNCHANGED <<proc, doomed, swept, tool>>

\* The deferred kill of register, outside the lock.
KillVictim(p) ==
    /\ caller[p].at = "evicting"
    /\ \E victim \in caller[p].victims : proc' = Terminated(victim)
    /\ caller' = [caller EXCEPT ![p].at = "handing", ![p].victims = {}]
    /\ UNCHANGED <<table, reaper, doomed, swept, tool>>

\* The rest of background: the output so far, the cursor behind it, and the handle.
HandOver(p) ==
    /\ caller[p].at = "handing"
    /\ proc' = [proc EXCEPT ![p].cursor = proc[p].written]
    /\ caller' = [caller EXCEPT ![p].at = "handed"]
    /\ UNCHANGED <<table, reaper, doomed, swept, tool>>

-----------------------------------------------------------------------------
\* reap.

ReapExit(p) ==
    /\ p \in reaper /\ Exited(p)
    /\ reaper' = reaper \ {p}
    /\ UNCHANGED <<proc, caller, table, doomed, swept, tool>>

ReapLifetime(p) ==
    /\ p \in reaper
    /\ proc' = Terminated(p)
    /\ reaper' = reaper \ {p}
    /\ UNCHANGED <<caller, table, doomed, swept, tool>>

-----------------------------------------------------------------------------
\* readOutput and killHandle, on a handle the model was given.

Goto(r, at) == tool' = [tool EXCEPT ![r].at = at]

Lookup(r, p, at) ==
    /\ tool[r] = Idle
    /\ caller[p].at = "handed" /\ p \in table
    /\ tool' = [tool EXCEPT ![r] = [at |-> at, of |-> p]]
    /\ UNCHANGED <<proc, caller, table, reaper, doomed, swept>>

\* lookup and awaitChange, which ends on output, on the exit or on its timer.
WaitHandle(r, p) == Lookup(r, p, "waiting")

KillHandle(r, p) == Lookup(r, p, "killing")

\* The streams are read and the cursors moved under curMu.
Take(r) ==
    /\ tool[r].at \in {"waiting", "dying"}
    /\ proc' = [proc EXCEPT ![tool[r].of].cursor = proc[tool[r].of].written]
    /\ Goto(r, IF tool[r].at = "waiting" THEN "judging" ELSE "closing")
    /\ UNCHANGED <<caller, table, reaper, doomed, swept>>

\* Only then readOutput asks whether the command runs, and forgets one that does not.
Judge(r) ==
    /\ tool[r].at = "judging"
    /\ tool' = [tool EXCEPT ![r] = Idle]
    /\ LET p == tool[r].of IN
       IF Running(p)
       THEN UNCHANGED <<proc, table>>
       ELSE /\ table' = table \ {p}
            /\ proc' = [proc EXCEPT ![p].told = TRUE, ![p].final = TRUE]
    /\ UNCHANGED <<caller, reaper, doomed, swept>>

\* killHandle: the signal, then a wait for the exit that WaitDelay limits.
StopHandle(r) ==
    /\ tool[r].at = "killing"
    /\ proc' = Terminated(tool[r].of)
    /\ Goto(r, "dying")
    /\ UNCHANGED <<caller, table, reaper, doomed, swept>>

CloseHandle(r) ==
    /\ tool[r].at = "closing"
    /\ tool' = [tool EXCEPT ![r] = Idle]
    /\ table' = table \ {tool[r].of}
    /\ proc' = [proc EXCEPT ![tool[r].of].told = TRUE]
    /\ UNCHANGED <<caller, reaper, doomed, swept>>

-----------------------------------------------------------------------------
\* KillAll, at the end of the session: the table under the lock, then the kills.

KillAll ==
    /\ ~swept
    /\ swept' = TRUE
    /\ doomed' = table
    /\ table' = {}
    /\ UNCHANGED <<proc, caller, reaper, tool>>

KillDoomed(p) ==
    /\ p \in doomed
    /\ doomed' = doomed \ {p}
    /\ proc' = Terminated(p)
    /\ UNCHANGED <<caller, table, reaper, swept, tool>>

-----------------------------------------------------------------------------
Init ==
    /\ proc = [p \in Procs |-> [state |-> "none", killed |-> FALSE, written |-> 0,
                                cursor |-> 0, told |-> FALSE, final |-> FALSE]]
    /\ caller = [p \in Procs |-> [at |-> "none", victims |-> {}]]
    /\ table = {}
    /\ reaper = {}
    /\ doomed = {}
    /\ swept = FALSE
    /\ tool = [r \in Tools |-> Idle]

CommandStep(p) ==
    \/ Start(p) \/ Write(p) \/ Exit(p)
    \/ Finish(p) \/ CancelTurn(p) \/ ReturnCanceled(p)
    \/ Background(p) \/ KillVictim(p) \/ HandOver(p)
    \/ ReapExit(p) \/ ReapLifetime(p)
    \/ KillDoomed(p)

ToolStep(r) ==
    \/ \E p \in Procs : WaitHandle(r, p) \/ KillHandle(r, p)
    \/ Take(r) \/ Judge(r) \/ StopHandle(r) \/ CloseHandle(r)

Next ==
    \/ \E p \in Procs : CommandStep(p)
    \/ \E r \in Tools : ToolStep(r)
    \/ KillAll

\* The timers fire and the goroutines run; a command need not exit by itself, but a
\* killed group does, WaitDelay after the signal at the latest.
Fairness ==
    \A p \in Procs :
        /\ WF_vars(ReapExit(p) \/ ReapLifetime(p))
        /\ WF_vars(KillVictim(p))
        /\ WF_vars(KillDoomed(p))
        /\ WF_vars(proc[p].killed /\ Exit(p))

Spec == Init /\ [][Next]_vars
FairSpec == Spec /\ Fairness

-----------------------------------------------------------------------------
\* Properties.

TypeOK ==
    /\ proc \in [Procs -> [state : {"none", "running", "exited"}, killed : BOOLEAN,
                           written : 0 .. MaxWrites, cursor : 0 .. MaxWrites,
                           told : BOOLEAN, final : BOOLEAN]]
    /\ caller \in [Procs -> [at : {"none", "watching", "canceling", "evicting",
                                   "handing", "handed", "ended"},
                             victims : SUBSET Procs]]
    /\ table \subseteq Procs /\ Cardinality(table) <= Capacity
    /\ reaper \subseteq Procs
    /\ doomed \subseteq Procs
    /\ swept \in BOOLEAN
    /\ tool \in [Tools -> [at : {"idle", "waiting", "judging", "killing", "dying", "closing"},
                           of : {0} \union Procs]]

InBackground(p) == caller[p].at \in {"evicting", "handing", "handed"}

\* Somebody has taken the command out of the table and is about to kill it.
Condemned(p) == p \in doomed \/ \E q \in Procs : p \in caller[q].victims

\* A background command always has an owner: until its exit was reported, its handle
\* finds it, or it was killed, or whoever took it out of the table is about to kill
\* it.  Evictions, final reads, kills and the end of the session never lose one.
\* (register, readOutput, killHandle, KillAll)
OwnedOrKilled ==
    \A p \in Procs :
        InBackground(p) /\ ~proc[p].told => p \in table \/ proc[p].killed \/ Condemned(p)

\* A command that left the foreground ends, also one that would run for ever and that
\* was handed over while KillAll ran.  (reap, terminate)
BackgroundEnds ==
    \A p \in Procs : InBackground(p) /\ Running(p) ~> Exited(p)

\* "a handle is good for exactly one final read" (bash_supervisor.go:585-587): the read
\* that reports the exit leaves no output behind.
FinalOutputDelivered ==
    \A p \in Procs : proc[p].final /\ ~proc[p].killed => proc[p].cursor = proc[p].written

=============================================================================
