---------------------------- MODULE Orchestrator ----------------------------
(***************************************************************************)
(* The subagent orchestrator (src/internal/subagent/orchestrator.go) with  *)
(* the concurrency pool (pool.go) and the part of a child process that it  *)
(* can see (spawner.go).  One element of Spawns is one call of Spawn: its  *)
(* caller, the goroutine that forwards its events, its child process and   *)
(* the pump that reads the child.  Each of these is a thread of its own,   *)
(* and so are the callers of Cancel and of Shutdown.                       *)
(*                                                                         *)
(* An agent identifier is unique (uniqueNano), so a spawn is its own key   *)
(* in the table of agents.                                                 *)
(***************************************************************************)
EXTENDS Integers, Sequences, FiniteSets

CONSTANTS
    Spawns,         \* the calls of Spawn
    WantsWorktree,  \* the spawns that resolveWorktreeUsage gives a worktree
    Quitters,       \* the spawns whose consumer returns on the first "error"
    PoolSize,       \* NewPool's maxConcurrent
    ProcCap,        \* capacity of Process.events (64 in the code)
    OutCap,         \* capacity of the forwarding channel (64 in the code)
    MaxCompleted,   \* maxCompletedAgents (50 in the code)
    MaxLines        \* bound: lines each child prints

ASSUME SpawnsAssumption ==
    /\ IsFiniteSet(Spawns)
    /\ WantsWorktree \subseteq Spawns
    /\ Quitters \subseteq Spawns

ASSUME CapsAssumption ==
    /\ PoolSize \in Nat \ {0}
    /\ ProcCap \in Nat \ {0}
    /\ OutCap \in Nat \ {0}
    /\ MaxCompleted \in Nat
    /\ MaxLines \in [Spawns -> Nat]

VARIABLES
    pc,         \* where the goroutines of a spawn stand
    sem,        \* tokens in the pool's channel
    child,      \* the child process and its pump
    ctxErr,     \* Err() of the context the child runs under
    idleFired,  \* the pump saw the inactivity timer fire
    procErr,    \* how the child ended: the error of cmd.Wait, then Process.err
    lines,      \* lines the child has printed
    procEv,     \* Process.events
    hand,       \* what the forwarding goroutine is about to send on
    out,        \* the forwarding channel
    reader,     \* the consumer of the forwarding channel
    told,       \* the status the consumer received as run_done
    agents,     \* the keys of Orchestrator.agents
    status,     \* agentState.Status
    finishedAt, \* agentState.FinishedAt, 0 while it is the zero time
    clock,      \* the time of the last FinishedAt
    closed,     \* Orchestrator.closed
    shut,       \* the call of Shutdown
    worktrees,  \* WorktreeManager.active
    wmClosed    \* WorktreeManager.closed

callVars  == <<pc, sem>>
childVars == <<child, idleFired, procErr, lines>>
chanVars  == <<procEv, hand, out>>
readVars  == <<reader, told>>
tableVars == <<agents, status, finishedAt, clock>>
shutVars  == <<closed, shut>>
treeVars  == <<worktrees, wmClosed>>
vars == <<callVars, childVars, ctxErr, chanVars, readVars, tableVars, shutVars, treeVars>>

-----------------------------------------------------------------------------
\* A line of the child becomes an event; only "error" events matter to a consumer.
EventKinds == {"text", "error"}
TerminalStatuses == {"completed", "failed", "canceled", "killed", "timeout"}
Statuses == {"unset", "running"} \cup TerminalStatuses
Nothing == "nothing"

\* The steps of Spawn, then of abandonSpawn, then of forwardAgentEvents.
SpawnSteps == {"idle", "waiting", "acquired", "prepared", "launched"}
AbandonSteps == {"abandoning", "releasing", "rejected"}
ForwardSteps == {"forwarding", "finished", "announced", "released", "closed"}

\* A spawn holds a token of the pool from Acquire to Release.
HoldingSteps ==
    {"acquired", "prepared", "launched", "abandoning", "releasing",
     "forwarding", "finished", "announced"}
Holders == {s \in Spawns : pc[s] \in HoldingSteps}

\* How a child ends: the error of Wait is none, an ExitError with a code or with a
\* signal, or another error.
ExitErrors == {"none", "code", "signal", "other"}

\* terminalStatus, and isKilledBySignal: every ExitError counts as a kill.
TerminalStatus(err) ==
    CASE err = "timeout"            -> "timeout"
      [] err \in {"code", "signal"} -> "killed"
      [] err = "other"              -> "failed"
      [] OTHER                      -> "completed"

\* childExitError: a limit that was hit outranks the exit status it caused.
ChildExitError(s) ==
    IF idleFired[s] \/ ctxErr[s] = "deadline" THEN "timeout" ELSE procErr[s]

\* Slip: the send has no default branch, and no room is made for it.
SendEventUnbounded(q, ev) == Append(q, ev)

\* sendEvent: a full channel drops the event.
SendEvent(q, ev) == IF Len(q) < ProcCap THEN Append(q, ev) ELSE q

\* A context keeps its first error.
ContextEnds(c, S, why) ==
    [s \in Spawns |-> IF s \in S /\ c[s] = "live" THEN why ELSE c[s]]

-----------------------------------------------------------------------------
Init ==
    /\ pc = [s \in Spawns |-> "idle"]
    /\ sem = 0
    /\ child = [s \in Spawns |-> "none"]
    /\ ctxErr = [s \in Spawns |-> "live"]
    /\ idleFired = [s \in Spawns |-> FALSE]
    /\ procErr = [s \in Spawns |-> "none"]
    /\ lines = [s \in Spawns |-> 0]
    /\ procEv = [s \in Spawns |-> <<>>]
    /\ hand = [s \in Spawns |-> Nothing]
    /\ out = [s \in Spawns |-> <<>>]
    /\ reader = [s \in Spawns |-> "reading"]
    /\ told = [s \in Spawns |-> Nothing]
    /\ agents = {}
    /\ status = [s \in Spawns |-> "unset"]
    /\ finishedAt = [s \in Spawns |-> 0]
    /\ clock = 0
    /\ closed = FALSE
    /\ shut = "up"
    /\ worktrees = {}
    /\ wmClosed = FALSE

-----------------------------------------------------------------------------
(***************************************************************************)
(* Spawn.                                                                  *)
(***************************************************************************)
Goto(s, from, to) == pc[s] = from /\ pc' = [pc EXCEPT ![s] = to]

NothingButCall == UNCHANGED <<childVars, ctxErr, chanVars, readVars, tableVars, shutVars, treeVars>>

\* The orchestrator is open and the agent's role resolves.
SpawnEnter(s) ==
    /\ ~closed
    /\ Goto(s, "idle", "waiting")
    /\ UNCHANGED sem /\ NothingButCall

\* It is shut down, or the agent or its role is not known.
SpawnRefused(s) ==
    /\ Goto(s, "idle", "rejected")
    /\ UNCHANGED sem /\ NothingButCall

\* Slip: one agent more than the pool's size gets in.
AcquireOneTooMany(s) ==
    /\ sem <= PoolSize
    /\ sem' = sem + 1
    /\ Goto(s, "waiting", "acquired")
    /\ NothingButCall

\* Pool.Acquire: the send on the channel went through.
Acquire(s) ==
    /\ sem < PoolSize
    /\ sem' = sem + 1
    /\ Goto(s, "waiting", "acquired")
    /\ NothingButCall

\* Pool.Acquire: the caller's context ended first.
AcquireCanceled(s) ==
    /\ ctxErr[s] # "live"
    /\ Goto(s, "waiting", "rejected")
    /\ UNCHANGED sem /\ NothingButCall

\* Slip: CreateAt does not look at closed.
PrepareWorkDirUnguarded(s) ==
    /\ Goto(s, "acquired", "prepared")
    /\ worktrees' = IF s \in WantsWorktree THEN worktrees \cup {s} ELSE worktrees
    /\ UNCHANGED <<sem, childVars, ctxErr, chanVars, readVars, tableVars, shutVars, wmClosed>>

\* resolveWorkDir: WorktreeManager.CreateAt refuses once it is closed.
PrepareWorkDir(s) ==
    /\ Goto(s, "acquired", "prepared")
    /\ IF s \in WantsWorktree
       THEN ~wmClosed /\ worktrees' = worktrees \cup {s}
       ELSE UNCHANGED worktrees
    /\ UNCHANGED <<sem, childVars, ctxErr, chanVars, readVars, tableVars, shutVars, wmClosed>>

\* Slip: the error of CreateAt is returned without Release.
PrepareFailsLeaking(s) ==
    /\ s \in WantsWorktree
    /\ Goto(s, "acquired", "rejected")
    /\ UNCHANGED sem /\ NothingButCall

PrepareFails(s) ==
    /\ s \in WantsWorktree
    /\ Goto(s, "acquired", "releasing")
    /\ UNCHANGED sem /\ NothingButCall

\* dispatchSpawn: exec refuses to start a command whose context has ended.
Dispatch(s) ==
    /\ ctxErr[s] = "live"
    /\ Goto(s, "prepared", "launched")
    /\ child' = [child EXCEPT ![s] = "running"]
    /\ UNCHANGED <<sem, ctxErr, idleFired, procErr, lines, chanVars, readVars, tableVars,
                   shutVars, treeVars>>

\* Slip: the error of dispatchSpawn releases the slot and forgets the worktree.
DispatchFailsForgetful(s) ==
    /\ Goto(s, "prepared", "releasing")
    /\ UNCHANGED sem /\ NothingButCall

DispatchFails(s) ==
    /\ Goto(s, "prepared", "abandoning")
    /\ UNCHANGED sem /\ NothingButCall

\* Slip: trackAgent trusts the check of closed at the top of Spawn.
TrackUnchecked(s) ==
    /\ Goto(s, "launched", "forwarding")
    /\ agents' = agents \cup {s}
    /\ status' = [status EXCEPT ![s] = "running"]
    /\ UNCHANGED <<sem, childVars, ctxErr, chanVars, readVars, finishedAt, clock, shutVars, treeVars>>

\* trackAgent, and the start of the forwarding goroutine.
Track(s) ==
    /\ ~closed
    /\ Goto(s, "launched", "forwarding")
    /\ agents' = agents \cup {s}
    /\ status' = [status EXCEPT ![s] = "running"]
    /\ UNCHANGED <<sem, childVars, ctxErr, chanVars, readVars, finishedAt, clock, shutVars, treeVars>>

\* trackAgent finds the orchestrator shut down: cancel the child and back out.
TrackRefused(s) ==
    /\ closed
    /\ Goto(s, "launched", "abandoning")
    /\ ctxErr' = ContextEnds(ctxErr, {s}, "canceled")
    /\ UNCHANGED <<sem, childVars, chanVars, readVars, tableVars, shutVars, treeVars>>

\* abandonSpawn: WorktreeManager.Cleanup does nothing once the manager is closed.
AbandonCleanup(s) ==
    /\ Goto(s, "abandoning", "releasing")
    /\ worktrees' = IF wmClosed THEN worktrees ELSE worktrees \ {s}
    /\ UNCHANGED <<sem, childVars, ctxErr, chanVars, readVars, tableVars, shutVars, wmClosed>>

\* Pool.Release is a receive: on an empty channel it would block for ever.
AbandonRelease(s) ==
    /\ sem > 0
    /\ sem' = sem - 1
    /\ Goto(s, "releasing", "rejected")
    /\ NothingButCall

-----------------------------------------------------------------------------
(***************************************************************************)
(* The child process and its pump.                                         *)
(***************************************************************************)
Emit(s, ev) ==
    /\ child[s] = "running"
    /\ lines[s] < MaxLines[s]
    /\ lines' = [lines EXCEPT ![s] = @ + 1]
    /\ procEv' = [procEv EXCEPT ![s] = SendEvent(@, ev)]
    /\ UNCHANGED <<callVars, child, idleFired, procErr, ctxErr, hand, out, readVars,
                   tableVars, shutVars, treeVars>>

\* The child ends by itself with an exit code, or the kernel kills it (OOM).
ChildExits(s, how) ==
    /\ child[s] = "running"
    /\ how \in {"none", "code", "signal"}
    /\ child' = [child EXCEPT ![s] = "exited"]
    /\ procErr' = [procErr EXCEPT ![s] = how]
    /\ UNCHANGED <<callVars, idleFired, lines, ctxErr, chanVars, readVars, tableVars,
                   shutVars, treeVars>>

\* Slip: only a canceled context kills, the absolute limit does not.
ChildKilledOnCancel(s, how) ==
    /\ child[s] = "running"
    /\ ctxErr[s] = "canceled"
    /\ how \in {"signal", "other"}
    /\ child' = [child EXCEPT ![s] = "exited"]
    /\ procErr' = [procErr EXCEPT ![s] = how]
    /\ UNCHANGED <<callVars, idleFired, lines, ctxErr, chanVars, readVars, tableVars,
                   shutVars, treeVars>>

\* The kill that an ended context sends: Wait reports an ExitError, or, when the
\* child would have succeeded or kept its pipes open, an error of another type.
ChildKilled(s, how) ==
    /\ child[s] = "running"
    /\ ctxErr[s] # "live"
    /\ how \in {"signal", "other"}
    /\ child' = [child EXCEPT ![s] = "exited"]
    /\ procErr' = [procErr EXCEPT ![s] = how]
    /\ UNCHANGED <<callVars, idleFired, lines, ctxErr, chanVars, readVars, tableVars,
                   shutVars, treeVars>>

\* The absolute limit passes, or a deadline of the caller's context.
DeadlinePasses(s) ==
    /\ child[s] = "running"
    /\ ctxErr[s] = "live"
    /\ ctxErr' = [ctxErr EXCEPT ![s] = "deadline"]
    /\ UNCHANGED <<callVars, childVars, chanVars, readVars, tableVars, shutVars, treeVars>>

\* readChildLines sees the inactivity timer and cancels the child.
IdleFires(s) ==
    /\ child[s] = "running"
    /\ ~idleFired[s]
    /\ idleFired' = [idleFired EXCEPT ![s] = TRUE]
    /\ ctxErr' = ContextEnds(ctxErr, {s}, "canceled")
    /\ UNCHANGED <<callVars, child, procErr, lines, chanVars, readVars, tableVars, shutVars,
                   treeVars>>

\* The end of pumpChildOutput: classify, report, close events and done.  What only
\* the pump knew (idleFired, lines) goes with it.
PumpFinishes(s) ==
    LET err == ChildExitError(s)
    IN  /\ child[s] = "exited"
        /\ child' = [child EXCEPT ![s] = "reaped"]
        /\ procErr' = [procErr EXCEPT ![s] = err]
        /\ procEv' = [procEv EXCEPT ![s] = IF err = "none" THEN @ ELSE SendEvent(@, "error")]
        /\ idleFired' = [idleFired EXCEPT ![s] = FALSE]
        /\ lines' = [lines EXCEPT ![s] = 0]
        /\ UNCHANGED <<callVars, ctxErr, hand, out, readVars, tableVars, shutVars, treeVars>>

\* The caller's context is canceled, while somebody still looks at it.
CallerGivesUp(s) ==
    /\ pc[s] \in {"waiting", "acquired", "prepared"} \/ child[s] = "running"
    /\ ctxErr[s] = "live"
    /\ ctxErr' = [ctxErr EXCEPT ![s] = "canceled"]
    /\ UNCHANGED <<callVars, childVars, chanVars, readVars, tableVars, shutVars, treeVars>>

-----------------------------------------------------------------------------
(***************************************************************************)
(* forwardAgentEvents.                                                     *)
(***************************************************************************)
ForwardTake(s) ==
    /\ pc[s] = "forwarding"
    /\ hand[s] = Nothing
    /\ procEv[s] # <<>>
    /\ hand' = [hand EXCEPT ![s] = Head(procEv[s])]
    /\ procEv' = [procEv EXCEPT ![s] = Tail(@)]
    /\ UNCHANGED <<callVars, childVars, ctxErr, out, readVars, tableVars, shutVars, treeVars>>

\* Slip: run_done is sent like any event of the pump, and dropped when there is no room.
ForwardPutDropping(s) ==
    /\ pc[s] \in {"forwarding", "finished"}
    /\ hand[s] # Nothing
    /\ out' = IF Len(out[s]) < OutCap THEN [out EXCEPT ![s] = Append(@, hand[s])] ELSE out
    /\ hand' = [hand EXCEPT ![s] = Nothing]
    /\ pc' = IF pc[s] = "finished" THEN [pc EXCEPT ![s] = "announced"] ELSE pc
    /\ UNCHANGED <<sem, childVars, ctxErr, procEv, readVars, tableVars, shutVars, treeVars>>

\* The blocking send on the forwarding channel, of an event or of run_done.
ForwardPut(s) ==
    /\ pc[s] \in {"forwarding", "finished"}
    /\ hand[s] # Nothing
    /\ Len(out[s]) < OutCap
    /\ out' = [out EXCEPT ![s] = Append(@, hand[s])]
    /\ hand' = [hand EXCEPT ![s] = Nothing]
    /\ pc' = IF pc[s] = "finished" THEN [pc EXCEPT ![s] = "announced"] ELSE pc
    /\ UNCHANGED <<sem, childVars, ctxErr, procEv, readVars, tableVars, shutVars, treeVars>>

\* Slip: the oldest entries go, running or not.
EvictionsOfAny(st, fin) ==
    LET excess == Cardinality(agents) - MaxCompleted
    IN  {gone \in SUBSET agents :
            /\ Cardinality(gone) = IF excess > 0 THEN excess ELSE 0
            /\ \A a \in gone, b \in agents \ gone : fin[a] <= fin[b]}

\* evictCompletedAgentsLocked keeps the MaxCompleted agents that ended last.
Evictions(st, fin) ==
    LET ended == {a \in agents : st[a] # "running"}
        excess == Cardinality(ended) - MaxCompleted
    IN  {gone \in SUBSET ended :
            /\ Cardinality(gone) = IF excess > 0 THEN excess ELSE 0
            /\ \A a \in gone, b \in ended \ gone : fin[a] <= fin[b]}

\* The events are drained and the process is done: record how it ended, once.
\* Nobody reads procErr again, so it is cleared.
Finish(s) ==
    LET st == IF status[s] = "running"
              THEN [status EXCEPT ![s] = TerminalStatus(procErr[s])] ELSE status
        fin == IF status[s] = "running"
               THEN [finishedAt EXCEPT ![s] = clock + 1] ELSE finishedAt
    IN  /\ Goto(s, "forwarding", "finished")
        /\ child[s] = "reaped"
        /\ hand[s] = Nothing
        /\ procEv[s] = <<>>
        /\ status' = st
        /\ finishedAt' = fin
        /\ clock' = IF status[s] = "running" THEN clock + 1 ELSE clock
        /\ \E gone \in Evictions(st, fin) : agents' = agents \ gone
        /\ hand' = [hand EXCEPT ![s] = st[s]]
        /\ procErr' = [procErr EXCEPT ![s] = "none"]
        /\ UNCHANGED <<sem, child, idleFired, lines, ctxErr, procEv, out, readVars, shutVars,
                       treeVars>>

\* The deferred Pool.Release runs before the deferred close(out).
ForwardRelease(s) ==
    /\ sem > 0
    /\ sem' = sem - 1
    /\ Goto(s, "announced", "released")
    /\ NothingButCall

CloseOut(s) ==
    /\ Goto(s, "released", "closed")
    /\ UNCHANGED sem /\ NothingButCall

-----------------------------------------------------------------------------
(***************************************************************************)
(* The consumer of the stream (tools/subagent.go, memory/compress.go).     *)
(***************************************************************************)
Receive(s) ==
    LET ev == Head(out[s])
    IN  /\ reader[s] = "reading"
        /\ out[s] # <<>>
        /\ out' = [out EXCEPT ![s] = Tail(@)]
        /\ told' = IF ev \in EventKinds THEN told ELSE [told EXCEPT ![s] = ev]
        /\ reader' = IF s \in Quitters /\ ev = "error"
                     THEN [reader EXCEPT ![s] = "gone"] ELSE reader
        /\ UNCHANGED <<callVars, childVars, ctxErr, procEv, hand, tableVars, shutVars, treeVars>>

(***************************************************************************)
(* Cancel and ShutdownWithTimeout.                                         *)
(***************************************************************************)
Running == {a \in agents : status[a] = "running"}

\* What both do, under the lock, to every running agent of S.
CancelAll(S) ==
    /\ ctxErr' = ContextEnds(ctxErr, S, "canceled")
    /\ status' = [a \in Spawns |-> IF a \in S THEN "canceled" ELSE status[a]]
    /\ finishedAt' = [a \in Spawns |-> IF a \in S THEN clock + 1 ELSE finishedAt[a]]
    /\ clock' = IF S = {} THEN clock ELSE clock + 1

Cancel(s) ==
    /\ s \in Running
    /\ CancelAll({s})
    /\ UNCHANGED <<callVars, childVars, chanVars, readVars, agents, shutVars, treeVars>>

\* Close, cancel what runs; the wait for the grace period only if something did.
ShutdownBegin ==
    /\ shut = "up"
    /\ closed' = TRUE
    /\ shut' = IF Running = {} THEN "cleaning" ELSE "grace"
    /\ CancelAll(Running)
    /\ UNCHANGED <<callVars, childVars, chanVars, readVars, agents, treeVars>>

ShutdownGraceOver ==
    /\ shut = "grace"
    /\ shut' = "cleaning"
    /\ UNCHANGED <<callVars, childVars, ctxErr, chanVars, readVars, tableVars, closed, treeVars>>

\* WorktreeManager.CleanupAll: close, then remove what is active.
ShutdownCleanup ==
    /\ shut = "cleaning"
    /\ shut' = "down"
    /\ wmClosed' = TRUE
    /\ worktrees' = {}
    /\ UNCHANGED <<callVars, childVars, ctxErr, chanVars, readVars, tableVars, closed>>

-----------------------------------------------------------------------------
CallStep(s) ==
    \/ SpawnEnter(s) \/ SpawnRefused(s) \/ Acquire(s) \/ AcquireCanceled(s)
    \/ PrepareWorkDir(s) \/ PrepareFails(s) \/ Dispatch(s) \/ DispatchFails(s)
    \/ Track(s) \/ TrackRefused(s) \/ AbandonCleanup(s) \/ AbandonRelease(s)

ChildStep(s) ==
    \/ \E ev \in EventKinds : Emit(s, ev)
    \/ \E how \in ExitErrors : ChildExits(s, how) \/ ChildKilled(s, how)
    \/ DeadlinePasses(s) \/ IdleFires(s) \/ PumpFinishes(s)

ForwardStep(s) ==
    ForwardTake(s) \/ ForwardPut(s) \/ Finish(s) \/ ForwardRelease(s) \/ CloseOut(s)

CallerStep(s) ==
    Receive(s) \/ Cancel(s) \/ CallerGivesUp(s)

ShutdownStep == ShutdownBegin \/ ShutdownGraceOver \/ ShutdownCleanup

\* A stream its consumer left may stay blocked for ever; nothing else may.
Stuck(s) == reader[s] = "gone" /\ Len(out[s]) = OutCap /\ hand[s] # Nothing

Quiescent ==
    /\ shut = "down"
    /\ \A s \in Spawns : pc[s] \in {"rejected", "closed"} \/ Stuck(s)
    /\ UNCHANGED vars

Next ==
    \/ \E s \in Spawns : CallStep(s) \/ ChildStep(s) \/ ForwardStep(s) \/ CallerStep(s)
    \/ ShutdownStep
    \/ Quiescent

Spec == Init /\ [][Next]_vars

(***************************************************************************)
(* Fairness.  Goroutines that are not blocked run, so every step of Spawn, *)
(* of the forwarder and of the pump that is enabled for good is taken; the *)
(* runtime queues the senders of a channel, so Acquire is not passed over  *)
(* for ever.  The absolute limit passes and the kill it sends lands: both  *)
(* are the kernel's.  A consumer that has not left goes on receiving.      *)
(* Nothing is assumed of what the child prints, of whether it ends by      *)
(* itself, of the inactivity timer, nor of the callers of Cancel and       *)
(* Shutdown.                                                               *)
(***************************************************************************)
Fairness ==
    /\ \A s \in Spawns :
        /\ WF_vars(SpawnEnter(s) \/ SpawnRefused(s))
        /\ SF_vars(Acquire(s))
        /\ WF_vars(AcquireCanceled(s))
        /\ WF_vars(PrepareWorkDir(s) \/ PrepareFails(s))
        /\ WF_vars(Dispatch(s) \/ DispatchFails(s))
        /\ WF_vars(Track(s) \/ TrackRefused(s))
        /\ WF_vars(AbandonCleanup(s) \/ AbandonRelease(s))
        /\ WF_vars(ForwardStep(s))
        /\ WF_vars(DeadlinePasses(s))
        /\ WF_vars(\E how \in {"signal", "other"} : ChildKilled(s, how))
        /\ WF_vars(PumpFinishes(s))
        /\ WF_vars(Receive(s))
    /\ WF_vars(ShutdownGraceOver \/ ShutdownCleanup)

FairSpec == Spec /\ Fairness

-----------------------------------------------------------------------------
\* The variables hold values of their types, and no channel exceeds its capacity.
TypeOK ==
    /\ pc \in [Spawns -> SpawnSteps \cup AbandonSteps \cup ForwardSteps]
    /\ sem \in 0..PoolSize
    /\ child \in [Spawns -> {"none", "running", "exited", "reaped"}]
    /\ ctxErr \in [Spawns -> {"live", "canceled", "deadline"}]
    /\ idleFired \in [Spawns -> BOOLEAN]
    /\ procErr \in [Spawns -> ExitErrors \cup {"timeout"}]
    /\ lines \in [Spawns -> Nat]
    /\ procEv \in [Spawns -> Seq(EventKinds)]
    /\ hand \in [Spawns -> EventKinds \cup Statuses \cup {Nothing}]
    /\ out \in [Spawns -> Seq(EventKinds \cup Statuses)]
    /\ reader \in [Spawns -> {"reading", "gone"}]
    /\ told \in [Spawns -> Statuses \cup {Nothing}]
    /\ agents \subseteq Spawns
    /\ status \in [Spawns -> Statuses]
    /\ finishedAt \in [Spawns -> Nat]
    /\ clock \in Nat
    /\ closed \in BOOLEAN
    /\ shut \in {"up", "grace", "cleaning", "down"}
    /\ worktrees \subseteq WantsWorktree
    /\ wmClosed \in BOOLEAN
    /\ \A s \in Spawns : Len(procEv[s]) <= ProcCap /\ Len(out[s]) <= OutCap

\* Every path out of Spawn and of the forwarder gives back the token it took, once:
\* a second Release would block for ever, a missing one shrinks the pool for good
\* (orchestrator.go:454, 590, 613).
SlotAccounting == sem = Cardinality(Holders)

\* A child that runs under a live context and has a stream is in the table as
\* running, so Cancel and Shutdown can reach it: eviction never drops it.
RunningIsReachable ==
    \A s \in Spawns :
        pc[s] = "forwarding" /\ child[s] = "running" /\ ctxErr[s] = "live" => s \in Running

\* Once Shutdown has closed the orchestrator, a child that still runs has had its
\* context ended, or its spawn is about to see the flag in trackAgent: a spawn that
\* was past the first check of closed does not slip through.
ShutdownReachesAll ==
    closed => \A s \in Spawns :
                child[s] = "running" => ctxErr[s] # "live" \/ pc[s] = "launched"

\* A spawn that reported an error left nothing behind: no worktree, no entry in the
\* table, no child under a live context.
RejectedLeavesNothing ==
    \A s \in Spawns :
        pc[s] = "rejected" =>
            /\ s \notin worktrees
            /\ s \notin agents
            /\ child[s] = "running" => ctxErr[s] # "live"

\* After Shutdown no worktree is active, whatever the spawns in flight were doing.
NoWorktreeAfterShutdown == shut = "down" => worktrees = {}

\* A terminal status is never replaced: the exit of a canceled child does not turn
\* it into "killed", and Cancel does not touch an agent that ended.
StatusIsFinal ==
    [][\A s \in Spawns : status[s] \in TerminalStatuses => status'[s] = status[s]]_vars

\* The comments of terminalStatus and isKilledBySignal: "killed" is for a child that a
\* signal ended, an exit-code failure is told apart from it (orchestrator.go:645-648, 663-664).
KilledMeansSignal ==
    [][\A s \in Spawns : status'[s] = "killed" /\ status[s] # "killed" => procErr[s] = "signal"]_vars

\* A spawn whose consumer goes on receiving gives its slot back, even when the child
\* hangs and nobody cancels it.
SlotReturns ==
    \A s \in Spawns \ Quitters : pc[s] \in HoldingSteps ~> pc[s] \notin HoldingSteps

\* A started agent's consumer is told how it ended.
ConsumerIsTold ==
    \A s \in Spawns \ Quitters : pc[s] = "forwarding" ~> told[s] # Nothing

\* What the orchestrator promises of its agents (AgentRuns).
AgentRunsMap ==
    INSTANCE AgentRuns
    WITH Agents <- Spawns, Slots <- PoolSize, Results <- TerminalStatuses, None <- Nothing,
         holding <- Holders,
         outcome <- [s \in Spawns |->
                        IF status[s] \in TerminalStatuses THEN status[s] ELSE Nothing]
ImplementsAgentRuns == AgentRunsMap!Spec
=============================================================================
