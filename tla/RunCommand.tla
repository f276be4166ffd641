----------------------------- MODULE RunCommand -----------------------------
(***************************************************************************)
(* The /run pipeline of the terminal UI (src/internal/tui/run.go): agents  *)
(* work in worktrees until they exit, the gates run, the checklist and the *)
(* review decide, and the worktrees are merged or the next cycle starts.   *)
(*                                                                         *)
(* Each step of Update is an action that computes the next m.run and what  *)
(* it asks for: an agent, a command that waits for events, a job.  A       *)
(* command is a set of channels with one reader each; the message that is  *)
(* first wins, and the other readers stay parked as orphans.               *)
(***************************************************************************)
EXTENDS Integers, Sequences, FiniteSets, Functions, SequencesExt

CONSTANTS
    Slices,     \* the steps of the plan
    MaxRetries, \* runState.maxRetries
    MaxRuns,    \* bound: /run commands
    MaxSays     \* bound: events of the agents before their exits

ASSUME RunCommandAssumption ==
    /\ IsFiniteSet(Slices)
    /\ {MaxRetries, MaxSays} \subseteq Nat
    /\ MaxRuns \in Nat \ {0}

VARIABLES
    run,     \* m.run
    running, \* m.running
    agent,   \* the subagents, by the order they were spawned in
    tree,    \* the worktree an agent was given
    chan,    \* the events of an agent that nobody has read
    cmds,    \* the commands that wait for events, as sets of agents
    orphans, \* readers an earlier command left parked on an agent's channel
    jobs,    \* the gates and merges that run in the background
    runs,    \* the /run commands so far
    says,    \* the agents' events so far
    alone    \* history: no /run or /clear came while an earlier run was at work, and
             \* no /run left agents behind that nobody reads

agentVars == <<agent, tree, chan>>
vars == <<run, running, agentVars, cmds, orphans, jobs, runs, says, alone>>

Agents == 1 .. MaxRuns * (2 + MaxRetries)
Verdicts == {"pass", "fail"}

NoRun == [live |-> FALSE, phase |-> "none", gates |-> FALSE, agent |-> 0, owner |-> 0,
          parallel |-> <<>>, carried |-> <<>>, retries |-> 0, status |-> "",
          transcript |-> "none", ticked |-> {}]

\* The agents that were spawned, and the next one.
Spawned == {a \in Agents : agent[a].state # "none"}
NextAgent == Cardinality(Spawned) + 1

Live(a) == agent[a].state = "live"

-----------------------------------------------------------------------------
\* runState.

IsParallel(r) == r.parallel # <<>>
ParallelAgents(r) == {p.agent : p \in ToSet(r.parallel)}
ActiveAgents(r) == {p.agent : p \in {q \in ToSet(r.parallel) : ~q.done}}

\* Slip: the run goes on with its owner, and the other worktrees are forgotten.
CollapseToOwner(r) == [r EXCEPT !.parallel = <<>>]

\* collapseParallel: the agents that are not the owner are carried.
CollapseParallel(r) ==
    [r EXCEPT !.parallel = <<>>,
              !.carried = @ \o SetToSeq(ParallelAgents(r) \ {r.owner})]

\* mergeTargets.
MergeTargets(r) ==
    (IF IsParallel(r)
     THEN [i \in DOMAIN r.parallel |-> r.parallel[i].agent]
     ELSE <<r.owner>>) \o r.carried

\* refreshRunChecklist: what the owner's tree and those of the parallel agents
\* record, unless none of them can be read.
RefreshChecklist(r) ==
    LET views == {t \in {r.owner} \union ParallelAgents(r) : tree[t].state = "held"}
    IN IF views = {} THEN r ELSE [r EXCEPT !.ticked = UNION {tree[t].ticked : t \in views}]

\* waitForRunEvents: the channels the next command waits on.
WaitForRunEvents(r) ==
    CASE ~r.live -> {}
      [] r.live /\ IsParallel(r) -> ActiveAgents(r)
      [] OTHER -> {r.agent} \ {0}

-----------------------------------------------------------------------------
\* What a step of Update leads to: the run, m.running, the worktrees of the
\* agents it spawns, the channels its command waits on and the job it starts.

Effect(r, busy) == [run |-> r, running |-> busy, spawn |-> <<>>, wait |-> {}, job |-> <<>>]

GateJob(r) == [kind |-> "gates", targets |-> <<r.owner>>, failed |-> FALSE]
MergeJob(r) == [kind |-> "merge", targets |-> MergeTargets(r), failed |-> FALSE]

\* Slip: the transcript goes on over the cycles.
RestartKeeping(r, tries) ==
    [CollapseParallel(r) EXCEPT
        !.agent = NextAgent, !.status = "", !.phase = "running", !.retries = @ + tries]

\* What retryRun leaves when its spawn succeeds at the given attempt.
Restart(r, tries) ==
    [CollapseParallel(r) EXCEPT
        !.agent = NextAgent, !.status = "", !.phase = "running", !.retries = @ + tries,
        !.transcript = "none"]

\* Slip: one attempt, and a run whose spawn failed is left to itself.
RetryOnce(r) ==
    LET stuck == Effect([r EXCEPT !.phase = "retrying"], running)
    IN IF r.retries = MaxRetries
       THEN {Effect([r EXCEPT !.phase = "failed"], running)}
       ELSE {stuck, [Effect(Restart(r, 1), TRUE) EXCEPT !.spawn = <<r.owner>>,
                                                        !.wait = {NextAgent}]}

\* retryRun: each spawn it attempts spends one of the retries; a run whose
\* budget is spent is failed, by it or by its callers.
RetryRun(r) ==
    LET left == MaxRetries - r.retries
        spent == Effect([r EXCEPT !.retries = MaxRetries, !.phase = "failed"], running)
    IN {spent} \union
       {[Effect(Restart(r, tries), TRUE) EXCEPT !.spawn = <<r.owner>>, !.wait = {NextAgent}]
           : tries \in 1 .. left}

\* What must agree before a merge.
Verified(r) == r.ticked = Slices /\ r.transcript = "pass"

\* verifyRunComplete.
VerifyRunComplete(r) ==
    LET checked == RefreshChecklist([r EXCEPT !.phase = "verifying"])
    IN IF Verified(checked)
       THEN {[Effect([checked EXCEPT !.phase = "merging"], running) EXCEPT
                !.job = <<MergeJob(checked)>>]}
       ELSE RetryRun(checked)

\* handleRunAgentDone once every agent is done; last is the one reported last.
AgentsDone(r, last) ==
    LET told == [r EXCEPT !.status = agent[last].status]
        statuses == IF IsParallel(r)
                    THEN {p.status : p \in ToSet(r.parallel)}
                    ELSE {told.status}
        effects == CASE statuses # {"completed"} -> RetryRun(RefreshChecklist(told))
                     [] statuses = {"completed"} /\ r.gates ->
                           {[Effect([told EXCEPT !.phase = "gating"], FALSE) EXCEPT
                               !.job = <<GateJob(told)>>]}
                     [] OTHER -> VerifyRunComplete(told)
    IN {[e EXCEPT !.running = e.spawn # <<>>] : e \in effects}

\* The parallel agents with a marked done.
Marked(r, a) ==
    [r EXCEPT !.parallel = [i \in DOMAIN @ |->
        IF @[i].agent = a
        THEN [@[i] EXCEPT !.done = TRUE, !.status = agent[a].status]
        ELSE @[i]]]

\* Slip: the first parallel agent that is done ends the cycle.
FirstDoneEnds(r, a) ==
    IF r.live THEN AgentsDone(Marked(r, a), a) ELSE {Effect(r, FALSE)}

\* handleRunAgentDone.
AgentDone(r, a) ==
    IF ~r.live
    THEN {Effect(r, FALSE)}
    ELSE LET marked == Marked(r, a) IN
         IF ActiveAgents(marked) # {}
         THEN {[Effect(marked, running) EXCEPT !.wait = WaitForRunEvents(marked)]}
         ELSE AgentsDone(marked, a)

\* handleRunAgentEvent: an edit re-reads the checklist, text joins the transcript.
AgentEvent(r, event) ==
    LET seen == CASE ~r.live -> r
                  [] r.live /\ event = "edit" -> RefreshChecklist(r)
                  [] OTHER -> [r EXCEPT !.transcript = event]
    IN {[Effect(seen, running) EXCEPT !.wait = WaitForRunEvents(seen)]}

\* handleRunGateResult.
GateResult(r, outcome) ==
    CASE ~r.live -> {Effect(r, running)}
      [] r.live /\ outcome = "pass" -> VerifyRunComplete(r)
      [] r.live /\ outcome = "hang" -> {Effect([r EXCEPT !.phase = "failed"], running)}
      [] OTHER -> RetryRun(r)

\* handleRunMergeResult.
MergeResult(r, failed) ==
    CASE ~r.live -> Effect(r, running)
      [] r.live /\ failed -> Effect([r EXCEPT !.phase = "failed"], running)
      [] OTHER -> Effect([r EXCEPT !.phase = "done", !.ticked = Slices], running)

-----------------------------------------------------------------------------
\* One step of Update with effect e: waiting and working are the commands and the
\* jobs it leaves, and the agents it spawns start in the worktrees of e.spawn, in
\* one of their own where that names the agent itself.
Update(e, waiting, working) ==
    LET new == [a \in Agents |-> a - NextAgent + 1]
        isNew(a) == new[a] \in DOMAIN e.spawn
    IN /\ run' = e.run
       /\ running' = e.running
       /\ cmds' = IF e.wait = {} THEN waiting ELSE Append(waiting, e.wait)
       /\ jobs' = working \o e.job
       /\ agent' = [a \in Agents |->
             IF isNew(a)
             THEN [agent[a] EXCEPT !.state = "live", !.status = "running",
                                   !.tree = e.spawn[new[a]]]
             ELSE agent[a]]
       /\ tree' = [a \in Agents |->
             IF isNew(a) /\ e.spawn[new[a]] = a
             THEN [tree[a] EXCEPT !.state = "held"]
             ELSE tree[a]]

\* A run is at work while an agent, a message of one on its way, or a job of its own is.
AtWork == jobs # <<>> \/ cmds # <<>> \/ \E a \in Agents : Live(a)

-----------------------------------------------------------------------------
\* The user.

\* What /run installs: startRunAgent with one agent, handleRunParallel with two.
FreshRun(count, gates) ==
    [NoRun EXCEPT !.live = TRUE, !.phase = "running", !.gates = gates,
                  !.agent = NextAgent, !.owner = NextAgent,
                  !.parallel = IF count = 1 THEN <<>>
                               ELSE [i \in 1 .. count |->
                                       [agent |-> NextAgent + i - 1, done |-> FALSE,
                                        status |-> ""]]]

\* handleRunCommand, when the spawns and the backup branches succeed.
StartRun(count, gates) ==
    /\ ~running
    /\ runs < MaxRuns
    /\ runs' = runs + 1
    /\ alone' = (alone /\ ~AtWork)
    /\ Update([Effect(FreshRun(count, gates), TRUE) EXCEPT
                  !.spawn = [i \in 1 .. count |-> NextAgent + i - 1],
                  !.wait = NextAgent .. NextAgent + count - 1],
              cmds, jobs)
    /\ UNCHANGED <<chan, orphans, says>>

\* handleRunCommand, when the second spawn or a backup branch fails: the agents
\* that were spawned work on, and nobody reads them.
AbandonStart(count) ==
    /\ ~running
    /\ runs < MaxRuns
    /\ runs' = runs + 1
    /\ alone' = FALSE
    /\ Update([Effect(run, running) EXCEPT
                  !.spawn = [i \in 1 .. count |-> NextAgent + i - 1]], cmds, jobs)
    /\ UNCHANGED <<chan, orphans, says>>

\* Esc: cancelAgent has no turn to cancel, and the run goes on.
Escape ==
    /\ running
    /\ running' = FALSE
    /\ UNCHANGED <<run, agentVars, cmds, orphans, jobs, runs, alone, says>>

\* clearConversation.
Clear ==
    /\ ~running /\ run.live
    /\ run' = NoRun
    /\ alone' = (alone /\ ~AtWork)
    /\ UNCHANGED <<running, agentVars, cmds, orphans, jobs, runs, says>>

-----------------------------------------------------------------------------
\* The subagents.

Say(a, event) ==
    /\ Live(a) /\ says < MaxSays
    /\ says' = says + 1
    /\ chan' = [chan EXCEPT ![a] = Append(@, event)]

\* The agent ticks a slice in the plan.md of its worktree.
Tick(a) ==
    /\ Say(a, "edit")
    /\ \E slice \in Slices \ tree[agent[a].tree].ticked :
          tree' = [tree EXCEPT ![agent[a].tree].ticked = @ \union {slice}]
    /\ UNCHANGED <<run, running, agent, cmds, orphans, jobs, runs, alone>>

\* The agent closes its reply with a VERDICT line.
Review(a, verdict) ==
    /\ Say(a, verdict)
    /\ agent' = [agent EXCEPT ![a].verdict = verdict,
                              ![a].passed = @ \/ verdict = "pass"]
    /\ UNCHANGED <<run, running, tree, cmds, orphans, jobs, runs, alone>>

\* The process is gone, its status is recorded and its events close.
Exit(a, status) ==
    /\ Live(a)
    /\ agent' = [agent EXCEPT ![a].state = "ended", ![a].status = status]
    /\ UNCHANGED <<run, running, tree, chan, cmds, orphans, jobs, runs, alone, says>>

-----------------------------------------------------------------------------
\* Delivery and the background jobs.

Readable(a) == chan[a] # <<>> \/ agent[a].state = "ended"
NextEvent(a) == IF chan[a] = <<>> THEN "done" ELSE Head(chan[a])
TakeEvent(a) == chan' = [chan EXCEPT ![a] = IF @ = <<>> THEN @ ELSE Tail(@)]

\* The command at i delivers an event of a; its other readers are orphans now.
Receive(i, a) ==
    /\ a \in cmds[i] /\ Readable(a)
    /\ TakeEvent(a)
    /\ orphans' = [b \in Agents |->
          orphans[b] + IF b \in cmds[i] \ {a} THEN 1 ELSE 0]
    /\ \E e \in IF NextEvent(a) = "done" THEN AgentDone(run, a)
                                           ELSE AgentEvent(run, NextEvent(a)) :
          Update(e, RemoveAt(cmds, i), jobs)
    /\ UNCHANGED <<runs, alone, says>>

\* An orphan takes an event into the buffer that nobody reads.
Swallow(a) ==
    /\ orphans[a] > 0 /\ Readable(a)
    /\ TakeEvent(a)
    /\ orphans' = [orphans EXCEPT ![a] = @ - 1]
    /\ UNCHANGED <<run, running, agent, tree, cmds, jobs, runs, alone, says>>

\* runGates: a worktree that is not known counts as passed.
RunGates(j) ==
    /\ jobs[j].kind = "gates"
    /\ \E outcome \in IF tree[Head(jobs[j].targets)].state = "held"
                       THEN {"pass", "fail", "hang"} ELSE {"pass"} :
          \E e \in GateResult(run, outcome) : Update(e, cmds, RemoveAt(jobs, j))
    /\ UNCHANGED <<chan, orphans, runs, alone, says>>

\* mergeRunTargets, one target: committed, backed up, merged and cleaned up.
MergeTarget(j) ==
    /\ jobs[j].kind = "merge" /\ jobs[j].targets # <<>> /\ ~jobs[j].failed
    /\ tree[Head(jobs[j].targets)].state = "held"
    /\ tree' = [tree EXCEPT ![Head(jobs[j].targets)].state = "merged"]
    /\ jobs' = [jobs EXCEPT ![j].targets = Tail(@)]
    /\ UNCHANGED <<run, running, agent, chan, cmds, orphans, runs, alone, says>>

\* mergeRunTargets: the commit, the backup or the merge of a target fails.
MergeFails(j) ==
    /\ jobs[j].kind = "merge" /\ jobs[j].targets # <<>> /\ ~jobs[j].failed
    /\ jobs' = [jobs EXCEPT ![j].failed = TRUE]
    /\ UNCHANGED <<run, running, agentVars, cmds, orphans, runs, alone, says>>

\* The result of the merge reaches Update.
MergeEnds(j) ==
    /\ jobs[j].kind = "merge" /\ (jobs[j].targets = <<>> \/ jobs[j].failed)
    /\ Update(MergeResult(run, jobs[j].failed), cmds, RemoveAt(jobs, j))
    /\ UNCHANGED <<chan, orphans, runs, alone, says>>

-----------------------------------------------------------------------------
Init ==
    /\ run = NoRun
    /\ running = FALSE
    /\ agent = [a \in Agents |-> [state |-> "none", status |-> "", tree |-> 0,
                                  verdict |-> "none", passed |-> FALSE]]
    /\ tree = [a \in Agents |-> [state |-> "none", ticked |-> {}]]
    /\ chan = [a \in Agents |-> <<>>]
    /\ cmds = <<>>
    /\ orphans = [a \in Agents |-> 0]
    /\ jobs = <<>>
    /\ runs = 0
    /\ says = 0
    /\ alone = TRUE

UserStep ==
    \/ \E count \in 1 .. 2 :
          AbandonStart(count) \/ \E gates \in BOOLEAN : StartRun(count, gates)
    \/ Escape
    \/ Clear

AgentExits(a) == \E status \in {"completed", "failed"} : Exit(a, status)

AgentStep(a) ==
    Tick(a) \/ (\E verdict \in Verdicts : Review(a, verdict)) \/ AgentExits(a)

ReceiveStep == \E i \in DOMAIN cmds : \E a \in cmds[i] : Receive(i, a)

JobStep ==
    \E j \in DOMAIN jobs : RunGates(j) \/ MergeTarget(j) \/ MergeFails(j) \/ MergeEnds(j)

Next ==
    \/ UserStep
    \/ \E a \in Agents : AgentStep(a) \/ Swallow(a)
    \/ ReceiveStep
    \/ JobStep

\* Update and its commands keep running, a job ends, and so does an agent: its
\* timeout, an hour, ends the process.
Fairness ==
    /\ \A a \in Agents : WF_vars(AgentExits(a))
    /\ WF_vars(ReceiveStep)
    /\ WF_vars(JobStep)

Spec == Init /\ [][Next]_vars
FairSpec == Spec /\ Fairness

-----------------------------------------------------------------------------
\* Properties.

Statuses == {"", "running", "completed", "failed"}

RunStates ==
    [live : BOOLEAN, gates : BOOLEAN,
     phase : {"none", "running", "gating", "verifying", "merging", "failed", "done"},
     agent : {0} \union Agents, owner : {0} \union Agents,
     parallel : Seq([agent : Agents, done : BOOLEAN, status : Statuses]),
     carried : Seq(Agents), retries : 0 .. MaxRetries, status : Statuses,
     transcript : {"none"} \union Verdicts, ticked : SUBSET Slices]

JobStates == [kind : {"gates", "merge"}, targets : Seq(Agents), failed : BOOLEAN]

TypeOK ==
    /\ run \in RunStates
    /\ running \in BOOLEAN
    /\ agent \in [Agents -> [state : {"none", "live", "ended"}, tree : {0} \union Agents,
                             status : Statuses, verdict : {"none"} \union Verdicts,
                             passed : BOOLEAN]]
    /\ tree \in [Agents -> [state : {"none", "held", "merged"}, ticked : SUBSET Slices]]
    /\ chan \in [Agents -> Seq({"edit"} \union Verdicts)]
    /\ cmds \in Seq(SUBSET Agents)
    /\ orphans \in [Agents -> Nat]
    /\ jobs \in Seq(JobStates)
    /\ runs \in 0 .. MaxRuns
    /\ says \in 0 .. MaxSays
    /\ alone \in BOOLEAN

\* The agents of the cycle that m.run is in.
CycleAgents == IF IsParallel(run) THEN ParallelAgents(run) ELSE {run.agent}

\* A worktree is committed, merged and removed only when no agent works in it any
\* more.  (handleRunAgentDone waits for every agent; mergeRunTargets)
MergeWaitsForAgents ==
    alone => \A j \in DOMAIN jobs : jobs[j].kind = "merge" =>
        \A a \in Agents : Live(a) => agent[a].tree \notin ToSet(jobs[j].targets)

\* What is merged was reviewed in its last cycle, and every slice of the plan is
\* ticked in a worktree that is merged.
\* (verifyRunComplete, "Two independent signals must agree before a merge")
MergeNeedsReview ==
    alone /\ run.live /\ run.phase = "merging" =>
        /\ \E a \in CycleAgents : agent[a].passed
        /\ \A slice \in Slices : \E t \in ToSet(MergeTargets(run)) : slice \in tree[t].ticked

\* A run that is done has merged every worktree it opened, those of the agents a
\* retry left behind too.
\* (collapseParallel, "Dropping those worktrees is silent data loss")
NothingLeftBehind ==
    alone /\ run.live /\ run.phase = "done" =>
        \A t \in Agents : t >= run.owner => tree[t].state # "held"

\* A run ends, done or failed, whatever its agents, spawns and gates do.
\* (retryRun, "the stuck state this whole loop exists to avoid")
RunEnds ==
    run.live /\ run.phase = "running" ~>
        ~alone \/ ~run.live \/ run.phase \in {"done", "failed"}

\* The coordinators' contract: "FAIL sends the run into another cycle", so no agent
\* of a cycle that is merged had FAIL as its last word.  (run.go:284)
FailedReviewBlocks ==
    alone /\ run.live /\ run.phase = "merging" =>
        \A a \in CycleAgents : agent[a].verdict # "fail"

\* "a truncated or rewritten plan must not silently un-tick completed work": the
\* checklist of a run only grows.  (checklistFromWorktrees, run.go:1756)
TicksKept ==
    [][alone' /\ run.live /\ run'.live /\ runs' = runs => run.ticked \subseteq run'.ticked]_vars

=============================================================================
