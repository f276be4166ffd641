------------------------------ MODULE TurnLoop ------------------------------
(***************************************************************************)
(* The turn loop of the terminal UI (src/internal/tui/agent_loop.go), the  *)
(* goal loop on top of it (goal.go) and the goal_complete tool             *)
(* (src/internal/tools/goal.go).                                           *)
(*                                                                         *)
(* Update is one goroutine: each of its steps is an action that computes   *)
(* the next value of ui.  A turn is a goroutine that sends on a channel of *)
(* its own; a reader is a parked waitForAgent, which takes one message and *)
(* hands it to Update.  The two are one action here, Receive: a message    *)
(* that was taken and waits for Update is a message not yet taken.         *)
(***************************************************************************)
EXTENDS Integers, Sequences, FiniteSets

CONSTANTS
    MaxActions,    \* bound: what the user does
    MaxOutputs,    \* bound: messages a turn sends before its done
    GoalMaxCycles, \* defaultGoalMaxCycles
    MaxPending,    \* maxPendingPrompts
    Buffer         \* the capacity of a turn's channel

ASSUME TurnLoopAssumption ==
    /\ {MaxActions, MaxOutputs} \subseteq Nat
    /\ {GoalMaxCycles, MaxPending, Buffer} \subseteq Nat \ {0}

VARIABLES
    ui,       \* what Update owns, and the GoalController it shares with the tool
    turn,     \* the goroutine of a turn
    chan,     \* its channel
    parked,   \* the waitForAgent commands parked on that channel
    draining, \* the channels a cancelAgent goroutine drains
    halted,   \* history: the user stopped the goal loop, and has not restarted it
    calm,     \* history: no turn was taken down from the UI side
    stranded, \* history: a clear left prompts in the queue of an idle UI
    actions   \* the user's actions so far

history == <<halted, calm, stranded, actions>>
vars == <<ui, turn, chan, parked, draining, history>>

\* The turns the bounds allow: an action starts one, or the cycles of a goal.
Turns == 1 .. MaxActions * GoalMaxCycles

NoReport == [cycle |-> 0, by |-> 0]
NoGoal == [status |-> "none", cycles |-> 0, max |-> 0, turn |-> 0, by |-> 0]

-----------------------------------------------------------------------------
\* Steps inside Update: each takes ui and returns what it becomes.

\* submit and startAgentLoop.
Submit(u, kind) ==
    [u EXCEPT !.running = TRUE,
              !.started = @ + 1,
              !.kind = kind,
              !.agentCh = u.started + 1,
              !.agentCancel = u.started + 1,
              !.lastPrompt = @ \/ kind = "user",
              !.lastFailed = @ /\ kind # "user"]

\* startNextPrompt.
StartNext(u) ==
    IF u.running \/ u.pending = <<>>
    THEN u
    ELSE Submit([u EXCEPT !.pending = Tail(@), !.steering = FALSE], Head(u.pending))

\* enqueuePrompt.
Enqueue(u) ==
    IF Len(u.pending) >= MaxPending
    THEN u
    ELSE StartNext([u EXCEPT !.pending = Append(@, "user")])

GoalActive(u) == u.goal.status = "active"
GoalRuns(u) == GoalActive(u) /\ ~u.goalCanceled

PublishGoal(u) ==
    [u EXCEPT !.tool = [active |-> GoalRuns(u), turn |-> u.goal.turn]]

\* takeGoalCompletion.
DropReport(u) == [u EXCEPT !.slot = NoReport]

\* The report in the slot names the cycle that just ran.
GoalReported(u) == u.slot.cycle # 0 /\ u.slot.cycle = u.goal.turn

\* beginGoalCycle.
SpendCycle(u) ==
    PublishGoal([u EXCEPT !.goal.cycles = @ + 1, !.goal.turn = u.goal.cycles + 1])

BeginGoalCycle(u) ==
    CASE ~GoalRuns(u) -> u
      [] GoalRuns(u) /\ GoalReported(u) ->
            DropReport([u EXCEPT !.goal.status = "complete", !.goal.by = u.slot.by])
      [] GoalRuns(u) /\ ~GoalReported(u) /\ u.goal.cycles >= u.goal.max ->
            DropReport([u EXCEPT !.goalCanceled = TRUE])
      [] OTHER ->
            LET spent == SpendCycle(DropReport(u)) IN
            IF Len(spent.pending) >= MaxPending
            THEN [spent EXCEPT !.goalCanceled = TRUE]
            ELSE StartNext([spent EXCEPT !.pending = Append(@, "auto")])

\* continueGoalLoop.
ContinueGoal(u) ==
    CASE ~GoalRuns(u) \/ u.steering -> u
      [] GoalRuns(u) /\ ~u.steering /\ u.goal.turn = 0 -> DropReport(u)
      [] OTHER -> BeginGoalCycle(PublishGoal(u))

\* handleAgentDone.
AgentDone(u, err) ==
    LET failed == err # "none" /\ ~(u.steering /\ err = "canceled")
        idle == [u EXCEPT !.running = FALSE, !.agentCancel = 0, !.agentCh = 0,
                          !.lastFailed = @ \/ (failed /\ u.lastPrompt)]
    IN IF idle.pending # <<>> THEN StartNext(idle) ELSE ContinueGoal(idle)

\* What cancelAgent leaves behind before it starts the next prompt.
Stopped(u) ==
    LET loop == IF GoalActive(u)
                THEN PublishGoal([u EXCEPT !.goalCanceled = TRUE])
                ELSE u
    IN [loop EXCEPT !.running = FALSE, !.steering = FALSE,
                    !.agentCh = 0, !.agentCancel = 0]

\* Slip: Esc leaves the goal loop alone.
CancelTurnOnly(u) ==
    StartNext([u EXCEPT !.running = FALSE, !.steering = FALSE,
                        !.agentCh = 0, !.agentCancel = 0])

\* Slip: the drained done was what started the next prompt.
CancelAndWait(u) == Stopped(u)

\* cancelAgent.
CancelAgent(u) == StartNext(Stopped(u))

-----------------------------------------------------------------------------
\* One step of Update: ui becomes u, the turns in stop are canceled, and a turn
\* it started gets its goroutine and its reader; readers is parked without them.
Update(u, stop, readers) ==
    /\ ui' = u
    /\ turn' = [t \in Turns |->
          IF t = u.started /\ u.started > ui.started
          THEN [turn[t] EXCEPT !.state = "live", !.goal = u.goals,
                                 !.cycle = u.goal.turn]
          ELSE [turn[t] EXCEPT !.canceled = @ \/ t \in stop]]
    /\ parked' = IF u.started > ui.started
                 THEN [readers EXCEPT ![u.started] = 1]
                 ELSE readers

\* The turn m.agentCancel stops.
Cancelable == {ui.agentCancel} \ {0}

Act ==
    /\ actions < MaxActions
    /\ actions' = actions + 1

\* handleInputSubmit: the slash commands that are let through.
SlashAllowed(command) == ~ui.running \/ command \in {"pause", "clear"}

-----------------------------------------------------------------------------
\* The user.

\* handleInputSubmit, a prompt: enqueuePrompt, or steerPrompt while a turn runs.
SubmitPrompt ==
    /\ Act
    /\ LET steers == ui.running /\ Len(ui.pending) < MaxPending IN
       Update(Enqueue(IF steers
                      THEN [ui EXCEPT !.agentCancel = 0, !.steering = TRUE]
                      ELSE ui),
              IF steers THEN Cancelable ELSE {}, parked)
    /\ UNCHANGED <<chan, draining, halted, calm, stranded>>

\* handleRetry.
Retry ==
    /\ ~ui.running /\ ui.lastPrompt /\ ui.lastFailed
    /\ Act
    /\ Update(Enqueue([ui EXCEPT !.pending = <<>>]), {}, parked)
    /\ UNCHANGED <<chan, draining, halted, calm, stranded>>

\* handleInterruptKey: Esc, or the first Ctrl+C, while a turn runs.
Escape ==
    /\ ui.running
    /\ Act
    /\ calm' = FALSE
    /\ Update(CancelAgent(ui), Cancelable, parked)
    /\ draining' = draining \union ({ui.agentCh} \ {0})
    /\ halted' = (halted \/ GoalActive(ui))
    /\ UNCHANGED <<chan, stranded>>

\* clearConversation from the gauge's [x], which a running turn does not disarm.
ClickClear ==
    /\ Act
    /\ calm' = FALSE
    /\ stranded' = (stranded \/ ui.pending # <<>>)
    /\ Update([ui EXCEPT !.running = FALSE, !.lastPrompt = FALSE, !.lastFailed = FALSE],
              {}, parked)
    /\ UNCHANGED <<chan, draining, halted>>

\* setGoal, and the cycle that handleGoalCommand starts when the UI is idle.
SetGoal ==
    /\ SlashAllowed("set")
    /\ Act
    /\ LET set == DropReport([ui EXCEPT
                    !.goal = [status |-> "active", cycles |-> 0, max |-> GoalMaxCycles,
                              turn |-> 0, by |-> 0],
                    !.goalCanceled = FALSE,
                    !.goals = @ + 1])
       IN Update(IF ui.running THEN set ELSE BeginGoalCycle(set), {}, parked)
    /\ halted' = FALSE
    /\ UNCHANGED <<chan, draining, calm, stranded>>

\* clearGoal.
ClearGoal ==
    /\ SlashAllowed("clear")
    /\ ui.goal.status # "none"
    /\ Act
    /\ Update(DropReport([ui EXCEPT !.goal = NoGoal, !.goalCanceled = TRUE]), {}, parked)
    /\ halted' = TRUE
    /\ UNCHANGED <<chan, draining, calm, stranded>>

\* pauseGoal.
PauseGoal ==
    /\ SlashAllowed("pause")
    /\ GoalActive(ui)
    /\ Act
    /\ Update([ui EXCEPT !.goal.status = "paused", !.goalCanceled = TRUE], {}, parked)
    /\ halted' = TRUE
    /\ UNCHANGED <<chan, draining, calm, stranded>>

\* resumeGoal.
ResumeGoal ==
    /\ SlashAllowed("resume")
    /\ ui.goal.status = "paused" \/ (GoalActive(ui) /\ ui.goalCanceled)
    /\ Act
    /\ LET spent == ui.goal.cycles >= ui.goal.max
           renewed == IF spent THEN ui.goal.cycles + GoalMaxCycles ELSE ui.goal.max
       IN Update(BeginGoalCycle([ui EXCEPT !.goal.status = "active",
                                           !.goal.max = renewed,
                                           !.goalCanceled = FALSE]), {}, parked)
    /\ halted' = FALSE
    /\ UNCHANGED <<chan, draining, calm, stranded>>

-----------------------------------------------------------------------------
\* A turn: runAgentLoop and streamTurn.

Output == [done |-> FALSE, err |-> "none"]
Done(err) == [done |-> TRUE, err |-> err]

Live(t) == turn[t].state = "live"
HasRoom(t) == Len(chan[t].buf) < Buffer

\* Text, a thought, a tool call, a tool result, the usage, or a warning: that
\* the stuck detector tripped and the same turn goes on with a new attempt.
Emit(t) ==
    /\ Live(t) /\ HasRoom(t) /\ turn[t].sent < MaxOutputs
    /\ turn' = [turn EXCEPT ![t].sent = @ + 1]
    /\ chan' = [chan EXCEPT ![t].buf = Append(@, Output)]
    /\ UNCHANGED <<ui, parked, draining, history>>

\* The turn is over and the deferred close runs; last is what fail sends first.
End(t, last) ==
    /\ Live(t) /\ turn[t].report = 0
    /\ turn' = [turn EXCEPT ![t].state = "ended", ![t].sent = 0, ![t].canceled = FALSE]
    /\ chan' = [chan EXCEPT ![t] = [buf |-> @.buf \o last, closed |-> TRUE]]
    /\ UNCHANGED <<ui, parked, draining, history>>

Finish(t) == End(t, <<>>)

Fail(t) ==
    /\ HasRoom(t)
    /\ \E err \in {"failed"} \union (IF turn[t].canceled THEN {"canceled"} ELSE {}) :
          End(t, <<Done(err)>>)

\* Complete, first half: the report names the cycle of the turn's own prompt, and
\* is accepted when that is the cycle the tool believes is running.
CheckReport(t) ==
    /\ Live(t) /\ ~turn[t].reported
    /\ ui.tool.active
    /\ turn[t].cycle # 0 /\ turn[t].cycle = ui.tool.turn
    /\ turn' = [turn EXCEPT ![t].report = ui.tool.turn, ![t].reported = TRUE]
    /\ UNCHANGED <<ui, chan, parked, draining, history>>

\* Complete, second half: the accepted report goes to the slot.
StoreReport(t) ==
    /\ Live(t) /\ turn[t].report # 0
    /\ ui' = [ui EXCEPT !.slot = [cycle |-> turn[t].report, by |-> t]]
    /\ turn' = [turn EXCEPT ![t].report = 0]
    /\ UNCHANGED <<chan, parked, draining, history>>

-----------------------------------------------------------------------------
\* Delivery.

\* What a reader of t is given: the oldest message, or the done a close stands for.
NextMessage(t) == IF chan[t].buf # <<>> THEN Head(chan[t].buf) ELSE Done("none")

Readable(t) == chan[t].buf # <<>> \/ chan[t].closed

PopMessage(t) ==
    chan' = [chan EXCEPT ![t].buf = IF @ = <<>> THEN @ ELSE Tail(@)]

\* Slip: Update re-arms for every message.
RearmedTwice(readers) ==
    IF ui.agentCh = 0 THEN readers ELSE [readers EXCEPT ![ui.agentCh] = @ + 2]

\* The handlers of the stream re-arm on the channel that is m.agentCh by now.
Rearmed(readers) ==
    IF ui.agentCh = 0 THEN readers ELSE [readers EXCEPT ![ui.agentCh] = @ + 1]

\* waitForAgent, and the handler of the message it delivers.
Receive(t) ==
    /\ parked[t] > 0 /\ Readable(t)
    /\ PopMessage(t)
    /\ UNCHANGED <<draining, history>>
    /\ LET readers == [parked EXCEPT ![t] = @ - 1] IN
       IF NextMessage(t).done
       THEN Update(AgentDone(ui, NextMessage(t).err), {}, readers)
       ELSE Update(ui, {}, Rearmed(readers))

\* The goroutine of cancelAgent: to the close, or until its timer.
Drain(t) ==
    /\ t \in draining /\ Readable(t)
    /\ PopMessage(t)
    /\ draining' = IF chan[t].buf = <<>> THEN draining \ {t} ELSE draining
    /\ UNCHANGED <<ui, turn, parked, history>>

DrainTimeout(t) ==
    /\ t \in draining
    /\ draining' = draining \ {t}
    /\ UNCHANGED <<ui, turn, chan, parked, history>>

-----------------------------------------------------------------------------
Init ==
    /\ ui = [running |-> FALSE, steering |-> FALSE, agentCh |-> 0, agentCancel |-> 0,
             pending |-> <<>>, lastPrompt |-> FALSE, lastFailed |-> FALSE,
             goal |-> NoGoal, goalCanceled |-> FALSE,
             tool |-> [active |-> FALSE, turn |-> 0], slot |-> NoReport,
             started |-> 0, kind |-> "user", goals |-> 0]
    /\ turn = [t \in Turns |-> [state |-> "unborn", canceled |-> FALSE, goal |-> 0,
                                cycle |-> 0, sent |-> 0,
                                report |-> 0, reported |-> FALSE]]
    /\ chan = [t \in Turns |-> [buf |-> <<>>, closed |-> FALSE]]
    /\ parked = [t \in Turns |-> 0]
    /\ draining = {}
    /\ halted = FALSE
    /\ calm = TRUE
    /\ stranded = FALSE
    /\ actions = 0

UserStep ==
    SubmitPrompt \/ Retry \/ Escape \/ ClickClear
        \/ SetGoal \/ ClearGoal \/ PauseGoal \/ ResumeGoal

TurnStep(t) ==
    Emit(t) \/ Finish(t) \/ Fail(t) \/ CheckReport(t) \/ StoreReport(t)

DeliveryStep(t) == Receive(t) \/ Drain(t) \/ DrainTimeout(t)

Next == UserStep \/ \E t \in Turns : TurnStep(t) \/ DeliveryStep(t)

\* Update and its commands keep running, a turn ends, its store is a few lines:
\* as long as one of them can move, one does.
Progress == \E t \in Turns : Receive(t) \/ Finish(t) \/ Fail(t) \/ StoreReport(t)

Spec == Init /\ [][Next]_vars
FairSpec == Spec /\ WF_vars(Progress)

-----------------------------------------------------------------------------
\* Properties.

TypeOK ==
    /\ ui \in [running : BOOLEAN, steering : BOOLEAN,
               agentCh : {0} \union Turns, agentCancel : {0} \union Turns,
               pending : Seq({"user", "auto"}),
               lastPrompt : BOOLEAN, lastFailed : BOOLEAN,
               goal : [status : {"none", "active", "paused", "complete"},
                       cycles : Nat, max : Nat, turn : Nat, by : {0} \union Turns],
               goalCanceled : BOOLEAN,
               tool : [active : BOOLEAN, turn : Nat],
               slot : [cycle : Nat, by : {0} \union Turns],
               started : {0} \union Turns, kind : {"user", "auto"},
               goals : 0 .. MaxActions]
    /\ turn \in [Turns -> [state : {"unborn", "live", "ended"}, canceled : BOOLEAN,
                           goal : 0 .. MaxActions,
                           cycle : Nat, sent : 0 .. MaxOutputs,
                           report : Nat, reported : BOOLEAN]]
    /\ chan \in [Turns -> [buf : Seq([done : BOOLEAN,
                                      err : {"none", "failed", "canceled"}]),
                           closed : BOOLEAN]]
    /\ parked \in [Turns -> Nat]
    /\ draining \subseteq Turns
    /\ halted \in BOOLEAN
    /\ calm \in BOOLEAN
    /\ stranded \in BOOLEAN
    /\ actions \in 0 .. MaxActions
    /\ Len(ui.pending) <= MaxPending
    /\ \A t \in Turns : Len(chan[t].buf) <= Buffer

\* A running UI always has a reader on the channel it shows, whatever the user
\* did, so the end of its turn is reported.  And until the user takes a turn down
\* from the UI side there is exactly one, every other turn has ended, and an idle
\* UI has no reader and no turn.
\* (the comment in Update, "a single reader is always parked on the channel")
OneListener ==
    /\ ui.running => ui.agentCh # 0 /\ parked[ui.agentCh] > 0
    /\ calm => \A t \in Turns :
          /\ parked[t] = IF ui.running /\ t = ui.agentCh THEN 1 ELSE 0
          /\ Live(t) => ui.running /\ t = ui.agentCh

\* Once the user stopped the goal loop (Esc, /goal pause, /goal clear) no
\* automatic turn starts until /goal resume or a new goal, however late the
\* stopped turn reports.  A clear while prompts wait is the exception: it leaves
\* them in the queue of an idle UI, a goal set then puts its prompt behind them,
\* and the Esc that stops the loop starts that prompt.
\* (cancelAgent, startNextPrompt, beginGoalCycle, clearConversation)
StopIsHeeded ==
    [][ui'.started > ui.started /\ ui'.kind = "auto" /\ ~stranded => ~halted']_vars

\* A goal is closed by a turn that ran under it, never by a report about an
\* earlier objective.  (Complete, takeGoalCompletion, beginGoalCycle)
OwnCompletion ==
    ui.goal.status = "complete" => turn[ui.goal.by].goal = ui.goals

\* A queued prompt is started in the end, even when Esc drains the report that
\* would have started it.  (cancelAgent, startNextPrompt)
PromptsRun == ui.pending # <<>> ~> ui.pending = <<>>

\* cancelAgent "drains the channel, so nothing that loop sends can land": a message
\* of a turn stopped by Esc leaves the UI as it is.  (agent_loop.go:957)
NothingLands ==
    [][\A t \in draining : parked'[t] < parked[t] => ui' = ui]_vars

\* Esc "is the way out of an automatic loop": with or without prompts that a clear
\* left behind, no automatic turn starts after it.  (agent_loop.go:835)
StopIsFinal == [][ui'.started > ui.started /\ ui'.kind = "auto" => ~halted']_vars

=============================================================================
