--------------------------- MODULE TurnLoopProofs ---------------------------
(***************************************************************************)
(* Proofs about the turn loop, for any number of actions, outputs, cycles  *)
(* and queued prompts: the types, that a running UI hears the end of its   *)
(* turn, and that a stopped goal loop stays stopped.                       *)
(***************************************************************************)
EXTENDS TurnLoop, SequenceTheorems, TLAPS

-----------------------------------------------------------------------------
(***************************************************************************)
(* What Update owns, and what a step of it does.  A turn costs one of the  *)
(* turns the bounds allow, a queued prompt will cost one, and so will each *)
(* cycle a goal has left.                                                  *)
(***************************************************************************)
Goals == [status : {"none", "active", "paused", "complete"},
          cycles : Nat, max : Nat, turn : Nat, by : {0} \union Turns]

UIs == [running : BOOLEAN, steering : BOOLEAN, agentCh : Nat, agentCancel : Nat,
        pending : Seq({"user", "auto"}), lastPrompt : BOOLEAN, lastFailed : BOOLEAN,
        goal : Goals, goalCanceled : BOOLEAN, tool : [active : BOOLEAN, turn : Nat],
        slot : [cycle : Nat, by : {0} \union Turns],
        started : Nat, kind : {"user", "auto"}, goals : Nat]

Sound(u) ==
    /\ u \in UIs
    /\ u.running => u.agentCh # 0
    /\ u.agentCh <= u.started /\ u.agentCancel <= u.started
    /\ Len(u.pending) <= MaxPending
    /\ u.goal.cycles <= u.goal.max

CyclesLeft(goal) == IF goal.status \in {"active", "paused"} THEN goal.max - goal.cycles ELSE 0

Cost(u) == u.started + Len(u.pending) + CyclesLeft(u.goal)

\* From u to v the same turn is on show, or an idle UI has started one.
SameTurn(u, v) == v.started = u.started /\ v.running = u.running /\ v.agentCh = u.agentCh
NextTurn(u, v) ==
    ~u.running /\ v.running /\ v.started = u.started + 1 /\ v.agentCh = v.started

Leads(u, v) == Sound(v) /\ (SameTurn(u, v) \/ NextTurn(u, v)) /\ v.goals = u.goals

\* Only the user's prompts wait, and none in front of an idle UI.
OnlyUsers(u) == \A i \in DOMAIN u.pending : u.pending[i] = "user"
Orderly(u) == OnlyUsers(u) /\ (u.running \/ u.pending = <<>>)

\* With an orderly queue an automatic turn starts only under a goal loop that goes on.
Obeys(u, v) == v.started > u.started /\ v.kind = "auto" => ~u.goalCanceled

SameGoal(u, v) == v.goal = u.goal /\ v.goalCanceled = u.goalCanceled

\* The numbers of a sound record.
LEMMA SoundNumbers ==
    ASSUME NEW u, Sound(u)
    PROVE  /\ u \in UIs /\ u.goal \in Goals /\ u.started \in Nat /\ u.goals \in Nat
           /\ u.pending \in Seq({"user", "auto"}) /\ Len(u.pending) \in Nat
           /\ u.goal.cycles \in Nat /\ u.goal.max \in Nat /\ u.goal.cycles <= u.goal.max
           /\ CyclesLeft(u.goal) \in Nat
           /\ Cost(u) = u.started + Len(u.pending) + CyclesLeft(u.goal)
           /\ Cost(u) \in Nat /\ u.started <= Cost(u)
  <1>1. /\ u \in UIs /\ u.goal \in Goals /\ u.started \in Nat /\ u.goals \in Nat
        /\ u.pending \in Seq({"user", "auto"}) /\ u.goal.cycles <= u.goal.max
    BY DEF Sound, UIs
  <1>2. u.goal.cycles \in Nat /\ u.goal.max \in Nat
    BY <1>1 DEF Goals
  <1>3. Len(u.pending) \in Nat
    BY <1>1
  <1>4. CyclesLeft(u.goal) \in Nat
    BY <1>1, <1>2 DEF CyclesLeft
  <1>5. Cost(u) = u.started + Len(u.pending) + CyclesLeft(u.goal)
    BY DEF Cost
  <1>6. Cost(u) \in Nat /\ u.started <= Cost(u)
    BY <1>1, <1>3, <1>4, <1>5
  <1> QED BY <1>1, <1>2, <1>3, <1>4, <1>5, <1>6

\* The cost of a sound record is a number.
LEMMA CostIsNat ==
    ASSUME NEW u, Sound(u)
    PROVE  Cost(u) \in Nat
  BY SoundNumbers

\* An active goal that spends a cycle.
LEMMA CostOfCycle ==
    ASSUME NEW u, Sound(u), u.goal.status = "active",
           NEW w, w.started = u.started, w.pending = u.pending, w.goal.status = "active",
           w.goal.cycles = u.goal.cycles + 1, w.goal.max = u.goal.max
    PROVE  Cost(w) + 1 = Cost(u)
  <1>1. PICK s \in Nat, p \in Nat, c \in Nat, max \in Nat :
            s = u.started /\ p = Len(u.pending) /\ c = u.goal.cycles /\ max = u.goal.max
    BY SoundNumbers
  <1>2. Cost(u) = s + p + (max - c)
    BY <1>1 DEF Cost, CyclesLeft
  <1>3. Cost(w) = s + p + (max - (c + 1))
    BY <1>1 DEF Cost, CyclesLeft
  <1> QED BY <1>2, <1>3

\* A goal that is resumed with more cycles.
LEMMA CostOfResume ==
    ASSUME NEW u, Sound(u), u.goal.status \in {"active", "paused"}, NEW n \in Nat,
           NEW w, Sound(w), w.started = u.started, w.pending = u.pending,
           w.goal.status = "active", w.goal.cycles = u.goal.cycles, w.goal.max <= u.goal.max + n
    PROVE  Cost(w) <= Cost(u) + n
  <1>1. /\ u.started \in Nat /\ Len(u.pending) \in Nat /\ u.goal.cycles \in Nat
        /\ u.goal.max \in Nat /\ w.goal.max \in Nat
    BY SoundNumbers
  <1>2. CyclesLeft(u.goal) = u.goal.max - u.goal.cycles
    BY DEF CyclesLeft
  <1>3. CyclesLeft(w.goal) = w.goal.max - u.goal.cycles
    BY DEF CyclesLeft
  <1>4. CyclesLeft(w.goal) <= CyclesLeft(u.goal) + n /\ CyclesLeft(u.goal) \in Int
            /\ CyclesLeft(w.goal) \in Int
    BY <1>1, <1>2, <1>3
  <1>5. Cost(w) = u.started + Len(u.pending) + CyclesLeft(w.goal)
    BY DEF Cost
  <1>6. Cost(u) = u.started + Len(u.pending) + CyclesLeft(u.goal)
    BY DEF Cost
  <1> QED BY <1>1, <1>4, <1>5, <1>6

\* submit.
LEMMA SubmitLeads ==
    ASSUME NEW u, Sound(u), ~u.running, NEW kind \in {"user", "auto"}
    PROVE  LET v == Submit(u, kind) IN
           /\ Sound(v) /\ NextTurn(u, v) /\ v.goals = u.goals /\ SameGoal(u, v)
           /\ v.pending = u.pending /\ v.kind = kind
  <1> DEFINE v == Submit(u, kind)
  <1>1. v \in UIs /\ v.agentCancel = u.started + 1
    <2> DEFINE prompted == u.lastPrompt \/ kind = "user"
               failed == u.lastFailed /\ kind # "user"
               numbered == u.started + 1
    <2>1. u \in UIs /\ numbered \in Nat
      BY DEF Sound, UIs
    <2>2. prompted \in BOOLEAN /\ failed \in BOOLEAN
      OBVIOUS
    <2>3. v = [u EXCEPT !.running = TRUE, !.started = numbered, !.kind = kind,
                        !.agentCh = numbered, !.agentCancel = numbered,
                        !.lastPrompt = prompted, !.lastFailed = failed]
      BY Zenon DEF Submit
    <2> HIDE DEF prompted, failed, numbered, v
    <2>4. v \in UIs /\ v.agentCancel = numbered
      BY <2>1, <2>2, <2>3 DEF UIs
    <2> QED BY <2>4 DEF numbered
  <1>2. NextTurn(u, v) /\ v.goals = u.goals /\ SameGoal(u, v) /\ v.pending = u.pending
            /\ v.kind = kind
    BY DEF Submit, Sound, UIs, NextTurn, SameGoal
  <1>3. u.started \in Nat
    BY DEF Sound, UIs
  <1> HIDE DEF v
  <1>4. Sound(v)
    BY <1>1, <1>2, <1>3 DEF Sound, NextTurn, SameGoal
  <1> QED BY <1>2, <1>4 DEF v

\* The oldest prompt is taken from the queue.
LEMMA TakenFromQueue ==
    ASSUME NEW u, Sound(u), u.pending # <<>>
    PROVE  LET v == [u EXCEPT !.pending = Tail(@), !.steering = FALSE] IN
           /\ Sound(v) /\ SameTurn(u, v) /\ v.goals = u.goals /\ SameGoal(u, v)
           /\ v.pending = Tail(u.pending) /\ Len(v.pending) = Len(u.pending) - 1
           /\ Head(u.pending) \in {"user", "auto"}
           /\ OnlyUsers(u) => OnlyUsers(v) /\ Head(u.pending) = "user"
  <1> DEFINE v == [u EXCEPT !.pending = Tail(@), !.steering = FALSE]
  <1>1. u \in UIs /\ u.pending \in Seq({"user", "auto"}) /\ Len(u.pending) <= MaxPending
    BY DEF Sound, UIs
  <1>2. /\ Tail(u.pending) \in Seq({"user", "auto"})
        /\ Len(Tail(u.pending)) = Len(u.pending) - 1
        /\ Head(u.pending) \in {"user", "auto"}
        /\ Head(u.pending) = u.pending[1] /\ 1 \in DOMAIN u.pending
        /\ \A i \in DOMAIN Tail(u.pending) :
               i + 1 \in DOMAIN u.pending /\ Tail(u.pending)[i] = u.pending[i + 1]
    BY <1>1
  <1>3. /\ v \in UIs
        /\ SameTurn(u, v) /\ v.goals = u.goals /\ SameGoal(u, v)
        /\ v.pending = Tail(u.pending) /\ v.agentCancel = u.agentCancel
    BY <1>1, <1>2 DEF UIs, SameTurn, SameGoal
  <1>4. MaxPending \in Nat
    BY TurnLoopAssumption
  <1> HIDE DEF v
  <1>5. OnlyUsers(u) => OnlyUsers(v) /\ Head(u.pending) = "user"
    BY <1>2, <1>3 DEF OnlyUsers
  <1>6. Len(v.pending) = Len(u.pending) - 1 /\ Len(u.pending) \in Nat
    BY <1>1, <1>2, <1>3
  <1>7. Sound(v)
    BY <1>3, <1>4, <1>6 DEF Sound, SameTurn, SameGoal
  <1> QED BY <1>2, <1>3, <1>5, <1>6, <1>7 DEF v

\* startNextPrompt.
LEMMA StartNextLeads ==
    ASSUME NEW u, Sound(u)
    PROVE  LET v == StartNext(u) IN
           /\ Leads(u, v) /\ SameGoal(u, v) /\ Cost(v) = Cost(u)
           /\ v.running \/ v.pending = <<>>
           /\ u.pending # <<>> => v.running
           /\ ~u.running /\ u.pending # <<>> => v.pending = Tail(u.pending)
           /\ OnlyUsers(u) => OnlyUsers(v) /\ (v.started > u.started => v.kind = "user")
  <1>1. CASE u.running \/ u.pending = <<>>
    <2>1. StartNext(u) = u
      BY <1>1 DEF StartNext
    <2>2. u.started \in Nat
      BY DEF Sound, UIs
    <2> QED BY <1>1, <2>1, <2>2 DEF Leads, SameTurn, SameGoal
  <1>2. CASE ~u.running /\ u.pending # <<>>
    <2> DEFINE taken == [u EXCEPT !.pending = Tail(@), !.steering = FALSE]
               v == Submit(taken, Head(u.pending))
    <2>1. StartNext(u) = v
      BY <1>2 DEF StartNext
    <2>2. /\ Sound(taken) /\ SameTurn(u, taken) /\ taken.goals = u.goals /\ SameGoal(u, taken)
          /\ taken.pending = Tail(u.pending) /\ Len(taken.pending) = Len(u.pending) - 1
          /\ Head(u.pending) \in {"user", "auto"}
          /\ OnlyUsers(u) => OnlyUsers(taken) /\ Head(u.pending) = "user"
      BY <1>2, TakenFromQueue
    <2> HIDE DEF taken
    <2>3. /\ Sound(v) /\ NextTurn(taken, v) /\ v.goals = taken.goals /\ SameGoal(taken, v)
          /\ v.pending = taken.pending /\ v.kind = Head(u.pending)
      BY <1>2, <2>2, SubmitLeads DEF SameTurn
    <2> HIDE DEF v
    <2>4. Leads(u, v) /\ SameGoal(u, v) /\ v.running
      BY <2>2, <2>3 DEF Leads, SameTurn, NextTurn, SameGoal
    <2>5. Cost(v) = Cost(u)
      <3>1. u.started \in Nat /\ Len(u.pending) \in Nat /\ v.started = u.started + 1
        BY <2>2, <2>3 DEF Sound, UIs, NextTurn, SameTurn
      <3>2. CyclesLeft(v.goal) = CyclesLeft(u.goal) /\ CyclesLeft(u.goal) \in Int
        BY <2>4 DEF SameGoal, CyclesLeft, Sound, UIs, Goals
      <3> QED BY <2>2, <2>3, <3>1, <3>2 DEF Cost
    <2>6. OnlyUsers(u) => OnlyUsers(v) /\ v.kind = "user"
      BY <2>2, <2>3 DEF OnlyUsers
    <2> QED BY <2>1, <2>2, <2>3, <2>4, <2>5, <2>6
  <1> QED BY <1>1, <1>2

\* A prompt is appended, and the oldest started.
LEMMA AppendLeads ==
    ASSUME NEW u, Sound(u), Len(u.pending) < MaxPending, NEW kind \in {"user", "auto"}
    PROVE  LET v == StartNext([u EXCEPT !.pending = Append(@, kind)]) IN
           /\ Leads(u, v) /\ SameGoal(u, v) /\ Cost(v) = Cost(u) + 1
           /\ ~u.running /\ u.pending = <<>> => v.pending = <<>>
           /\ v.running
           /\ OnlyUsers(u) /\ kind = "user" =>
                 OnlyUsers(v) /\ (v.started > u.started => v.kind = "user")
  <1> DEFINE asked == [u EXCEPT !.pending = Append(@, kind)]
             v == StartNext(asked)
  <1>1. /\ u \in UIs /\ u.pending \in Seq({"user", "auto"}) /\ Len(u.pending) \in Nat
        /\ u.started \in Nat
    BY DEF Sound, UIs
  <1>2. /\ Append(u.pending, kind) \in Seq({"user", "auto"})
        /\ Append(u.pending, kind) # <<>>
        /\ Len(Append(u.pending, kind)) = Len(u.pending) + 1
        /\ u.pending = <<>> => Tail(Append(u.pending, kind)) = <<>>
        /\ \A i \in DOMAIN Append(u.pending, kind) :
               IF i = Len(u.pending) + 1
               THEN Append(u.pending, kind)[i] = kind
               ELSE i \in DOMAIN u.pending /\ Append(u.pending, kind)[i] = u.pending[i]
    BY <1>1
  <1>3. /\ asked \in UIs /\ asked.pending = Append(u.pending, kind)
        /\ SameTurn(u, asked) /\ asked.goals = u.goals /\ SameGoal(u, asked)
        /\ asked.agentCancel = u.agentCancel
    BY <1>1, <1>2 DEF UIs, SameTurn, SameGoal
  <1>4. MaxPending \in Nat
    BY TurnLoopAssumption
  <1> HIDE DEF asked
  <1>5. Sound(asked)
    BY <1>1, <1>2, <1>3, <1>4 DEF Sound, SameTurn, SameGoal
  <1>6. OnlyUsers(u) /\ kind = "user" => OnlyUsers(asked)
    BY <1>2, <1>3 DEF OnlyUsers
  <1>7. Cost(asked) = Cost(u) + 1
    <2>1. CyclesLeft(asked.goal) = CyclesLeft(u.goal) /\ CyclesLeft(u.goal) \in Int
      BY <1>1, <1>3 DEF SameGoal, CyclesLeft, UIs, Goals
    <2> QED BY <1>1, <1>2, <1>3, <2>1 DEF Cost, SameTurn
  <1>8. /\ Leads(asked, v) /\ SameGoal(asked, v) /\ Cost(v) = Cost(asked)
        /\ asked.pending # <<>> => v.running
        /\ ~asked.running /\ asked.pending # <<>> => v.pending = Tail(asked.pending)
        /\ OnlyUsers(asked) => OnlyUsers(v) /\ (v.started > asked.started => v.kind = "user")
    BY <1>5, StartNextLeads
  <1>9. v.running
    BY <1>2, <1>3, <1>8
  <1> HIDE DEF v
  <1>10. Leads(u, v) /\ SameGoal(u, v)
    BY <1>3, <1>8 DEF Leads, SameTurn, NextTurn, SameGoal
  <1> QED BY <1>2, <1>3, <1>6, <1>7, <1>8, <1>9, <1>10 DEF asked, v, SameTurn

\* enqueuePrompt.
LEMMA EnqueueLeads ==
    ASSUME NEW u, Sound(u)
    PROVE  LET v == Enqueue(u) IN
           /\ Leads(u, v) /\ SameGoal(u, v) /\ Cost(v) <= Cost(u) + 1
           /\ Orderly(u) => Orderly(v) /\ (v.started > u.started => v.kind = "user")
  <1>1. u.started \in Nat /\ MaxPending \in Nat /\ Len(u.pending) \in Nat /\ Cost(u) \in Nat
    BY SoundNumbers, TurnLoopAssumption
  <1>2. CASE Len(u.pending) >= MaxPending
    <2>1. Enqueue(u) = u
      BY <1>2 DEF Enqueue
    <2> QED BY <1>1, <2>1 DEF Leads, SameTurn, SameGoal
  <1>3. CASE Len(u.pending) < MaxPending
    <2> DEFINE v == StartNext([u EXCEPT !.pending = Append(@, "user")])
    <2>1. Enqueue(u) = v
      BY <1>1, <1>3 DEF Enqueue
    <2>2. /\ Leads(u, v) /\ SameGoal(u, v) /\ Cost(v) = Cost(u) + 1 /\ v.running
          /\ OnlyUsers(u) => OnlyUsers(v) /\ (v.started > u.started => v.kind = "user")
      BY <1>3, AppendLeads
    <2> HIDE DEF v
    <2> QED BY <1>1, <2>1, <2>2 DEF Orderly
  <1> QED BY <1>1, <1>2, <1>3

\* A change of the goal loop's own fields: the turn and the queue stay.
Adjusts(u, v) ==
    /\ Sound(v) /\ SameTurn(u, v) /\ v.goals = u.goals /\ v.pending = u.pending
    /\ Cost(v) <= Cost(u) /\ (u.goalCanceled => v.goalCanceled)

\* takeGoalCompletion leaves the turn, the queue and the goal alone.
LEMMA DropReportAdjusts ==
    ASSUME NEW u, Sound(u)
    PROVE  /\ Adjusts(u, DropReport(u)) /\ SameGoal(u, DropReport(u))
           /\ Cost(DropReport(u)) = Cost(u)
  <1> DEFINE v == DropReport(u)
  <1>1. u \in UIs /\ NoReport \in [cycle : Nat, by : {0} \union Turns]
    BY DEF Sound, NoReport
  <1>2. /\ v \in UIs /\ SameTurn(u, v) /\ SameGoal(u, v) /\ v.goals = u.goals
        /\ v.pending = u.pending /\ v.agentCancel = u.agentCancel
    BY <1>1 DEF DropReport, UIs, SameTurn, SameGoal
  <1>3. Cost(u) \in Int
    BY <1>1 DEF UIs, Goals, Cost, CyclesLeft
  <1> HIDE DEF v
  <1>4. Cost(v) = Cost(u)
    BY <1>2 DEF Cost, SameTurn, SameGoal
  <1>5. Sound(v)
    BY <1>2 DEF Sound, SameTurn, SameGoal
  <1> QED BY <1>2, <1>3, <1>4, <1>5 DEF v, Adjusts, SameGoal

\* So does telling the tool about the goal.
LEMMA PublishGoalAdjusts ==
    ASSUME NEW u, Sound(u)
    PROVE  Adjusts(u, PublishGoal(u)) /\ SameGoal(u, PublishGoal(u))
  <1> DEFINE v == PublishGoal(u)
  <1>1. u \in UIs /\ u.goal.turn \in Nat /\ GoalRuns(u) \in BOOLEAN
    BY DEF Sound, UIs, Goals, GoalRuns, GoalActive
  <1>2. /\ v \in UIs /\ SameTurn(u, v) /\ SameGoal(u, v) /\ v.goals = u.goals
        /\ v.pending = u.pending /\ v.agentCancel = u.agentCancel
    BY <1>1 DEF PublishGoal, UIs, SameTurn, SameGoal
  <1>3. Cost(u) \in Int
    BY <1>1 DEF UIs, Goals, Cost, CyclesLeft
  <1> HIDE DEF v
  <1>4. Cost(v) = Cost(u)
    BY <1>2 DEF Cost, SameTurn, SameGoal
  <1>5. Sound(v)
    BY <1>2 DEF Sound, SameTurn, SameGoal
  <1> QED BY <1>2, <1>3, <1>4, <1>5 DEF v, Adjusts, SameGoal

\* beginGoalCycle.
LEMMA BeginGoalCycleLeads ==
    ASSUME NEW u, Sound(u)
    PROVE  LET v == BeginGoalCycle(u) IN
           /\ Leads(u, v) /\ Cost(v) <= Cost(u) /\ (u.goalCanceled => v.goalCanceled)
           /\ ~u.running /\ u.pending = <<>> => v.pending = <<>>
           /\ v.started > u.started => ~u.goalCanceled
  <1> DEFINE v == BeginGoalCycle(u)
             Result(w) == /\ Leads(u, w) /\ Cost(w) <= Cost(u)
                          /\ u.goalCanceled => w.goalCanceled
                          /\ ~u.running /\ u.pending = <<>> => w.pending = <<>>
                          /\ w.started > u.started => ~u.goalCanceled
  <1>1. /\ u \in UIs /\ u.started \in Nat /\ u.goal \in Goals /\ Len(u.pending) \in Nat
        /\ u.slot.by \in {0} \union Turns /\ Cost(u) \in Nat /\ MaxPending \in Nat
        /\ u.goal.cycles \in Nat /\ u.goal.max \in Nat /\ u.goal.cycles <= u.goal.max
    <2>1. u \in UIs
      BY SoundNumbers
    <2>2. u.slot.by \in {0} \union Turns
      BY <2>1 DEF UIs
    <2> QED BY <2>2, SoundNumbers, TurnLoopAssumption
  <1>2. ASSUME NEW w, Adjusts(u, w) PROVE Result(w)
    BY <1>1, <1>2 DEF Adjusts, Leads, SameTurn
  <1>3. CASE ~GoalRuns(u)
    <2>1. v = u
      BY <1>3 DEF BeginGoalCycle
    <2>2. Adjusts(u, u)
      BY <1>1 DEF Adjusts, SameTurn
    <2> QED BY <1>2, <2>1, <2>2
  <1>4. CASE GoalRuns(u) /\ GoalReported(u)
    <2> DEFINE w == [u EXCEPT !.goal.status = "complete", !.goal.by = u.slot.by]
    <2>1. v = DropReport(w)
      BY <1>4 DEF BeginGoalCycle
    <2>2. /\ w \in UIs /\ SameTurn(u, w) /\ w.goals = u.goals /\ w.pending = u.pending
          /\ w.agentCancel = u.agentCancel /\ w.goalCanceled = u.goalCanceled
          /\ w.goal.status = "complete" /\ w.goal.cycles = u.goal.cycles
          /\ w.goal.max = u.goal.max
      BY <1>1 DEF UIs, Goals, SameTurn
    <2> HIDE DEF w
    <2>3. Sound(w)
      BY <2>2 DEF Sound, SameTurn
    <2>4. Cost(w) <= Cost(u)
      <3>1. Cost(w) = u.started + Len(u.pending) /\ Cost(u) \in Nat
        <4>1. CyclesLeft(w.goal) = 0
          BY <2>2 DEF CyclesLeft
        <4>2. Cost(w) = w.started + Len(w.pending) + CyclesLeft(w.goal)
          BY DEF Cost
        <4> QED BY <1>1, <2>2, <4>1, <4>2 DEF SameTurn
      <3>2. /\ Cost(u) = u.started + Len(u.pending) + CyclesLeft(u.goal)
            /\ CyclesLeft(u.goal) \in Nat
        BY SoundNumbers
      <3> QED BY <1>1, <3>1, <3>2
    <2>5. Adjusts(w, v) /\ Cost(w) \in Nat /\ Cost(v) = Cost(w)
      BY <2>1, <2>3, DropReportAdjusts, CostIsNat
    <2> HIDE DEF v
    <2>6. Adjusts(u, v)
      BY <1>1, <2>2, <2>4, <2>5 DEF Adjusts, SameTurn
    <2> QED BY <1>2, <2>6 DEF v
  <1>5. CASE GoalRuns(u) /\ ~GoalReported(u) /\ u.goal.cycles >= u.goal.max
    <2> DEFINE w == [u EXCEPT !.goalCanceled = TRUE]
    <2>1. v = DropReport(w)
      BY <1>5 DEF BeginGoalCycle
    <2>2. /\ w \in UIs /\ SameTurn(u, w) /\ w.goals = u.goals /\ w.pending = u.pending
          /\ w.agentCancel = u.agentCancel /\ w.goalCanceled /\ w.goal = u.goal
      BY <1>1 DEF UIs, Goals, SameTurn
    <2> HIDE DEF w
    <2>3. Sound(w) /\ Cost(w) = Cost(u)
      BY <2>2 DEF Sound, SameTurn, Cost
    <2>4. Adjusts(w, v) /\ Cost(v) = Cost(u)
      BY <2>1, <2>3, DropReportAdjusts
    <2> HIDE DEF v
    <2>5. Adjusts(u, v)
      BY <1>1, <2>2, <2>4 DEF Adjusts, SameTurn
    <2> QED BY <1>2, <2>5 DEF v
  <1>6. CASE GoalRuns(u) /\ ~GoalReported(u) /\ ~(u.goal.cycles >= u.goal.max)
    <2> DEFINE spent == SpendCycle(DropReport(u))
    <2>1. /\ Sound(spent) /\ SameTurn(u, spent) /\ spent.goals = u.goals
          /\ spent.pending = u.pending /\ Cost(spent) + 1 = Cost(u)
          /\ spent.goalCanceled = u.goalCanceled
      <3> DEFINE dropped == DropReport(u)
                 cycle == dropped.goal.cycles + 1
                 w == [dropped EXCEPT !.goal.cycles = cycle, !.goal.turn = cycle]
      <3>1. /\ Sound(dropped) /\ SameTurn(u, dropped) /\ dropped.goals = u.goals
            /\ dropped.pending = u.pending /\ SameGoal(u, dropped)
        BY DropReportAdjusts DEF Adjusts
      <3>2. /\ dropped \in UIs /\ cycle \in Nat /\ dropped.goal \in Goals
            /\ cycle = u.goal.cycles + 1
        <4>1. dropped \in UIs /\ dropped.goal = u.goal
          BY <3>1 DEF Sound, SameGoal
        <4> HIDE DEF dropped
        <4> QED BY <1>1, <4>1
      <3>3. spent = PublishGoal(w)
        BY DEF SpendCycle, spent, cycle
      <3> HIDE DEF dropped, cycle
      <3>4. /\ w \in UIs /\ SameTurn(dropped, w) /\ w.goals = dropped.goals
            /\ w.pending = dropped.pending /\ w.agentCancel = dropped.agentCancel
            /\ w.goalCanceled = dropped.goalCanceled
            /\ w.goal.status = dropped.goal.status /\ w.goal.max = dropped.goal.max
            /\ w.goal.cycles = cycle
        BY <3>2 DEF UIs, Goals, SameTurn
      <3> HIDE DEF w
      <3>5. Sound(w)
        BY <1>1, <1>6, <3>1, <3>2, <3>4 DEF Sound, SameTurn, SameGoal
      <3>6. Cost(w) + 1 = Cost(u)
        BY <1>6, <3>1, <3>2, <3>4, CostOfCycle DEF SameTurn, SameGoal, GoalRuns, GoalActive
      <3>7. Adjusts(w, spent) /\ SameGoal(w, spent)
        BY <3>3, <3>5, PublishGoalAdjusts
      <3>8. Cost(spent) = Cost(w)
        BY <3>7 DEF Adjusts, SameTurn, SameGoal, Cost
      <3> QED BY <3>1, <3>4, <3>6, <3>7, <3>8 DEF Adjusts, SameTurn, SameGoal
    <2>2. ~u.goalCanceled
      BY <1>6 DEF GoalRuns
    <2> HIDE DEF spent
    <2>3. CASE Len(spent.pending) >= MaxPending
      <3> DEFINE w == [spent EXCEPT !.goalCanceled = TRUE]
      <3>1. v = w
        BY <1>6, <2>3 DEF BeginGoalCycle, spent
      <3>2. /\ w \in UIs /\ SameTurn(spent, w) /\ w.goals = spent.goals
            /\ w.pending = spent.pending
            /\ w.agentCancel = spent.agentCancel /\ w.goalCanceled /\ w.goal = spent.goal
        BY <2>1 DEF UIs, Sound, SameTurn
      <3> HIDE DEF w, v
      <3>3. Sound(w) /\ Cost(w) = Cost(spent)
        BY <2>1, <3>2 DEF Sound, SameTurn, Cost
      <3>4. Adjusts(u, v)
        BY <1>1, <2>1, <3>1, <3>2, <3>3, CostIsNat DEF Adjusts, SameTurn
      <3> QED BY <1>2, <3>4 DEF v
    <2>4. CASE Len(spent.pending) < MaxPending
      <3> DEFINE w == StartNext([spent EXCEPT !.pending = Append(@, "auto")])
      <3>1. v = w
        BY <1>1, <1>6, <2>1, <2>4 DEF BeginGoalCycle, spent
      <3>2. /\ Leads(spent, w) /\ SameGoal(spent, w) /\ Cost(w) = Cost(spent) + 1
            /\ ~spent.running /\ spent.pending = <<>> => w.pending = <<>>
        BY <2>1, <2>4, AppendLeads
      <3> HIDE DEF w, v
      <3>3. Leads(u, w)
        BY <2>1, <3>2 DEF Leads, SameTurn, NextTurn
      <3> QED BY <1>1, <2>1, <2>2, <3>1, <3>2, <3>3 DEF SameGoal, SameTurn, v
    <2> QED BY <1>1, <2>1, <2>3, <2>4
  <1> HIDE DEF v
  <1> QED BY <1>3, <1>4, <1>5, <1>6 DEF v

\* continueGoalLoop, once the UI is idle and its queue empty.
LEMMA ContinueGoalLeads ==
    ASSUME NEW u, Sound(u)
    PROVE  LET v == ContinueGoal(u) IN
           /\ Leads(u, v) /\ Cost(v) <= Cost(u) /\ (u.goalCanceled => v.goalCanceled)
           /\ ~u.running /\ u.pending = <<>> => v.pending = <<>>
           /\ v.started > u.started => ~u.goalCanceled
  <1> DEFINE v == ContinueGoal(u)
  <1>1. u.started \in Nat /\ Cost(u) \in Nat
    BY CostIsNat DEF Sound, UIs
  <1>2. ASSUME Adjusts(u, v)
        PROVE  /\ Leads(u, v) /\ Cost(v) <= Cost(u) /\ (u.goalCanceled => v.goalCanceled)
               /\ ~u.running /\ u.pending = <<>> => v.pending = <<>>
               /\ v.started > u.started => ~u.goalCanceled
    <2> HIDE DEF v
    <2> QED BY <1>1, <1>2 DEF Adjusts, Leads, SameTurn
  <1>3. CASE ~GoalRuns(u) \/ u.steering
    <2>1. v = u
      BY <1>3 DEF ContinueGoal
    <2>2. Adjusts(u, u)
      BY <1>1 DEF Adjusts, SameTurn
    <2> QED BY <1>2, <2>1, <2>2
  <1>4. CASE GoalRuns(u) /\ ~u.steering /\ u.goal.turn = 0
    <2>1. v = DropReport(u)
      BY <1>4 DEF ContinueGoal
    <2> QED BY <1>2, <2>1, DropReportAdjusts
  <1>5. CASE GoalRuns(u) /\ ~u.steering /\ u.goal.turn # 0
    <2> DEFINE told == PublishGoal(u)
    <2>1. v = BeginGoalCycle(told)
      BY <1>5 DEF ContinueGoal
    <2>2. Adjusts(u, told) /\ SameGoal(u, told)
      BY PublishGoalAdjusts
    <2> HIDE DEF told
    <2>3. /\ Leads(told, v) /\ Cost(v) <= Cost(told)
          /\ told.goalCanceled => v.goalCanceled
          /\ ~told.running /\ told.pending = <<>> => v.pending = <<>>
          /\ v.started > told.started => ~told.goalCanceled
      BY <2>1, <2>2, BeginGoalCycleLeads DEF Adjusts
    <2> HIDE DEF v
    <2>4. Cost(v) \in Nat /\ Cost(told) \in Nat
      BY <2>2, <2>3, CostIsNat DEF Adjusts, Leads
    <2> QED BY <1>1, <2>2, <2>3, <2>4 DEF v, Adjusts, Leads, SameTurn, NextTurn, SameGoal
  <1> HIDE DEF v
  <1> QED BY <1>3, <1>4, <1>5 DEF v

\* The turn on show is gone, and perhaps another took its place.
Replaces(u, v) ==
    /\ Sound(v) /\ v.goals = u.goals /\ Cost(v) <= Cost(u)
    /\ \/ ~v.running /\ v.started = u.started
       \/ v.running /\ v.started = u.started + 1 /\ v.agentCh = v.started
    /\ u.goalCanceled => v.goalCanceled
    /\ OnlyUsers(u) => Orderly(v) /\ Obeys(u, v)

\* handleAgentDone.
LEMMA AgentDoneReplaces ==
    ASSUME NEW u, Sound(u), NEW err \in {"none", "failed", "canceled"}
    PROVE  Replaces(u, AgentDone(u, err))
  <1> DEFINE failed == err # "none" /\ ~(u.steering /\ err = "canceled")
             failing == u.lastFailed \/ (failed /\ u.lastPrompt)
             idle == [u EXCEPT !.running = FALSE, !.agentCancel = 0, !.agentCh = 0,
                               !.lastFailed = failing]
             v == AgentDone(u, err)
  <1>1. failing \in BOOLEAN /\ u \in UIs /\ Cost(u) \in Nat /\ u.started \in Nat
    BY CostIsNat DEF Sound, UIs
  <1>2. v = IF idle.pending # <<>> THEN StartNext(idle) ELSE ContinueGoal(idle)
    BY Zenon DEF AgentDone
  <1> SUFFICES Replaces(u, v)
    OBVIOUS
  <1> HIDE DEF v, failing
  <1>3. /\ idle \in UIs /\ ~idle.running /\ idle.agentCancel = 0 /\ idle.agentCh = 0
        /\ idle.pending = u.pending /\ SameGoal(u, idle) /\ idle.goals = u.goals
        /\ idle.started = u.started
    BY <1>1 DEF UIs, SameGoal
  <1> HIDE DEF idle
  <1>4. Sound(idle) /\ Cost(idle) = Cost(u)
    BY <1>1, <1>3 DEF Sound, Cost, SameGoal
  <1>5. OnlyUsers(u) => OnlyUsers(idle)
    BY <1>3 DEF OnlyUsers
  <1>6. CASE idle.pending # <<>>
    <2>1. v = StartNext(idle)
      BY <1>2, <1>6
    <2>2. /\ Leads(idle, v) /\ SameGoal(idle, v) /\ Cost(v) = Cost(idle)
          /\ v.running
          /\ OnlyUsers(idle) => OnlyUsers(v) /\ (v.started > idle.started => v.kind = "user")
      BY <1>4, <1>6, <2>1, StartNextLeads
    <2>3. NextTurn(idle, v) /\ Sound(v) /\ v.goals = u.goals
      BY <1>3, <2>2 DEF Leads, SameTurn
    <2>4. OnlyUsers(u) => Orderly(v) /\ Obeys(u, v)
      BY <1>3, <1>5, <2>2 DEF Orderly, Obeys
    <2> QED BY <1>1, <1>3, <1>4, <2>2, <2>3, <2>4 DEF Replaces, NextTurn, SameGoal
  <1>7. CASE idle.pending = <<>>
    <2>1. v = ContinueGoal(idle)
      BY <1>2, <1>7
    <2>2. /\ Leads(idle, v) /\ Cost(v) <= Cost(idle)
          /\ idle.goalCanceled => v.goalCanceled
          /\ v.pending = <<>>
          /\ v.started > idle.started => ~idle.goalCanceled
      BY <1>3, <1>4, <1>7, <2>1, ContinueGoalLeads
    <2>3. Orderly(v)
      BY <2>2 DEF Orderly, OnlyUsers
    <2> QED BY <1>1, <1>3, <1>4, <2>2, <2>3
            DEF Replaces, Leads, SameTurn, NextTurn, SameGoal, Obeys
  <1> QED BY <1>6, <1>7

\* cancelAgent.
LEMMA CancelAgentReplaces ==
    ASSUME NEW u, Sound(u)
    PROVE  /\ Replaces(u, CancelAgent(u))
           /\ GoalActive(u) => CancelAgent(u).goalCanceled
           /\ OnlyUsers(u) /\ CancelAgent(u).started > u.started => CancelAgent(u).kind = "user"
  <1> DEFINE held == [u EXCEPT !.goalCanceled = TRUE]
             loop == IF GoalActive(u) THEN PublishGoal(held) ELSE u
             idle == [loop EXCEPT !.running = FALSE, !.steering = FALSE,
                                  !.agentCh = 0, !.agentCancel = 0]
             v == CancelAgent(u)
  <1>1. u \in UIs /\ Cost(u) \in Nat /\ u.started \in Nat
    BY CostIsNat DEF Sound, UIs
  <1>2. v = StartNext(idle)
    BY Zenon DEF CancelAgent, Stopped
  <1>3. Sound(held) /\ Adjusts(u, held) /\ held.goalCanceled
    <2>1. /\ held \in UIs /\ SameTurn(u, held) /\ held.goals = u.goals
          /\ held.pending = u.pending /\ held.agentCancel = u.agentCancel
          /\ held.goal = u.goal /\ held.goalCanceled
      BY <1>1 DEF UIs, SameTurn
    <2> HIDE DEF held
    <2>2. Sound(held) /\ Cost(held) = Cost(u)
      BY <2>1 DEF Sound, SameTurn, Cost
    <2> QED BY <1>1, <2>1, <2>2 DEF Adjusts
  <1> HIDE DEF held, v
  <1>4. Adjusts(u, loop) /\ (GoalActive(u) => loop.goalCanceled)
    <2>1. CASE GoalActive(u)
      <3> DEFINE told == PublishGoal(held)
      <3>1. Adjusts(held, told) /\ SameGoal(held, told)
        BY <1>3, PublishGoalAdjusts
      <3> HIDE DEF told
      <3>2. Cost(held) \in Nat /\ Cost(told) \in Nat
        BY <1>3, <3>1, CostIsNat DEF Adjusts
      <3>3. Adjusts(u, told) /\ told.goalCanceled
        BY <1>1, <1>3, <3>1, <3>2 DEF Adjusts, SameTurn, SameGoal
      <3> QED BY <2>1, <3>3 DEF told
    <2>2. CASE ~GoalActive(u)
      BY <1>1, <2>2 DEF Adjusts, SameTurn
    <2> QED BY <2>1, <2>2
  <1> HIDE DEF loop
  <1>5. loop \in UIs
    BY <1>4 DEF Adjusts, Sound
  <1>6. /\ idle \in UIs /\ ~idle.running /\ idle.agentCancel = 0 /\ idle.agentCh = 0
        /\ idle.pending = loop.pending /\ SameGoal(loop, idle) /\ idle.goals = loop.goals
        /\ idle.started = loop.started
    BY <1>5 DEF UIs, SameGoal
  <1> HIDE DEF idle
  <1>7. Sound(idle) /\ Cost(idle) = Cost(loop)
    BY <1>1, <1>4, <1>6 DEF Sound, Cost, SameGoal, Adjusts, SameTurn
  <1>8. OnlyUsers(u) => OnlyUsers(idle)
    BY <1>4, <1>6 DEF OnlyUsers, Adjusts
  <1>9. /\ Leads(idle, v) /\ SameGoal(idle, v) /\ Cost(v) = Cost(idle)
        /\ v.running \/ v.pending = <<>>
        /\ OnlyUsers(idle) => OnlyUsers(v) /\ (v.started > idle.started => v.kind = "user")
    BY <1>2, <1>7, StartNextLeads
  <1>10. Replaces(u, v)
    BY <1>1, <1>4, <1>6, <1>7, <1>8, <1>9
       DEF Replaces, Leads, Adjusts, SameTurn, NextTurn, SameGoal, Orderly, Obeys
  <1>11. GoalActive(u) => v.goalCanceled
    BY <1>4, <1>6, <1>9 DEF SameGoal
  <1>12. OnlyUsers(u) /\ v.started > u.started => v.kind = "user"
    BY <1>4, <1>6, <1>8, <1>9 DEF Adjusts, SameTurn
  <1> QED BY <1>10, <1>11, <1>12 DEF v

-----------------------------------------------------------------------------
(***************************************************************************)
(* The invariant behind the types.  What the turns on show, in the queue   *)
(* and left to the goal cost is covered by the user's actions; a turn that *)
(* was not started has said nothing, and one that goes on has not said     *)
(* that it is done.                                                        *)
(***************************************************************************)
TurnStates == [state : {"unborn", "live", "ended"}, canceled : BOOLEAN,
               goal : 0 .. MaxActions, cycle : Nat, sent : 0 .. MaxOutputs,
               report : Nat, reported : BOOLEAN]

Messages == [done : BOOLEAN, err : {"none", "failed", "canceled"}]
Channels == [buf : Seq(Messages), closed : BOOLEAN]

GoesOn(ch) == ~ch.closed /\ \A i \in DOMAIN ch.buf : ~ch.buf[i].done

Covered(u, n) == Cost(u) <= n * GoalMaxCycles /\ u.goals <= n

TurnInv ==
    /\ Sound(ui) /\ Covered(ui, actions)
    /\ actions \in 0 .. MaxActions
    /\ turn \in [Turns -> TurnStates]
    /\ chan \in [Turns -> Channels]
    /\ \A t \in Turns : Len(chan[t].buf) <= Buffer
    /\ parked \in [Turns -> Nat] /\ draining \subseteq Turns
    /\ halted \in BOOLEAN /\ calm \in BOOLEAN /\ stranded \in BOOLEAN
    /\ \A t \in Turns :
          t > ui.started =>
             turn[t].state = "unborn" /\ chan[t].buf = <<>> /\ ~chan[t].closed
    /\ \A t \in Turns : Live(t) => GoesOn(chan[t])

\* The actions cover the turns: a turn that is started is one of Turns.
LEMMA CoveredIsTurn ==
    ASSUME NEW u, Sound(u), NEW n \in 0 .. MaxActions, Covered(u, n)
    PROVE  u.started \in {0} \union Turns /\ u.goals \in 0 .. MaxActions
  <1>1. /\ n \in Nat /\ n <= MaxActions /\ MaxActions \in Nat /\ GoalMaxCycles \in Nat
        /\ u.started \in Nat /\ u.goals \in Nat /\ u.goals <= n
    BY TurnLoopAssumption DEF Sound, UIs, Covered
  <1>2. \A a, b, c \in Nat : a <= b => a * c <= b * c
    OBVIOUS
  <1>3. n * GoalMaxCycles <= MaxActions * GoalMaxCycles
    BY <1>1, <1>2
  <1>4. n * GoalMaxCycles \in Nat /\ MaxActions * GoalMaxCycles \in Nat
    BY <1>1
  <1>5. u.started <= Cost(u) /\ Cost(u) \in Nat
    BY SoundNumbers
  <1>6. Cost(u) <= n * GoalMaxCycles
    BY DEF Covered
  <1>7. u.started <= MaxActions * GoalMaxCycles
    BY <1>1, <1>3, <1>4, <1>5, <1>6
  <1> QED BY <1>1, <1>4, <1>7 DEF Turns

\* One more action of the user covers the cycles of a goal, and so at least a prompt.
LEMMA ActCovers ==
    ASSUME TurnInv, Act, NEW u, Sound(u), u.goals <= ui.goals + 1,
           Cost(u) <= Cost(ui) + GoalMaxCycles
    PROVE  actions' \in 0 .. MaxActions /\ Covered(u, actions')
  <1>1. Sound(ui) /\ actions \in 0 .. MaxActions /\ ui.goals <= actions
    BY DEF TurnInv, Covered
  <1>2. MaxActions \in Nat /\ GoalMaxCycles \in Nat
    BY TurnLoopAssumption
  <1>3. ui.goals \in Nat /\ u.goals \in Nat
    BY <1>1 DEF Sound, UIs
  <1>4. actions \in Nat /\ actions' = actions + 1 /\ actions' \in 0 .. MaxActions
    BY <1>1, <1>2 DEF Act
  <1>5. u.goals <= actions'
    BY <1>1, <1>3, <1>4
  <1>6. Cost(u) \in Nat /\ Cost(ui) \in Nat /\ Cost(ui) <= actions * GoalMaxCycles
    BY CostIsNat DEF TurnInv, Covered
  <1>7. \A a, c \in Nat : (a + 1) * c = a * c + c /\ a * c \in Nat
    OBVIOUS
  <1>8. actions' * GoalMaxCycles = actions * GoalMaxCycles + GoalMaxCycles
    BY <1>2, <1>4, <1>7
  <1>9. actions * GoalMaxCycles \in Nat
    BY <1>2, <1>4, <1>7
  <1>10. Cost(u) <= actions' * GoalMaxCycles
    BY <1>2, <1>6, <1>8, <1>9
  <1> QED BY <1>4, <1>5, <1>10 DEF Covered

\* The channels lose messages at most.
Thins ==
    /\ chan' \in [Turns -> Channels]
    /\ \A t \in Turns :
          /\ Len(chan'[t].buf) <= Buffer /\ chan'[t].closed = chan[t].closed
          /\ chan[t].buf = <<>> => chan'[t].buf = <<>>
          /\ GoesOn(chan[t]) => GoesOn(chan'[t])

\* Channels that stay lose nothing.
LEMMA SameThins ==
    ASSUME TurnInv, UNCHANGED chan
    PROVE  Thins
  BY DEF TurnInv, Thins

\* A channel whose oldest message is taken loses that one.
LEMMA PopThins ==
    ASSUME TurnInv, NEW t \in Turns, PopMessage(t)
    PROVE  Thins
  <1> DEFINE b == chan[t].buf
             rest == IF b = <<>> THEN b ELSE Tail(b)
  <1>1. b \in Seq(Messages) /\ chan[t] \in Channels /\ Len(b) <= Buffer
    BY DEF TurnInv, Channels
  <1>2. /\ rest \in Seq(Messages) /\ Len(rest) <= Len(b)
        /\ b = <<>> => rest = <<>>
        /\ \A i \in DOMAIN rest : \E k \in DOMAIN b : rest[i] = b[k]
    <2>1. CASE b = <<>>
      BY <1>1, <2>1
    <2>2. CASE b # <<>>
      <3>1. /\ Tail(b) \in Seq(Messages) /\ Len(Tail(b)) = Len(b) - 1
            /\ \A i \in DOMAIN Tail(b) : i + 1 \in DOMAIN b /\ Tail(b)[i] = b[i + 1]
        BY <1>1, <2>2
      <3>2. rest = Tail(b) /\ Len(b) \in Nat
        BY <1>1, <2>2
      <3> HIDE DEF rest, b
      <3> QED BY <2>2, <3>1, <3>2
    <2> QED BY <2>1, <2>2
  <1>3. chan' = [chan EXCEPT ![t].buf = rest]
    BY DEF PopMessage
  <1> HIDE DEF rest
  <1>4. /\ chan'[t].buf = rest /\ chan'[t].closed = chan[t].closed
        /\ chan'[t] \in Channels
    BY <1>1, <1>2, <1>3 DEF TurnInv, Channels
  <1>5. /\ \A s \in Turns \ {t} : chan'[s] = chan[s]
        /\ chan' \in [Turns -> Channels]
    BY <1>3, <1>4 DEF TurnInv
  <1>6. Len(rest) <= Buffer /\ (GoesOn(chan[t]) => GoesOn(chan'[t]))
    <2>1. Len(rest) \in Nat /\ Len(b) \in Nat /\ Buffer \in Nat
      BY <1>1, <1>2, TurnLoopAssumption
    <2>2. Len(rest) <= Buffer
      BY <1>1, <1>2, <2>1
    <2> QED BY <1>2, <1>4, <2>2 DEF GoesOn
  <1> QED BY <1>2, <1>4, <1>5, <1>6 DEF Thins, TurnInv

\* A step of Update keeps the invariant.
LEMMA UpdateKeeps ==
    ASSUME TurnInv, NEW u, Sound(u), NEW stop, NEW readers \in [Turns -> Nat],
           Update(u, stop, readers), u.started \in {ui.started, ui.started + 1},
           actions' \in 0 .. MaxActions, Covered(u, actions'), Thins,
           draining' \subseteq Turns,
           halted' \in BOOLEAN, calm' \in BOOLEAN, stranded' \in BOOLEAN
    PROVE  TurnInv'
  <1>1. /\ ui' = u /\ ui.started \in Nat /\ u.started \in Nat
        /\ u.started \in {0} \union Turns
        /\ u.goals \in 0 .. MaxActions /\ u.goal.turn \in Nat
    BY CoveredIsTurn DEF TurnInv, Update, Sound, UIs, Goals
  <1>2. Sound(ui)' /\ Covered(ui, actions)'
    BY <1>1 DEF Sound, Covered, Cost, CyclesLeft
  <1>3. parked' \in [Turns -> Nat]
    BY <1>1 DEF Update
  <1>4. ASSUME NEW t \in Turns
        PROVE  /\ turn'[t] \in TurnStates
               /\ t > u.started => turn'[t].state = "unborn"
               /\ turn'[t].state = "live" =>
                     Live(t) \/ (turn[t].state = "unborn" /\ t > ui.started)
    <2>1. turn[t] \in TurnStates /\ t \in Nat
      BY DEF TurnInv, Turns
    <2>2. CASE t = u.started /\ u.started > ui.started
      <3>1. turn'[t] = [turn[t] EXCEPT !.state = "live", !.goal = u.goals,
                                       !.cycle = u.goal.turn]
        BY <2>2 DEF Update
      <3>2. turn[t].state = "unborn"
        BY <1>1, <2>2 DEF TurnInv
      <3>3. turn'[t] \in TurnStates /\ turn'[t].state = "live"
        BY <1>1, <2>1, <3>1 DEF TurnStates
      <3> QED BY <1>1, <2>1, <2>2, <3>2, <3>3
    <2>3. CASE ~(t = u.started /\ u.started > ui.started)
      <3> DEFINE stopped == turn[t].canceled \/ t \in stop
      <3>1. turn'[t] = [turn[t] EXCEPT !.canceled = stopped]
        BY <2>3 DEF Update
      <3>2. stopped \in BOOLEAN
        OBVIOUS
      <3> HIDE DEF stopped
      <3>3. turn'[t] \in TurnStates /\ turn'[t].state = turn[t].state
        BY <2>1, <3>1, <3>2 DEF TurnStates
      <3>4. t > u.started => turn[t].state = "unborn"
        BY <1>1, <2>1 DEF TurnInv
      <3> QED BY <3>3, <3>4 DEF Live
    <2> QED BY <2>2, <2>3
  <1>5. turn' \in [Turns -> TurnStates]
    <2>1. turn' = [t \in Turns |-> turn'[t]]
      BY DEF Update
    <2> QED BY <1>4, <2>1
  <1>6. ASSUME NEW t \in Turns, t > u.started
        PROVE  turn'[t].state = "unborn" /\ chan'[t].buf = <<>> /\ ~chan'[t].closed
    <2>1. t > ui.started
      BY <1>1, <1>6 DEF Turns
    <2> QED BY <1>4, <1>6, <2>1 DEF TurnInv, Thins
  <1>7. ASSUME NEW t \in Turns, turn'[t].state = "live"
        PROVE  GoesOn(chan'[t])
    <2>1. CASE Live(t)
      BY <2>1 DEF TurnInv, Thins
    <2>2. CASE t > ui.started
      <3>1. chan[t].buf = <<>> /\ ~chan[t].closed
        BY <2>2 DEF TurnInv
      <3>2. GoesOn(chan[t])
        BY <3>1 DEF GoesOn
      <3> QED BY <3>2 DEF Thins
    <2> QED BY <1>4, <1>7, <2>1, <2>2
  <1> QED BY <1>1, <1>2, <1>3, <1>5, <1>6, <1>7 DEF TurnInv, Thins, Live, GoesOn

-----------------------------------------------------------------------------
(***************************************************************************)
(* The whole invariant, and the step of a stopped goal loop.  A goal loop  *)
(* that the user stopped is marked as canceled, and until a clear leaves   *)
(* prompts behind only the user's prompts wait, behind a turn on show.     *)
(***************************************************************************)
StopInv == (halted => ui.goalCanceled) /\ (~stranded => Orderly(ui))

LoopInv == TurnInv /\ OneListener /\ StopInv

StopStep == ui'.started > ui.started /\ ui'.kind = "auto" /\ ~stranded => ~halted'

Step == LoopInv' /\ StopStep

\* What Update does to the turns and the readers.
LEMMA UpdateShape ==
    ASSUME TurnInv, NEW u, Sound(u), u.started \in {0} \union Turns, NEW stop, NEW readers,
           Update(u, stop, readers)
    PROVE  /\ ui' = u /\ ui.started \in Nat /\ u.started \in Nat /\ Sound(ui)
           /\ turn' = [t \in Turns |-> turn'[t]]
           /\ \A t \in Turns :
                 turn'[t].state = IF t = u.started /\ u.started > ui.started
                                  THEN "live" ELSE turn[t].state
           /\ IF u.started > ui.started
              THEN u.started \in Turns /\ parked' = [readers EXCEPT ![u.started] = 1]
              ELSE parked' = readers
  <1>1. /\ ui' = u /\ ui.started \in Nat /\ u.started \in Nat /\ Sound(ui)
        /\ turn' = [t \in Turns |-> turn'[t]]
    BY DEF TurnInv, Update, Sound, UIs
  <1>2. ASSUME NEW t \in Turns
        PROVE  turn'[t].state = IF t = u.started /\ u.started > ui.started
                                THEN "live" ELSE turn[t].state
    <2>1. turn[t] \in TurnStates
      BY DEF TurnInv
    <2>2. CASE t = u.started /\ u.started > ui.started
      <3>1. turn'[t] = [turn[t] EXCEPT !.state = "live", !.goal = u.goals,
                                       !.cycle = u.goal.turn]
        BY <2>2 DEF Update
      <3> QED BY <2>1, <2>2, <3>1 DEF TurnStates
    <2>3. CASE ~(t = u.started /\ u.started > ui.started)
      <3> DEFINE stopped == turn[t].canceled \/ t \in stop
      <3>1. turn'[t] = [turn[t] EXCEPT !.canceled = stopped]
        BY <2>3 DEF Update
      <3> HIDE DEF stopped
      <3>2. turn'[t].state = turn[t].state
        BY <2>1, <3>1 DEF TurnStates
      <3> QED BY <2>3, <3>2
    <2> QED BY <2>2, <2>3
  <1>3. parked' = IF u.started > ui.started
                  THEN [readers EXCEPT ![u.started] = 1]
                  ELSE readers
    BY Zenon DEF Update
  <1> QED BY <1>1, <1>2, <1>3

\* The reader of the turn on show stays, or an idle UI starts a turn with a reader.
LEMMA UserListens ==
    ASSUME TurnInv, OneListener, NEW u, Sound(u), u.started \in {0} \union Turns,
           NEW stop, Update(u, stop, parked), SameTurn(ui, u) \/ NextTurn(ui, u),
           calm' => calm
    PROVE  OneListener'
  <1>1. /\ ui' = u /\ ui.started \in Nat /\ u.started \in Nat
        /\ \A t \in Turns :
              turn'[t].state = IF t = u.started /\ u.started > ui.started
                               THEN "live" ELSE turn[t].state
        /\ IF u.started > ui.started
           THEN u.started \in Turns /\ parked' = [parked EXCEPT ![u.started] = 1]
           ELSE parked' = parked
    BY UpdateShape
  <1>2. CASE SameTurn(ui, u)
    <2>1. parked' = parked /\ \A t \in Turns : turn'[t].state = turn[t].state
      BY <1>1, <1>2 DEF SameTurn
    <2> QED BY <1>1, <1>2, <2>1 DEF OneListener, SameTurn, Live
  <1>3. CASE NextTurn(ui, u)
    <2>1. /\ parked' = [parked EXCEPT ![u.started] = 1] /\ u.started \in Turns
          /\ u.agentCh = u.started /\ u.running /\ ~ui.running
          /\ \A t \in Turns :
                turn'[t].state = IF t = u.started THEN "live" ELSE turn[t].state
      BY <1>1, <1>3 DEF NextTurn
    <2>2. parked \in [Turns -> Nat]
      BY DEF TurnInv
    <2>3. u.agentCh # 0 /\ parked'[u.agentCh] = 1
      BY <2>1, <2>2 DEF Turns
    <2>4. ASSUME calm', NEW t \in Turns
          PROVE  /\ parked'[t] = IF t = u.agentCh THEN 1 ELSE 0
                 /\ turn'[t].state = "live" => t = u.agentCh
      BY <2>1, <2>2, <2>4 DEF OneListener, Live
    <2> QED BY <1>1, <2>1, <2>3, <2>4 DEF OneListener, Live
  <1> QED BY <1>2, <1>3

\* The turn on show is gone: the UI is idle, or a new turn has its reader.
LEMMA ReplacedListens ==
    ASSUME TurnInv, NEW u, Sound(u), u.started \in {0} \union Turns,
           NEW stop, NEW readers \in [Turns -> Nat], Update(u, stop, readers),
           \/ ~u.running /\ u.started = ui.started
           \/ u.running /\ u.started = ui.started + 1 /\ u.agentCh = u.started,
           calm' => \A t \in Turns : readers[t] = 0 /\ ~Live(t)
    PROVE  OneListener'
  <1>1. /\ ui' = u /\ ui.started \in Nat
        /\ \A t \in Turns :
              turn'[t].state = IF t = u.started /\ u.started > ui.started
                               THEN "live" ELSE turn[t].state
        /\ IF u.started > ui.started
           THEN u.started \in Turns /\ parked' = [readers EXCEPT ![u.started] = 1]
           ELSE parked' = readers
    BY UpdateShape
  <1>2. CASE ~u.running /\ u.started = ui.started
    <2>1. parked' = readers /\ \A t \in Turns : turn'[t].state = turn[t].state
      BY <1>1, <1>2
    <2> QED BY <1>1, <1>2, <2>1 DEF OneListener, Live
  <1>3. CASE u.running /\ u.started = ui.started + 1 /\ u.agentCh = u.started
    <2>1. /\ parked' = [readers EXCEPT ![u.started] = 1] /\ u.started \in Turns
          /\ \A t \in Turns :
                turn'[t].state = IF t = u.started THEN "live" ELSE turn[t].state
      BY <1>1, <1>3
    <2>2. u.agentCh # 0 /\ parked'[u.agentCh] = 1
      BY <1>3, <2>1 DEF Turns
    <2>3. ASSUME calm', NEW t \in Turns
          PROVE  /\ parked'[t] = IF t = u.agentCh THEN 1 ELSE 0
                 /\ turn'[t].state = "live" => t = u.agentCh
      BY <1>3, <2>1, <2>3 DEF Live
    <2> QED BY <1>1, <1>3, <2>2, <2>3 DEF OneListener, Live
  <1> QED BY <1>2, <1>3

\* A user's action whose turn on show stays, or who starts one in an idle UI.
LEMMA UserUpdates ==
    ASSUME LoopInv, Act, NEW u, Sound(u), NEW stop, Update(u, stop, parked),
           SameTurn(ui, u) \/ NextTurn(ui, u), u.goals <= ui.goals + 1,
           Cost(u) <= Cost(ui) + GoalMaxCycles, UNCHANGED <<chan, draining, calm>>,
           halted' \in BOOLEAN, stranded' = stranded,
           halted' => u.goalCanceled,
           ~stranded => Orderly(u),
           u.started > ui.started /\ u.kind = "auto" /\ ~stranded => ~halted'
    PROVE  Step
  <1>1. actions' \in 0 .. MaxActions /\ Covered(u, actions')
    BY ActCovers DEF LoopInv
  <1>2. u.started \in {0} \union Turns
    BY <1>1, CoveredIsTurn
  <1>3. u.started \in {ui.started, ui.started + 1}
    BY DEF SameTurn, NextTurn
  <1>4. /\ parked \in [Turns -> Nat] /\ draining' \subseteq Turns /\ calm' \in BOOLEAN
        /\ stranded' \in BOOLEAN
    BY DEF LoopInv, TurnInv
  <1>5. Thins
    BY SameThins DEF LoopInv
  <1>6. TurnInv'
    BY <1>1, <1>3, <1>4, <1>5, UpdateKeeps DEF LoopInv
  <1>7. OneListener'
    BY <1>2, UserListens DEF LoopInv
  <1>8. ui' = u
    BY DEF Update
  <1> QED BY <1>6, <1>7, <1>8 DEF Step, LoopInv, StopInv, StopStep, Orderly, OnlyUsers

\* What the invariant says of the UI and of the bounds.
LEMMA TheBounds ==
    ASSUME LoopInv
    PROVE  /\ Sound(ui) /\ ui \in UIs /\ Cost(ui) \in Nat /\ ui.started \in Nat
           /\ ui.goals \in Nat /\ GoalMaxCycles \in Nat \ {0} /\ MaxPending \in Nat \ {0}
           /\ halted \in BOOLEAN /\ stranded \in BOOLEAN
           /\ ui.goal \in Goals
  BY CostIsNat, TurnLoopAssumption DEF LoopInv, TurnInv, Sound, UIs

\* A prompt of the user.
LEMMA SubmitPromptStep ==
    ASSUME LoopInv, SubmitPrompt
    PROVE  Step
  <1> DEFINE steers == ui.running /\ Len(ui.pending) < MaxPending
             steered == [ui EXCEPT !.agentCancel = 0, !.steering = TRUE]
             base == IF steers THEN steered ELSE ui
             u == Enqueue(base)
             stop == IF steers THEN Cancelable ELSE {}
  <1>1. /\ Act /\ Update(u, stop, parked)
        /\ UNCHANGED <<chan, draining, halted, calm, stranded>>
    BY DEF SubmitPrompt
  <1>2. /\ Sound(ui) /\ ui \in UIs /\ Cost(ui) \in Nat /\ ui.goals \in Nat
        /\ GoalMaxCycles \in Nat \ {0} /\ halted \in BOOLEAN
    BY TheBounds
  <1>3. /\ steered \in UIs /\ SameTurn(ui, steered) /\ steered.goals = ui.goals
        /\ steered.agentCancel = 0
        /\ steered.pending = ui.pending /\ SameGoal(ui, steered)
    BY <1>2 DEF UIs, SameTurn, SameGoal
  <1> HIDE DEF steered
  <1>4. Sound(steered) /\ Cost(steered) = Cost(ui)
    BY <1>2, <1>3 DEF Sound, SameTurn, SameGoal, Cost, UIs
  <1>5. /\ Sound(base) /\ SameTurn(ui, base) /\ base.goals = ui.goals
        /\ SameGoal(ui, base) /\ Cost(base) = Cost(ui) /\ base.pending = ui.pending
    BY <1>2, <1>3, <1>4 DEF SameTurn, SameGoal
  <1> HIDE DEF base, stop
  <1>6. /\ Leads(base, u) /\ SameGoal(base, u) /\ Cost(u) <= Cost(base) + 1
        /\ Orderly(base) => Orderly(u) /\ (u.started > base.started => u.kind = "user")
    BY <1>5, EnqueueLeads
  <1> HIDE DEF u
  <1>7. /\ Sound(u) /\ (SameTurn(ui, u) \/ NextTurn(ui, u)) /\ u.goals = ui.goals
        /\ Cost(u) \in Nat
    BY <1>5, <1>6, CostIsNat DEF Leads, SameTurn, NextTurn
  <1>8. u.goals <= ui.goals + 1 /\ Cost(u) <= Cost(ui) + GoalMaxCycles
    BY <1>2, <1>5, <1>6, <1>7
  <1>9. ~stranded => Orderly(base)
    BY <1>5 DEF LoopInv, StopInv, Orderly, OnlyUsers, SameTurn
  <1>10. halted' => u.goalCanceled
    BY <1>1, <1>5, <1>6 DEF LoopInv, StopInv, SameGoal
  <1>11. u.started > ui.started /\ u.kind = "auto" /\ ~stranded => ~halted'
    BY <1>5, <1>6, <1>9 DEF SameTurn
  <1> QED BY <1>1, <1>2, <1>6, <1>7, <1>8, <1>9, <1>10, <1>11, UserUpdates

\* /retry.
LEMMA RetryStep ==
    ASSUME LoopInv, Retry
    PROVE  Step
  <1> DEFINE base == [ui EXCEPT !.pending = <<>>]
             u == Enqueue(base)
             stop == {}
  <1>1. /\ Act /\ Update(u, stop, parked)
        /\ UNCHANGED <<chan, draining, halted, calm, stranded>>
    BY DEF Retry
  <1>2. /\ Sound(ui) /\ ui \in UIs /\ Cost(ui) \in Nat /\ ui.goals \in Nat
        /\ GoalMaxCycles \in Nat \ {0} /\ MaxPending \in Nat \ {0} /\ halted \in BOOLEAN
    BY TheBounds
  <1>3. /\ base \in UIs /\ SameTurn(ui, base) /\ base.goals = ui.goals
        /\ base.agentCancel = ui.agentCancel /\ base.pending = <<>> /\ SameGoal(ui, base)
    <2>1. <<>> \in Seq({"user", "auto"})
      OBVIOUS
    <2> QED BY <1>2, <2>1 DEF UIs, SameTurn, SameGoal
  <1> HIDE DEF base, stop
  <1>4. Sound(base)
    BY <1>2, <1>3 DEF Sound, SameTurn, SameGoal
  <1>5. Cost(base) <= Cost(ui) /\ Cost(base) \in Nat
    <2>1. base.started = ui.started /\ Len(base.pending) = 0 /\ base.goal = ui.goal
      BY <1>3 DEF SameTurn, SameGoal
    <2>2. /\ Cost(base) = ui.started + 0 + CyclesLeft(ui.goal)
          /\ Cost(base) \in Nat
      BY <1>4, <2>1, SoundNumbers
    <2>3. /\ Cost(ui) = ui.started + Len(ui.pending) + CyclesLeft(ui.goal)
          /\ ui.started \in Nat /\ CyclesLeft(ui.goal) \in Nat /\ Len(ui.pending) \in Nat
      BY <1>2, SoundNumbers
    <2> QED BY <2>2, <2>3
  <1>6. /\ Leads(base, u) /\ SameGoal(base, u) /\ Cost(u) <= Cost(base) + 1
        /\ Orderly(base) => Orderly(u) /\ (u.started > base.started => u.kind = "user")
    BY <1>4, EnqueueLeads
  <1> HIDE DEF u
  <1>7. /\ Sound(u) /\ (SameTurn(ui, u) \/ NextTurn(ui, u)) /\ u.goals = ui.goals
        /\ Cost(u) \in Nat
    BY <1>3, <1>6, CostIsNat DEF Leads, SameTurn, NextTurn
  <1>8. u.goals <= ui.goals + 1 /\ Cost(u) <= Cost(ui) + GoalMaxCycles
    BY <1>2, <1>5, <1>6, <1>7
  <1>9. Orderly(base)
    BY <1>3 DEF Orderly, OnlyUsers
  <1>10. halted' => u.goalCanceled
    BY <1>1, <1>3, <1>6 DEF LoopInv, StopInv, SameGoal
  <1>11. u.started > ui.started /\ u.kind = "auto" /\ ~stranded => ~halted'
    BY <1>3, <1>6, <1>9 DEF SameTurn
  <1> QED BY <1>1, <1>2, <1>6, <1>7, <1>8, <1>9, <1>10, <1>11, UserUpdates

\* Esc, and the first Ctrl+C.
LEMMA EscapeStep ==
    ASSUME LoopInv, Escape
    PROVE  Step
  <1> DEFINE u == CancelAgent(ui)
  <1>1. /\ Act /\ Update(u, Cancelable, parked) /\ calm' = FALSE
        /\ draining' = draining \union ({ui.agentCh} \ {0})
        /\ halted' = (halted \/ GoalActive(ui))
        /\ UNCHANGED <<chan, stranded>>
    BY DEF Escape
  <1>2. /\ Sound(ui) /\ ui \in UIs /\ Cost(ui) \in Nat /\ ui.goals \in Nat
        /\ ui.started \in Nat /\ GoalMaxCycles \in Nat \ {0}
        /\ halted \in BOOLEAN /\ stranded \in BOOLEAN
    BY TheBounds
  <1>3. /\ Replaces(ui, u) /\ (GoalActive(ui) => u.goalCanceled)
        /\ OnlyUsers(ui) /\ u.started > ui.started => u.kind = "user"
    BY <1>2, CancelAgentReplaces
  <1> HIDE DEF u
  <1>4. Sound(u) /\ Cost(u) \in Nat /\ u.goals = ui.goals /\ Cost(u) <= Cost(ui)
    BY <1>3, CostIsNat DEF Replaces
  <1>5. actions' \in 0 .. MaxActions /\ Covered(u, actions')
    <2>1. u.goals <= ui.goals + 1 /\ Cost(u) <= Cost(ui) + GoalMaxCycles
      BY <1>2, <1>4
    <2> QED BY <1>1, <1>4, <2>1, ActCovers DEF LoopInv
  <1>6. u.started \in {0} \union Turns
    BY <1>4, <1>5, CoveredIsTurn
  <1>7. Thins
    BY <1>1, SameThins DEF LoopInv
  <1>8. draining' \subseteq Turns
    <2>1. ui.agentCh \in Nat /\ ui.agentCh <= ui.started
      BY <1>2 DEF Sound, UIs
    <2>2. ui.started \in {0} \union Turns
      BY CoveredIsTurn DEF LoopInv, TurnInv
    <2>3. MaxActions * GoalMaxCycles \in Nat
      BY TurnLoopAssumption
    <2>4. ui.agentCh \in {0} \union Turns
      BY <1>2, <2>1, <2>2, <2>3 DEF Turns
    <2> QED BY <1>1, <2>4 DEF LoopInv, TurnInv
  <1>9. parked \in [Turns -> Nat]
    BY DEF LoopInv, TurnInv
  <1>10. /\ halted' \in BOOLEAN /\ calm' \in BOOLEAN /\ stranded' \in BOOLEAN
         /\ u.started \in {ui.started, ui.started + 1}
    BY <1>1, <1>2, <1>3 DEF Replaces, GoalActive
  <1>11. TurnInv'
    BY <1>1, <1>4, <1>5, <1>7, <1>8, <1>9, <1>10, UpdateKeeps DEF LoopInv
  <1>12. OneListener'
    <2>1. \/ ~u.running /\ u.started = ui.started
          \/ u.running /\ u.started = ui.started + 1 /\ u.agentCh = u.started
      BY <1>3 DEF Replaces
    <2> QED BY <1>1, <1>4, <1>6, <1>9, <2>1, ReplacedListens DEF LoopInv
  <1>13. ui' = u
    BY <1>1 DEF Update
  <1>14. (halted' => u.goalCanceled) /\ (~stranded => Orderly(u))
    BY <1>1, <1>3 DEF LoopInv, StopInv, Replaces, Orderly
  <1>15. StopInv'
    BY <1>1, <1>13, <1>14 DEF StopInv, Orderly, OnlyUsers
  <1>16. u.started > ui.started /\ u.kind = "auto" => stranded
    BY <1>3 DEF LoopInv, StopInv, Orderly
  <1> QED BY <1>11, <1>12, <1>13, <1>15, <1>16 DEF Step, LoopInv, StopStep

\* The clear from the gauge.
LEMMA ClickClearStep ==
    ASSUME LoopInv, ClickClear
    PROVE  Step
  <1> DEFINE u == [ui EXCEPT !.running = FALSE, !.lastPrompt = FALSE, !.lastFailed = FALSE]
             stop == {}
  <1>1. /\ Act /\ Update(u, stop, parked) /\ calm' = FALSE
        /\ stranded' = (stranded \/ ui.pending # <<>>)
        /\ UNCHANGED <<chan, draining, halted>>
    BY DEF ClickClear
  <1>2. /\ Sound(ui) /\ ui \in UIs /\ Cost(ui) \in Nat /\ ui.goals \in Nat
        /\ ui.started \in Nat /\ GoalMaxCycles \in Nat \ {0}
        /\ halted \in BOOLEAN /\ stranded \in BOOLEAN
    BY TheBounds
  <1>3. /\ u \in UIs /\ ~u.running /\ u.started = ui.started /\ u.goals = ui.goals
        /\ u.agentCh = ui.agentCh
        /\ u.agentCancel = ui.agentCancel /\ u.pending = ui.pending /\ SameGoal(ui, u)
    BY <1>2 DEF UIs, SameGoal
  <1> HIDE DEF u, stop
  <1>4. Sound(u) /\ Cost(u) = Cost(ui)
    BY <1>2, <1>3 DEF Sound, SameGoal, Cost
  <1>5. actions' \in 0 .. MaxActions /\ Covered(u, actions')
    <2>1. u.goals <= ui.goals + 1 /\ Cost(u) <= Cost(ui) + GoalMaxCycles
      BY <1>2, <1>3, <1>4
    <2> QED BY <1>1, <1>4, <2>1, ActCovers DEF LoopInv
  <1>6. u.started \in {0} \union Turns
    BY <1>4, <1>5, CoveredIsTurn
  <1>7. Thins
    BY <1>1, SameThins DEF LoopInv
  <1>8. parked \in [Turns -> Nat] /\ draining' \subseteq Turns
    BY <1>1 DEF LoopInv, TurnInv
  <1>9. halted' \in BOOLEAN /\ calm' \in BOOLEAN /\ stranded' \in BOOLEAN
    BY <1>1, <1>2
  <1>10. TurnInv'
    BY <1>1, <1>3, <1>4, <1>5, <1>7, <1>8, <1>9, UpdateKeeps DEF LoopInv
  <1>11. OneListener'
    BY <1>1, <1>3, <1>4, <1>6, <1>8, ReplacedListens DEF LoopInv
  <1>12. ui' = u
    BY <1>1 DEF Update
  <1>13. (halted' => u.goalCanceled) /\ (~stranded' => Orderly(u))
    BY <1>1, <1>3 DEF LoopInv, StopInv, SameGoal, Orderly, OnlyUsers
  <1>14. StopInv'
    BY <1>12, <1>13 DEF StopInv, Orderly, OnlyUsers
  <1> QED BY <1>2, <1>3, <1>10, <1>11, <1>12, <1>14 DEF Step, LoopInv, StopStep

\* A new goal.
LEMMA SetGoalStep ==
    ASSUME LoopInv, SetGoal
    PROVE  Step
  <1> DEFINE new == [status |-> "active", cycles |-> 0, max |-> GoalMaxCycles,
                     turn |-> 0, by |-> 0]
             count == ui.goals + 1
             placed == [ui EXCEPT !.goal = new, !.goalCanceled = FALSE, !.goals = count]
             set == DropReport(placed)
             u == BeginGoalCycle(set)
             stop == {}
  <1>1. /\ Act /\ Update(u, stop, parked) /\ halted' = FALSE /\ ~ui.running
        /\ UNCHANGED <<chan, draining, calm, stranded>>
    BY DEF SetGoal, SlashAllowed
  <1>2. /\ Sound(ui) /\ ui \in UIs /\ Cost(ui) \in Nat /\ ui.goals \in Nat
        /\ ui.started \in Nat /\ GoalMaxCycles \in Nat \ {0}
        /\ halted \in BOOLEAN /\ stranded \in BOOLEAN /\ ui.goal \in Goals
    BY TheBounds
  <1>3. /\ new \in Goals /\ new.cycles = 0 /\ new.max = GoalMaxCycles
        /\ new.status = "active" /\ count \in Nat /\ count = ui.goals + 1
    BY <1>2 DEF Goals
  <1> HIDE DEF new, stop, count
  <1>4. /\ placed \in UIs /\ SameTurn(ui, placed) /\ placed.goals = count
        /\ placed.agentCancel = ui.agentCancel /\ placed.pending = ui.pending
        /\ placed.goal = new
    BY <1>2, <1>3 DEF UIs, SameTurn
  <1> HIDE DEF placed
  <1>5. Sound(placed)
    BY <1>2, <1>3, <1>4 DEF Sound, SameTurn
  <1>6. Cost(placed) <= Cost(ui) + GoalMaxCycles
    <2>1. /\ Cost(placed) = ui.started + Len(ui.pending) + CyclesLeft(new)
          /\ CyclesLeft(new) = GoalMaxCycles
      BY <1>2, <1>3, <1>4 DEF Cost, SameTurn, CyclesLeft
    <2>2. /\ Cost(ui) = ui.started + Len(ui.pending) + CyclesLeft(ui.goal)
          /\ CyclesLeft(ui.goal) \in Nat /\ Len(ui.pending) \in Nat
      BY <1>2, SoundNumbers
    <2> QED BY <1>2, <2>1, <2>2
  <1>7. Adjusts(placed, set) /\ Cost(set) = Cost(placed)
    BY <1>5, DropReportAdjusts
  <1> HIDE DEF set
  <1>8. /\ Leads(set, u) /\ Cost(u) <= Cost(set)
        /\ set.pending = <<>> => u.pending = <<>>
    BY <1>1, <1>4, <1>7, BeginGoalCycleLeads DEF Adjusts, SameTurn
  <1> HIDE DEF u
  <1>9. Sound(u) /\ (SameTurn(ui, u) \/ NextTurn(ui, u)) /\ u.goals = ui.goals + 1
    BY <1>3, <1>4, <1>7, <1>8 DEF Leads, SameTurn, NextTurn, Adjusts
  <1>10. Cost(u) \in Nat /\ Cost(placed) \in Nat
    BY <1>5, <1>9, CostIsNat
  <1>11. u.goals <= ui.goals + 1 /\ Cost(u) <= Cost(ui) + GoalMaxCycles
    BY <1>2, <1>6, <1>7, <1>8, <1>9, <1>10
  <1>12. ~stranded => Orderly(u)
    BY <1>1, <1>4, <1>7, <1>8 DEF LoopInv, StopInv, Orderly, OnlyUsers, Adjusts
  <1> QED BY <1>1, <1>9, <1>11, <1>12, UserUpdates

\* A user's action that changes the goal's fields only.
LEMMA GoalFieldStep ==
    ASSUME LoopInv, Act, NEW u, Sound(u), NEW stop, Update(u, stop, parked), SameTurn(ui, u),
           u.goals = ui.goals, u.pending = ui.pending, Cost(u) <= Cost(ui),
           UNCHANGED <<chan, draining, calm, stranded>>, halted' = TRUE, u.goalCanceled
    PROVE  Step
  <1>1. /\ Cost(ui) \in Nat /\ ui.goals \in Nat /\ ui.started \in Nat
        /\ GoalMaxCycles \in Nat \ {0} /\ Cost(u) \in Nat
    BY TheBounds, CostIsNat
  <1>2. u.goals <= ui.goals + 1 /\ Cost(u) <= Cost(ui) + GoalMaxCycles
    BY <1>1
  <1>3. ~stranded => Orderly(u)
    BY DEF LoopInv, StopInv, Orderly, OnlyUsers, SameTurn
  <1>4. ~(u.started > ui.started)
    BY <1>1 DEF SameTurn
  <1> QED BY <1>2, <1>3, <1>4, UserUpdates

\* /goal clear.
LEMMA ClearGoalStep ==
    ASSUME LoopInv, ClearGoal
    PROVE  Step
  <1> DEFINE cleared == [ui EXCEPT !.goal = NoGoal, !.goalCanceled = TRUE]
             u == DropReport(cleared)
             stop == {}
  <1>1. /\ Act /\ Update(u, stop, parked) /\ halted' = TRUE
        /\ UNCHANGED <<chan, draining, calm, stranded>>
    BY DEF ClearGoal
  <1>2. Sound(ui) /\ ui \in UIs /\ Cost(ui) \in Nat /\ ui.started \in Nat /\ ui.goal \in Goals
    BY TheBounds
  <1>3. NoGoal \in Goals /\ NoGoal.cycles = 0 /\ NoGoal.max = 0 /\ NoGoal.status = "none"
    BY DEF NoGoal, Goals
  <1>4. /\ cleared \in UIs /\ SameTurn(ui, cleared) /\ cleared.goals = ui.goals
        /\ cleared.agentCancel = ui.agentCancel /\ cleared.pending = ui.pending
        /\ cleared.goal = NoGoal /\ cleared.goalCanceled
    BY <1>2, <1>3 DEF UIs, SameTurn
  <1> HIDE DEF cleared, stop
  <1>5. Sound(cleared)
    BY <1>2, <1>3, <1>4 DEF Sound, SameTurn
  <1>6. Cost(cleared) <= Cost(ui)
    <2>1. /\ Cost(cleared) = ui.started + Len(ui.pending) + CyclesLeft(NoGoal)
          /\ CyclesLeft(NoGoal) = 0
      BY <1>3, <1>4 DEF Cost, SameTurn, CyclesLeft
    <2>2. /\ Cost(ui) = ui.started + Len(ui.pending) + CyclesLeft(ui.goal)
          /\ CyclesLeft(ui.goal) \in Nat /\ Len(ui.pending) \in Nat
      BY <1>2, SoundNumbers
    <2> QED BY <1>2, <2>1, <2>2
  <1>7. Adjusts(cleared, u) /\ Cost(u) = Cost(cleared)
    BY <1>5, DropReportAdjusts
  <1> HIDE DEF u
  <1>8. /\ Sound(u) /\ SameTurn(ui, u) /\ u.goals = ui.goals /\ u.pending = ui.pending
        /\ u.goalCanceled /\ Cost(u) <= Cost(ui)
    BY <1>4, <1>6, <1>7 DEF Adjusts, SameTurn
  <1> QED BY <1>1, <1>8, GoalFieldStep

\* /goal pause.
LEMMA PauseGoalStep ==
    ASSUME LoopInv, PauseGoal
    PROVE  Step
  <1> DEFINE u == [ui EXCEPT !.goal.status = "paused", !.goalCanceled = TRUE]
             stop == {}
  <1>1. /\ Act /\ Update(u, stop, parked) /\ halted' = TRUE /\ ui.goal.status = "active"
        /\ UNCHANGED <<chan, draining, calm, stranded>>
    BY DEF PauseGoal, GoalActive
  <1>2. Sound(ui) /\ ui \in UIs /\ Cost(ui) \in Nat /\ ui.goal \in Goals
    BY TheBounds
  <1>3. /\ u \in UIs /\ SameTurn(ui, u) /\ u.goals = ui.goals
        /\ u.agentCancel = ui.agentCancel /\ u.pending = ui.pending
        /\ u.goal.status = "paused" /\ u.goal.cycles = ui.goal.cycles
        /\ u.goal.max = ui.goal.max /\ u.goalCanceled
    BY <1>2 DEF UIs, Goals, SameTurn
  <1> HIDE DEF u, stop
  <1>4. Sound(u)
    BY <1>2, <1>3 DEF Sound, SameTurn
  <1>5. Cost(u) = Cost(ui)
    <2>1. CyclesLeft(u.goal) = CyclesLeft(ui.goal)
      BY <1>1, <1>3 DEF CyclesLeft
    <2> QED BY <1>3, <2>1 DEF Cost, SameTurn
  <1> QED BY <1>1, <1>2, <1>3, <1>4, <1>5, GoalFieldStep

\* /goal resume.
LEMMA ResumeGoalStep ==
    ASSUME LoopInv, ResumeGoal
    PROVE  Step
  <1> DEFINE spent == ui.goal.cycles >= ui.goal.max
             renewed == IF spent THEN ui.goal.cycles + GoalMaxCycles ELSE ui.goal.max
             base == [ui EXCEPT !.goal.status = "active", !.goal.max = renewed,
                                !.goalCanceled = FALSE]
             u == BeginGoalCycle(base)
             stop == {}
  <1>1. /\ Act /\ Update(u, stop, parked) /\ halted' = FALSE /\ ~ui.running
        /\ ui.goal.status \in {"active", "paused"}
        /\ UNCHANGED <<chan, draining, calm, stranded>>
    BY DEF ResumeGoal, SlashAllowed, GoalActive
  <1>2. /\ Sound(ui) /\ ui \in UIs /\ Cost(ui) \in Nat /\ ui.goals \in Nat
        /\ ui.started \in Nat /\ GoalMaxCycles \in Nat \ {0}
        /\ halted \in BOOLEAN /\ stranded \in BOOLEAN /\ ui.goal \in Goals
    BY TheBounds
  <1>3. /\ ui.goal.cycles \in Nat /\ ui.goal.max \in Nat /\ ui.goal.cycles <= ui.goal.max
        /\ Len(ui.pending) \in Nat
    BY <1>2 DEF Sound, UIs, Goals
  <1>4. /\ renewed \in Nat /\ ui.goal.cycles <= renewed
        /\ renewed <= ui.goal.max + GoalMaxCycles
    <2>1. CASE spent
      BY <1>2, <1>3, <2>1
    <2>2. CASE ~spent
      BY <1>2, <1>3, <2>2
    <2> QED BY <2>1, <2>2
  <1> HIDE DEF renewed, stop
  <1>5. /\ base \in UIs /\ SameTurn(ui, base) /\ base.goals = ui.goals
        /\ base.agentCancel = ui.agentCancel /\ base.pending = ui.pending
        /\ base.goal.status = "active" /\ base.goal.cycles = ui.goal.cycles
        /\ base.goal.max = renewed
    BY <1>2, <1>4 DEF UIs, Goals, SameTurn
  <1> HIDE DEF base
  <1>6. Sound(base)
    BY <1>2, <1>4, <1>5 DEF Sound, SameTurn
  <1>7. Cost(base) <= Cost(ui) + GoalMaxCycles
    BY <1>1, <1>2, <1>4, <1>5, <1>6, CostOfResume DEF SameTurn
  <1>8. /\ Leads(base, u) /\ Cost(u) <= Cost(base)
        /\ base.pending = <<>> => u.pending = <<>>
    BY <1>1, <1>5, <1>6, BeginGoalCycleLeads DEF SameTurn
  <1> HIDE DEF u
  <1>9. Sound(u) /\ (SameTurn(ui, u) \/ NextTurn(ui, u)) /\ u.goals = ui.goals
    BY <1>5, <1>8 DEF Leads, SameTurn, NextTurn
  <1>10. Cost(u) \in Nat /\ Cost(base) \in Nat
    BY <1>6, <1>9, CostIsNat
  <1>11. u.goals <= ui.goals + 1 /\ Cost(u) <= Cost(ui) + GoalMaxCycles
    BY <1>2, <1>7, <1>8, <1>9, <1>10
  <1>12. ~stranded => Orderly(u)
    BY <1>1, <1>5, <1>8 DEF LoopInv, StopInv, Orderly, OnlyUsers
  <1> QED BY <1>1, <1>9, <1>11, <1>12, UserUpdates

-----------------------------------------------------------------------------
(***************************************************************************)
(* The turns, and the delivery of what they say.                           *)
(***************************************************************************)
\* A step of a turn that goes on or ends; Update's part changes in the slot at most.
LEMMA LiveTurnStep ==
    ASSUME LoopInv, NEW t \in Turns, Live(t),
           NEW row \in TurnStates, turn' = [turn EXCEPT ![t] = row],
           NEW ch \in Channels, chan' = [chan EXCEPT ![t] = ch],
           Len(ch.buf) <= Buffer, row.state = "live" => GoesOn(ch),
           NEW u, ui' = u, Sound(u), SameTurn(ui, u), u.goals = ui.goals,
           u.pending = ui.pending, SameGoal(ui, u), UNCHANGED <<parked, draining, history>>
    PROVE  Step
  <1>1. /\ ui.started \in Nat /\ parked \in [Turns -> Nat]
        /\ turn \in [Turns -> TurnStates] /\ chan \in [Turns -> Channels]
        /\ UNCHANGED <<parked, draining, halted, calm, stranded, actions>>
    BY TheBounds DEF LoopInv, TurnInv, history
  <1>2. ~(t > ui.started)
    BY DEF LoopInv, TurnInv, Live
  <1>3. Sound(ui)' /\ Covered(ui, actions)'
    BY <1>1 DEF LoopInv, TurnInv, Covered, Cost, SameTurn, SameGoal, Sound
  <1>4. \A s \in Turns : s # t => turn'[s] = turn[s] /\ chan'[s] = chan[s]
    BY <1>1
  <1>5. turn'[t] = row /\ chan'[t] = ch
    BY <1>1
  <1>6. TurnInv'
    <2>1. turn' \in [Turns -> TurnStates] /\ chan' \in [Turns -> Channels]
      BY <1>1
    <2>2. \A s \in Turns : Len(chan'[s].buf) <= Buffer
      BY <1>4, <1>5 DEF LoopInv, TurnInv
    <2>3. \A s \in Turns :
            s > u.started =>
                turn'[s].state = "unborn" /\ chan'[s].buf = <<>> /\ ~chan'[s].closed
      BY <1>2, <1>4 DEF LoopInv, TurnInv, SameTurn
    <2>4. \A s \in Turns : turn'[s].state = "live" => GoesOn(chan'[s])
      BY <1>4, <1>5 DEF LoopInv, TurnInv, Live
    <2>5. /\ actions' \in 0 .. MaxActions /\ parked' \in [Turns -> Nat]
          /\ draining' \subseteq Turns
          /\ halted' \in BOOLEAN /\ calm' \in BOOLEAN /\ stranded' \in BOOLEAN
      BY <1>1 DEF LoopInv, TurnInv
    <2> QED BY <1>3, <2>1, <2>2, <2>3, <2>4, <2>5 DEF TurnInv, Live, GoesOn
  <1>7. OneListener'
    <2>1. \A s \in Turns : turn'[s].state = "live" => Live(s)
      BY <1>4 DEF Live
    <2> QED BY <1>1, <2>1 DEF LoopInv, OneListener, Live, SameTurn
  <1>8. StopInv'
    BY <1>1 DEF LoopInv, StopInv, SameGoal, SameTurn, Orderly, OnlyUsers
  <1> QED BY <1>1, <1>6, <1>7, <1>8 DEF Step, LoopInv, StopStep, SameTurn

\* The steps of a turn.
LEMMA TurnSteps ==
    ASSUME LoopInv, NEW t \in Turns, TurnStep(t)
    PROVE  Step
  <1>1. /\ Sound(ui) /\ ui.started \in Nat /\ turn[t] \in TurnStates
        /\ chan[t] \in Channels /\ chan[t].buf \in Seq(Messages) /\ Len(chan[t].buf) <= Buffer
        /\ chan \in [Turns -> Channels] /\ turn \in [Turns -> TurnStates]
    BY TheBounds DEF LoopInv, TurnInv, Channels
  <1>2. SameTurn(ui, ui) /\ SameGoal(ui, ui)
    BY DEF SameTurn, SameGoal
  <1>3. Buffer \in Nat /\ MaxOutputs \in Nat /\ Len(chan[t].buf) \in Nat
    BY <1>1, TurnLoopAssumption
  <1>4. Live(t) => GoesOn(chan[t])
    BY DEF LoopInv, TurnInv
  <1>5. chan = [chan EXCEPT ![t] = chan[t]]
    BY <1>1
  <1>6. CASE Emit(t)
    <2> DEFINE row == [turn[t] EXCEPT !.sent = @ + 1]
               buf == Append(chan[t].buf, Output)
               ch == [chan[t] EXCEPT !.buf = buf]
    <2>1. /\ Live(t) /\ Len(chan[t].buf) < Buffer /\ turn[t].sent < MaxOutputs
          /\ turn' = [turn EXCEPT ![t] = row] /\ chan' = [chan EXCEPT ![t] = ch]
          /\ UNCHANGED <<ui, parked, draining, history>>
      BY <1>6 DEF Emit, HasRoom
    <2>2. row \in TurnStates
      <3>1. turn[t].sent + 1 \in 0 .. MaxOutputs
        BY <1>1, <1>3, <2>1 DEF TurnStates
      <3> QED BY <1>1, <3>1 DEF TurnStates
    <2>3. Output \in Messages /\ Output.done = FALSE
      BY DEF Output, Messages
    <2>4. /\ buf \in Seq(Messages) /\ Len(buf) = Len(chan[t].buf) + 1
          /\ \A i \in DOMAIN buf :
                IF i = Len(chan[t].buf) + 1
                THEN buf[i] = Output
                ELSE i \in DOMAIN chan[t].buf /\ buf[i] = chan[t].buf[i]
      BY <1>1, <2>3
    <2> HIDE DEF buf, row
    <2>5. ch \in Channels /\ ch.buf = buf /\ ch.closed = chan[t].closed
      BY <1>1, <2>4 DEF Channels
    <2> HIDE DEF ch
    <2>6. Len(ch.buf) <= Buffer /\ GoesOn(ch)
      BY <1>3, <1>4, <2>1, <2>3, <2>4, <2>5 DEF GoesOn
    <2> QED BY <1>1, <1>2, <2>1, <2>2, <2>5, <2>6, LiveTurnStep
  <1>7. ASSUME NEW last \in Seq(Messages), Len(chan[t].buf) + Len(last) <= Buffer, End(t, last)
        PROVE  Step
    <2> DEFINE row == [turn[t] EXCEPT !.state = "ended", !.sent = 0, !.canceled = FALSE]
               ch == [buf |-> chan[t].buf \o last, closed |-> TRUE]
    <2>1. /\ Live(t)
          /\ turn' = [turn EXCEPT ![t] = row] /\ chan' = [chan EXCEPT ![t] = ch]
          /\ UNCHANGED <<ui, parked, draining, history>>
      BY <1>7 DEF End
    <2>2. row \in TurnStates /\ row.state = "ended"
      <3>1. 0 \in 0 .. MaxOutputs
        BY <1>3
      <3> QED BY <1>1, <3>1 DEF TurnStates
    <2>3. ch \in Channels /\ Len(ch.buf) <= Buffer
      BY <1>1, <1>7 DEF Channels
    <2> HIDE DEF row, ch
    <2> QED BY <1>1, <1>2, <2>1, <2>2, <2>3, LiveTurnStep
  <1>8. CASE Finish(t)
    <2>1. <<>> \in Seq(Messages) /\ Len(chan[t].buf) + Len(<<>>) <= Buffer
      BY <1>1, <1>3
    <2> QED BY <1>7, <1>8, <2>1 DEF Finish
  <1>9. CASE Fail(t)
    <2>1. PICK err \in {"failed", "canceled"} : End(t, <<Done(err)>>)
      BY <1>9 DEF Fail
    <2>2. Done(err) \in Messages
      BY DEF Done, Messages
    <2>3. <<Done(err)>> \in Seq(Messages) /\ Len(<<Done(err)>>) = 1
      BY <2>2
    <2>4. Len(chan[t].buf) < Buffer
      BY <1>9 DEF Fail, HasRoom
    <2>5. Len(chan[t].buf) + Len(<<Done(err)>>) <= Buffer
      BY <1>3, <2>3, <2>4
    <2> QED BY <1>7, <2>1, <2>3, <2>5
  <1>10. CASE CheckReport(t)
    <2> DEFINE row == [turn[t] EXCEPT !.report = ui.tool.turn, !.reported = TRUE]
    <2>1. /\ Live(t) /\ turn' = [turn EXCEPT ![t] = row]
          /\ UNCHANGED <<ui, chan, parked, draining, history>>
      BY <1>10 DEF CheckReport
    <2>2. ui.tool.turn \in Nat
      BY <1>1 DEF Sound, UIs
    <2>3. row \in TurnStates
      BY <1>1, <2>2 DEF TurnStates
    <2> HIDE DEF row
    <2>4. chan' = [chan EXCEPT ![t] = chan[t]]
      BY <1>5, <2>1
    <2> QED BY <1>1, <1>2, <1>4, <2>1, <2>3, <2>4, LiveTurnStep
  <1>11. CASE StoreReport(t)
    <2> DEFINE row == [turn[t] EXCEPT !.report = 0]
               report == [cycle |-> turn[t].report, by |-> t]
               u == [ui EXCEPT !.slot = report]
    <2>1. /\ Live(t) /\ turn' = [turn EXCEPT ![t] = row] /\ ui' = u
          /\ UNCHANGED <<chan, parked, draining, history>>
      BY <1>11 DEF StoreReport
    <2>2. row \in TurnStates /\ report \in [cycle : Nat, by : {0} \union Turns]
      BY <1>1 DEF TurnStates
    <2> HIDE DEF row, report
    <2>3. /\ u \in UIs /\ SameTurn(ui, u) /\ u.goals = ui.goals /\ u.pending = ui.pending
          /\ SameGoal(ui, u) /\ u.agentCancel = ui.agentCancel
      BY <1>1, <2>2 DEF Sound, UIs, SameTurn, SameGoal
    <2> HIDE DEF u
    <2>4. Sound(u)
      BY <1>1, <2>3 DEF Sound, SameTurn, SameGoal
    <2>5. chan' = [chan EXCEPT ![t] = chan[t]]
      BY <1>5, <2>1
    <2> QED BY <1>1, <1>4, <2>1, <2>2, <2>3, <2>4, <2>5, LiveTurnStep
  <1> QED BY <1>6, <1>8, <1>9, <1>10, <1>11 DEF TurnStep

\* A reader takes a message, and Update handles it.
LEMMA ReceiveStep ==
    ASSUME LoopInv, NEW t \in Turns, Receive(t)
    PROVE  Step
  <1> DEFINE readers == [parked EXCEPT ![t] = @ - 1]
             m == NextMessage(t)
  <1>1. /\ parked[t] > 0 /\ Readable(t) /\ PopMessage(t)
        /\ UNCHANGED <<draining, halted, calm, stranded, actions>>
        /\ IF m.done
           THEN Update(AgentDone(ui, m.err), {}, readers)
           ELSE Update(ui, {}, Rearmed(readers))
    BY DEF Receive, history
  <1>2. /\ Sound(ui) /\ ui \in UIs /\ ui.started \in Nat /\ Cost(ui) \in Nat
        /\ ui.goals \in Nat
        /\ parked \in [Turns -> Nat] /\ actions' \in 0 .. MaxActions /\ Covered(ui, actions')
        /\ chan[t] \in Channels /\ chan[t].buf \in Seq(Messages)
        /\ halted' \in BOOLEAN /\ calm' \in BOOLEAN /\ stranded' \in BOOLEAN
        /\ draining' \subseteq Turns
    BY <1>1, TheBounds DEF LoopInv, TurnInv, Channels, Covered
  <1>3. readers \in [Turns -> Nat]
    BY <1>1, <1>2
  <1>4. ui.started \in {0} \union Turns
    BY CoveredIsTurn DEF LoopInv, TurnInv
  <1>5. ui.agentCh \in {0} \union Turns
    <2>1. MaxActions * GoalMaxCycles \in Nat
      BY TurnLoopAssumption
    <2>2. ui.agentCh \in Nat /\ ui.agentCh <= ui.started
      BY <1>2 DEF Sound, UIs
    <2> QED BY <1>2, <1>4, <2>1, <2>2 DEF Turns
  <1>6. Thins
    BY <1>1, PopThins DEF LoopInv
  <1>7. calm => ui.running /\ t = ui.agentCh /\ \A s \in Turns \ {t} : parked[s] = 0 /\ ~Live(s)
    BY <1>1 DEF LoopInv, OneListener
  <1>8. calm => parked[t] = 1
    BY <1>7 DEF LoopInv, OneListener
  <1>9. CASE m.done
    <2> DEFINE u == AgentDone(ui, m.err)
    <2>1. m.err \in {"none", "failed", "canceled"}
      <3>1. CASE chan[t].buf = <<>>
        BY <3>1 DEF NextMessage, Done
      <3>2. CASE chan[t].buf # <<>>
        <4>1. m = Head(chan[t].buf) /\ Head(chan[t].buf) \in Messages
          BY <1>2, <3>2 DEF NextMessage
        <4> QED BY <4>1 DEF Messages
      <3> QED BY <3>1, <3>2
    <2>2. Replaces(ui, u)
      BY <1>2, <2>1, AgentDoneReplaces
    <2>3. Update(u, {}, readers)
      BY <1>1, <1>9
    <2>4. ~Live(t)
      <3> SUFFICES ASSUME GoesOn(chan[t]) PROVE FALSE
        BY DEF LoopInv, TurnInv
      <3>1. chan[t].buf # <<>>
        BY <1>1 DEF Readable, GoesOn
      <3>2. m = chan[t].buf[1] /\ 1 \in DOMAIN chan[t].buf
        BY <1>2, <3>1 DEF NextMessage
      <3> HIDE DEF m
      <3> QED BY <1>9, <3>2 DEF GoesOn
    <2> HIDE DEF u, m
    <2>5. /\ Sound(u) /\ Cost(u) \in Nat /\ u.goals = ui.goals /\ Cost(u) <= Cost(ui)
          /\ u.started \in {ui.started, ui.started + 1}
          /\ \/ ~u.running /\ u.started = ui.started
             \/ u.running /\ u.started = ui.started + 1 /\ u.agentCh = u.started
      BY <2>2, CostIsNat DEF Replaces
    <2>6. Covered(u, actions')
      <3>1. actions' * GoalMaxCycles \in Nat
        BY <1>2, TurnLoopAssumption
      <3> QED BY <1>2, <2>5, <3>1 DEF Covered
    <2>7. u.started \in {0} \union Turns
      BY <1>2, <2>5, <2>6, CoveredIsTurn
    <2>8. TurnInv'
      BY <1>2, <1>3, <1>6, <2>3, <2>5, <2>6, UpdateKeeps DEF LoopInv
    <2>9. calm' => \A s \in Turns : readers[s] = 0 /\ ~Live(s)
      BY <1>1, <1>2, <1>7, <1>8, <2>4
    <2> HIDE DEF readers
    <2>10. OneListener'
      BY <1>3, <2>3, <2>5, <2>7, <2>9, ReplacedListens DEF LoopInv
    <2>11. ui' = u
      BY <2>3 DEF Update
    <2>12. (halted' => u.goalCanceled) /\ (~stranded => Orderly(u) /\ Obeys(ui, u))
      BY <1>1, <2>2 DEF LoopInv, StopInv, Replaces, Orderly
    <2>13. StopInv'
      BY <1>1, <2>11, <2>12 DEF StopInv, Orderly, OnlyUsers
    <2> QED BY <1>1, <2>8, <2>10, <2>11, <2>12, <2>13
            DEF Step, LoopInv, StopInv, StopStep, Obeys
  <1>10. CASE ~m.done
    <2> DEFINE armed == Rearmed(readers)
    <2>1. Update(ui, {}, armed)
      BY <1>1, <1>10
    <2>2. armed = IF ui.agentCh = 0 THEN readers ELSE [readers EXCEPT ![ui.agentCh] = @ + 1]
      BY DEF Rearmed
    <2>3. armed \in [Turns -> Nat]
      <3> HIDE DEF readers, armed
      <3>1. CASE ui.agentCh = 0
        BY <1>3, <2>2, <3>1
      <3>2. CASE ui.agentCh # 0
        <4>1. ui.agentCh \in Turns /\ readers[ui.agentCh] + 1 \in Nat
          BY <1>3, <1>5, <3>2
        <4>2. armed = [readers EXCEPT ![ui.agentCh] = readers[ui.agentCh] + 1]
          BY <2>2, <3>2
        <4> QED BY <1>3, <4>1, <4>2
      <3> QED BY <3>1, <3>2
    <2>4. ui.running => ui.agentCh \in Turns /\ armed[ui.agentCh] > 0
      <3>1. ui.running => ui.agentCh # 0
        BY <1>2 DEF Sound
      <3> HIDE DEF readers, armed
      <3> QED BY <1>3, <1>5, <2>2, <3>1
    <2>5. calm => \A s \in Turns : armed[s] = parked[s]
      <3>1. calm => t = ui.agentCh /\ ui.agentCh # 0
        BY <1>2, <1>7 DEF Sound
      <3> HIDE DEF armed
      <3> QED BY <1>2, <1>3, <2>2, <3>1
    <2> HIDE DEF armed, readers, m
    <2>6. /\ ui' = ui /\ parked' = armed
          /\ \A s \in Turns : turn'[s].state = turn[s].state
      BY <1>2, <1>4, <2>1, UpdateShape DEF LoopInv
    <2>7. TurnInv'
      BY <1>2, <1>6, <2>1, <2>3, UpdateKeeps DEF LoopInv
    <2>8. OneListener'
      BY <1>1, <1>2, <2>4, <2>5, <2>6 DEF LoopInv, OneListener, Live, Sound
    <2>9. StopInv'
      BY <1>1, <2>6 DEF LoopInv, StopInv, Orderly, OnlyUsers
    <2> QED BY <1>2, <2>6, <2>7, <2>8, <2>9 DEF Step, LoopInv, StopStep
  <1> QED BY <1>9, <1>10

\* The goroutine that drains, and its timer.
LEMMA DrainStep ==
    ASSUME LoopInv, NEW t \in Turns, Drain(t) \/ DrainTimeout(t)
    PROVE  Step
  <1>1. /\ UNCHANGED <<ui, turn, parked, halted, calm, stranded, actions>>
        /\ draining' \subseteq draining
    BY DEF Drain, DrainTimeout, history
  <1>2. Thins
    <2>1. CASE Drain(t)
      BY <2>1, PopThins DEF Drain, LoopInv
    <2>2. CASE DrainTimeout(t)
      BY <2>2, SameThins DEF DrainTimeout, LoopInv
    <2> QED BY <2>1, <2>2
  <1>3. TurnInv'
    BY <1>1, <1>2 DEF LoopInv, TurnInv, Thins, Live, Covered, Sound, Cost, CyclesLeft
  <1>4. OneListener' /\ StopInv' /\ StopStep
    BY <1>1, TheBounds DEF LoopInv, OneListener, Live, StopInv, Orderly, OnlyUsers, StopStep
  <1> QED BY <1>3, <1>4 DEF Step, LoopInv

\* Every step keeps the invariant, and a stopped goal loop stopped.
LEMMA NextStep == LoopInv /\ [Next]_vars => Step
  <1> SUFFICES ASSUME LoopInv, [Next]_vars PROVE Step
    OBVIOUS
  <1>1. CASE UNCHANGED vars
    <2>1. UNCHANGED <<ui, turn, chan, parked, draining, halted, calm, stranded, actions>>
      BY <1>1 DEF vars, history
    <2>2. TurnInv'
      BY <2>1 DEF LoopInv, TurnInv, Live, GoesOn, Covered, Sound, Cost, CyclesLeft
    <2>3. OneListener' /\ StopInv' /\ StopStep
      BY <2>1, TheBounds DEF LoopInv, OneListener, Live, StopInv, Orderly, OnlyUsers, StopStep
    <2> QED BY <2>2, <2>3 DEF Step, LoopInv
  <1>2. CASE UserStep
    BY <1>2, SubmitPromptStep, RetryStep, EscapeStep, ClickClearStep, SetGoalStep,
       ClearGoalStep, PauseGoalStep, ResumeGoalStep DEF UserStep
  <1>3. ASSUME NEW t \in Turns, TurnStep(t) \/ DeliveryStep(t)
        PROVE  Step
    BY <1>3, TurnSteps, ReceiveStep, DrainStep DEF DeliveryStep
  <1> QED BY <1>1, <1>2, <1>3 DEF Next

\* It holds at the start.
LEMMA InitLoop == Init => LoopInv
  <1> SUFFICES ASSUME Init PROVE LoopInv
    OBVIOUS
  <1>1. <<>> \in Seq({"user", "auto"}) /\ Len(<<>>) = 0 /\ <<>> \in Seq(Messages)
    OBVIOUS
  <1>2. /\ MaxActions \in Nat /\ MaxOutputs \in Nat /\ GoalMaxCycles \in Nat
        /\ MaxPending \in Nat /\ Buffer \in Nat /\ 0 \in 0 .. MaxActions
        /\ 0 \in 0 .. MaxOutputs
    BY TurnLoopAssumption
  <1>3. ui \in UIs
    BY <1>1 DEF Init, UIs, Goals, NoGoal, NoReport
  <1>4. /\ ~ui.running /\ ui.agentCh = 0 /\ ui.agentCancel = 0 /\ ui.started = 0
        /\ ui.pending = <<>> /\ ui.goal = NoGoal /\ ui.goals = 0
    BY DEF Init
  <1>5. NoGoal.status = "none" /\ NoGoal.cycles = 0 /\ NoGoal.max = 0
    BY DEF NoGoal
  <1>6. Sound(ui) /\ Cost(ui) = 0
    BY <1>1, <1>2, <1>3, <1>4, <1>5 DEF Sound, Cost, CyclesLeft
  <1>7. Covered(ui, actions) /\ actions \in 0 .. MaxActions
    BY <1>2, <1>4, <1>6 DEF Init, Covered
  <1>8. /\ turn \in [Turns -> TurnStates] /\ chan \in [Turns -> Channels]
        /\ parked \in [Turns -> Nat]
    BY <1>1, <1>2 DEF Init, TurnStates, Channels
  <1>9. \A t \in Turns : /\ turn[t].state = "unborn" /\ chan[t].buf = <<>>
                         /\ ~chan[t].closed /\ parked[t] = 0
    BY DEF Init
  <1>10. TurnInv
    <2>1. \A t \in Turns : Len(chan[t].buf) <= Buffer /\ ~Live(t)
      BY <1>1, <1>2, <1>9 DEF Live
    <2>2. /\ draining \subseteq Turns
          /\ halted \in BOOLEAN /\ calm \in BOOLEAN /\ stranded \in BOOLEAN
      BY DEF Init
    <2> QED BY <1>6, <1>7, <1>8, <1>9, <2>1, <2>2 DEF TurnInv
  <1>11. OneListener /\ StopInv
    BY <1>4, <1>9 DEF Init, OneListener, Live, StopInv, Orderly, OnlyUsers
  <1> QED BY <1>10, <1>11 DEF LoopInv

\* The types: the numbers of turns are those of Turns, since the actions cover them.
LEMMA LoopTypes == LoopInv => TypeOK
  <1> SUFFICES ASSUME LoopInv PROVE TypeOK
    OBVIOUS
  <1>1. Sound(ui) /\ ui \in UIs
    BY TheBounds
  <1>2. ui.started \in {0} \union Turns /\ ui.goals \in 0 .. MaxActions
    BY CoveredIsTurn DEF LoopInv, TurnInv
  <1>3. ui.agentCh \in {0} \union Turns /\ ui.agentCancel \in {0} \union Turns
    <2>1. MaxActions * GoalMaxCycles \in Nat
      BY TurnLoopAssumption
    <2>2. /\ ui.agentCh \in Nat /\ ui.agentCh <= ui.started
          /\ ui.agentCancel \in Nat /\ ui.agentCancel <= ui.started /\ ui.started \in Nat
      BY <1>1 DEF Sound, UIs
    <2> QED BY <1>2, <2>1, <2>2 DEF Turns
  <1>4. ui \in [running : BOOLEAN, steering : BOOLEAN,
                agentCh : {0} \union Turns, agentCancel : {0} \union Turns,
                pending : Seq({"user", "auto"}),
                lastPrompt : BOOLEAN, lastFailed : BOOLEAN,
                goal : [status : {"none", "active", "paused", "complete"},
                        cycles : Nat, max : Nat, turn : Nat, by : {0} \union Turns],
                goalCanceled : BOOLEAN,
                tool : [active : BOOLEAN, turn : Nat],
                slot : [cycle : Nat, by : {0} \union Turns],
                started : {0} \union Turns, kind : {"user", "auto"},
                goals : 0 .. MaxActions]
    BY <1>1, <1>2, <1>3 DEF UIs, Goals
  <1> QED BY <1>1, <1>4 DEF LoopInv, TurnInv, Sound, TypeOK, TurnStates, Channels, Messages

\* Every behaviour keeps the invariant.
LEMMA LoopInvariant == Spec => []LoopInv
  <1>1. LoopInv /\ [Next]_vars => LoopInv'
    BY NextStep DEF Step
  <1> QED BY <1>1, InitLoop, PTL DEF Spec

\* Every variable keeps its type; no turn is started that the actions do not pay for.
THEOREM TypeCorrect == Spec => []TypeOK
  BY LoopInvariant, LoopTypes, PTL

\* A running UI has a reader on the channel on show, and until a turn is taken down from
\* the UI side there is one, and no other turn (Update: "a single reader is always parked
\* on the channel").
THEOREM RunningIsHeard == Spec => []OneListener
  <1>1. LoopInv => OneListener
    BY DEF LoopInv
  <1> QED BY <1>1, LoopInvariant, PTL

\* Once the user stopped the goal loop no automatic turn starts, until a clear strands
\* prompts in the queue (cancelAgent, startNextPrompt, beginGoalCycle).
THEOREM StoppedLoopStaysStopped == Spec => StopIsHeeded
  <1>1. LoopInv /\ [Next]_vars =>
            [ui'.started > ui.started /\ ui'.kind = "auto" /\ ~stranded => ~halted']_vars
    BY NextStep DEF Step, StopStep
  <1> QED BY <1>1, LoopInvariant, PTL DEF Spec, StopIsHeeded

=============================================================================
