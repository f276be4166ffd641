------------------------- MODULE OrchestratorProofs -------------------------
(***************************************************************************)
(* Proofs about the orchestrator, for every set of spawns and all          *)
(* capacities: types, the accounting of the pool's slots, the reach of     *)
(* Cancel and Shutdown, and the refinement of AgentRuns.                   *)
(***************************************************************************)
EXTENDS Orchestrator, FiniteSetTheorems, TLAPS

-----------------------------------------------------------------------------
(***************************************************************************)
(* Channels.                                                               *)
(***************************************************************************)
LEMMA SendEventType ==
    ASSUME NEW q \in Seq(EventKinds), Len(q) <= ProcCap, NEW ev \in EventKinds
    PROVE  /\ SendEvent(q, ev) \in Seq(EventKinds)
           /\ Len(SendEvent(q, ev)) <= ProcCap
  BY CapsAssumption DEF SendEvent

\* Receiving keeps a channel typed.
LEMMA TailType ==
    ASSUME NEW T, NEW q \in Seq(T), q # <<>>
    PROVE  /\ Head(q) \in T
           /\ Tail(q) \in Seq(T)
           /\ Len(Tail(q)) = Len(q) - 1
  OBVIOUS

\* The status an exit leads to is terminal.
LEMMA TerminalStatusType ==
    \A err \in ExitErrors \cup {"timeout"} : TerminalStatus(err) \in TerminalStatuses
  BY DEF TerminalStatus, TerminalStatuses, ExitErrors

-----------------------------------------------------------------------------
(***************************************************************************)
(* Types, one lemma for each group of steps.                               *)
(***************************************************************************)
LEMMA CallStepType ==
    ASSUME TypeOK, NEW s \in Spawns, CallStep(s)
    PROVE  TypeOK'
  <1> USE SpawnsAssumption, CapsAssumption
      DEF TypeOK, Goto, NothingButCall, callVars, childVars, chanVars, readVars, tableVars,
          shutVars, treeVars, SpawnSteps, AbandonSteps, ForwardSteps
  <1>1. CASE SpawnEnter(s) BY <1>1 DEF SpawnEnter
  <1>2. CASE SpawnRefused(s) BY <1>2 DEF SpawnRefused
  <1>3. CASE Acquire(s) BY SMTT(30), <1>3 DEF Acquire
  <1>4. CASE AcquireCanceled(s) BY <1>4 DEF AcquireCanceled
  <1>5. CASE PrepareWorkDir(s)
    <2>1. worktrees' \subseteq WantsWorktree BY <1>5 DEF PrepareWorkDir
    <2>2. /\ pc' = [pc EXCEPT ![s] = "prepared"]
          /\ UNCHANGED <<sem, childVars, ctxErr, chanVars, readVars, tableVars, shutVars, wmClosed>>
      BY <1>5 DEF PrepareWorkDir
    <2> QED BY <2>1, <2>2
  <1>6. CASE PrepareFails(s) BY <1>6 DEF PrepareFails
  <1>7. CASE Dispatch(s) BY <1>7 DEF Dispatch
  <1>8. CASE DispatchFails(s) BY <1>8 DEF DispatchFails
  <1>9. CASE Track(s) BY <1>9 DEF Track, Statuses
  <1>10. CASE TrackRefused(s) BY <1>10 DEF TrackRefused, ContextEnds
  <1>11. CASE AbandonCleanup(s) BY <1>11 DEF AbandonCleanup
  <1>12. CASE AbandonRelease(s) BY SMTT(30), <1>12 DEF AbandonRelease
  <1> QED
    BY <1>1, <1>2, <1>3, <1>4, <1>5, <1>6, <1>7, <1>8, <1>9, <1>10, <1>11, <1>12 DEF CallStep

\* The pump of the child.
LEMMA ChildStepType ==
    ASSUME TypeOK, NEW s \in Spawns, ChildStep(s)
    PROVE  TypeOK'
  <1> USE SpawnsAssumption, CapsAssumption
      DEF TypeOK, callVars, childVars, chanVars, readVars, tableVars, shutVars, treeVars
  <1>1. ASSUME NEW ev \in EventKinds, Emit(s, ev) PROVE TypeOK'
    <2>1. /\ SendEvent(procEv[s], ev) \in Seq(EventKinds)
          /\ Len(SendEvent(procEv[s], ev)) <= ProcCap
      BY SendEventType
    <2> QED BY SMTT(30), <1>1, <2>1 DEF Emit
  <1>2. ASSUME NEW how, ChildExits(s, how) PROVE TypeOK'
    BY <1>2 DEF ChildExits, ExitErrors
  <1>3. ASSUME NEW how, ChildKilled(s, how) PROVE TypeOK'
    BY <1>3 DEF ChildKilled, ExitErrors
  <1>4. CASE DeadlinePasses(s) BY <1>4 DEF DeadlinePasses
  <1>5. CASE IdleFires(s) BY <1>5 DEF IdleFires, ContextEnds
  <1>6. CASE PumpFinishes(s)
    <2>1. /\ SendEvent(procEv[s], "error") \in Seq(EventKinds)
          /\ Len(SendEvent(procEv[s], "error")) <= ProcCap
      BY SendEventType DEF EventKinds
    <2>2. ChildExitError(s) \in ExitErrors \cup {"timeout"}
      BY DEF ChildExitError
    <2> QED BY <1>6, <2>1, <2>2 DEF PumpFinishes
  <1> QED BY <1>1, <1>2, <1>3, <1>4, <1>5, <1>6 DEF ChildStep

\* The forwarder.
LEMMA ForwardStepType ==
    ASSUME TypeOK, NEW s \in Spawns, ForwardStep(s)
    PROVE  TypeOK'
  <1> USE SpawnsAssumption, CapsAssumption
      DEF TypeOK, Goto, NothingButCall, callVars, childVars, chanVars, readVars, tableVars,
          shutVars, treeVars, SpawnSteps, AbandonSteps, ForwardSteps
  <1>1. CASE ForwardTake(s)
    <2>1. /\ Head(procEv[s]) \in EventKinds
          /\ Tail(procEv[s]) \in Seq(EventKinds)
          /\ Len(Tail(procEv[s])) = Len(procEv[s]) - 1
      BY <1>1, TailType DEF ForwardTake
    <2> QED BY SMTT(30), <1>1, <2>1 DEF ForwardTake
  <1>2. CASE ForwardPut(s)
    <2>1. hand[s] \in EventKinds \cup Statuses BY <1>2 DEF ForwardPut
    <2>2. /\ Append(out[s], hand[s]) \in Seq(EventKinds \cup Statuses)
          /\ Len(Append(out[s], hand[s])) <= OutCap
      BY <1>2, <2>1 DEF ForwardPut
    <2> QED BY <1>2, <2>2 DEF ForwardPut
  <1>3. CASE Finish(s)
    <2>1. TerminalStatus(procErr[s]) \in TerminalStatuses BY TerminalStatusType
    <2>2. agents' \subseteq Spawns BY <1>3 DEF Finish
    <2>3. status' \in [Spawns -> Statuses] BY <1>3, <2>1 DEF Finish, Statuses
    <2>4. procErr' \in [Spawns -> ExitErrors \cup {"timeout"}] BY <1>3 DEF Finish, ExitErrors
    <2> QED BY SMTT(30), <1>3, <2>2, <2>3, <2>4 DEF Finish
  <1>4. CASE ForwardRelease(s) BY SMTT(30), <1>4 DEF ForwardRelease
  <1>5. CASE CloseOut(s) BY <1>5 DEF CloseOut
  <1> QED BY <1>1, <1>2, <1>3, <1>4, <1>5 DEF ForwardStep

\* The callers that consume the events.
LEMMA CallerStepType ==
    ASSUME TypeOK, NEW s \in Spawns, CallerStep(s)
    PROVE  TypeOK'
  <1> USE SpawnsAssumption, CapsAssumption
      DEF TypeOK, callVars, childVars, chanVars, readVars, tableVars, shutVars, treeVars
  <1>1. CASE Receive(s)
    <2>1. /\ Head(out[s]) \in EventKinds \cup Statuses
          /\ Tail(out[s]) \in Seq(EventKinds \cup Statuses)
          /\ Len(Tail(out[s])) = Len(out[s]) - 1
      BY <1>1, TailType DEF Receive
    <2>2. told' \in [Spawns -> Statuses \cup {Nothing}] BY <1>1, <2>1 DEF Receive
    <2>3. reader' \in [Spawns -> {"reading", "gone"}] BY <1>1 DEF Receive
    <2> QED BY <1>1, <2>1, <2>2, <2>3 DEF Receive
  <1>2. CASE Cancel(s)
    BY SMTT(30), <1>2 DEF Cancel, CancelAll, ContextEnds, Statuses, TerminalStatuses
  <1>3. CASE CallerGivesUp(s) BY <1>3 DEF CallerGivesUp
  <1> QED BY <1>1, <1>2, <1>3 DEF CallerStep

\* Shutdown.
LEMMA ShutdownStepType ==
    ASSUME TypeOK, ShutdownStep
    PROVE  TypeOK'
  <1> USE SpawnsAssumption, CapsAssumption
      DEF TypeOK, callVars, childVars, chanVars, readVars, tableVars, shutVars, treeVars
  <1>1. CASE ShutdownBegin
    BY <1>1 DEF ShutdownBegin, CancelAll, ContextEnds, Statuses, TerminalStatuses
  <1>2. CASE ShutdownGraceOver BY <1>2 DEF ShutdownGraceOver
  <1>3. CASE ShutdownCleanup BY <1>3 DEF ShutdownCleanup
  <1> QED BY <1>1, <1>2, <1>3 DEF ShutdownStep

\* A step of the others.
LEMMA StutterType == TypeOK /\ UNCHANGED vars => TypeOK'
  BY DEF TypeOK, vars, callVars, childVars, chanVars, readVars, tableVars, shutVars, treeVars

(***************************************************************************)
(* TypeOK is inductive: every operation keeps the types of the program's   *)
(* state and never puts more into a channel than its capacity.             *)
(***************************************************************************)
THEOREM TypeCorrect == Spec => []TypeOK
<1>1. Init => TypeOK
  <2> SUFFICES ASSUME Init PROVE TypeOK OBVIOUS
  <2>1. /\ procEv \in [Spawns -> Seq(EventKinds)]
        /\ out \in [Spawns -> Seq(EventKinds \cup Statuses)]
        /\ \A s \in Spawns : Len(procEv[s]) <= ProcCap /\ Len(out[s]) <= OutCap
    BY CapsAssumption DEF Init
  <2>2. /\ hand \in [Spawns -> EventKinds \cup Statuses \cup {Nothing}]
        /\ told \in [Spawns -> Statuses \cup {Nothing}]
        /\ status \in [Spawns -> Statuses]
        /\ pc \in [Spawns -> SpawnSteps \cup AbandonSteps \cup ForwardSteps]
    BY DEF Init, Statuses, SpawnSteps
  <2>3. /\ lines \in [Spawns -> Nat]
        /\ finishedAt \in [Spawns -> Nat]
        /\ clock \in Nat
        /\ sem \in 0..PoolSize
    BY CapsAssumption DEF Init
  <2>4. /\ child \in [Spawns -> {"none", "running", "exited", "reaped"}]
        /\ ctxErr \in [Spawns -> {"live", "canceled", "deadline"}]
        /\ idleFired \in [Spawns -> BOOLEAN]
        /\ procErr \in [Spawns -> ExitErrors \cup {"timeout"}]
        /\ reader \in [Spawns -> {"reading", "gone"}]
    BY DEF Init, ExitErrors
  <2> QED BY <2>1, <2>2, <2>3, <2>4 DEF Init, TypeOK
<1>2. TypeOK /\ [Next]_vars => TypeOK'
  BY CallStepType, ChildStepType, ForwardStepType, CallerStepType, ShutdownStepType, StutterType
     DEF Next, Quiescent
<1>3. QED BY <1>1, <1>2, PTL DEF Spec

-----------------------------------------------------------------------------
(***************************************************************************)
(* The slots.  A step moves the goroutine of one spawn, so it adds that    *)
(* spawn to the holders, or removes it, or leaves them as they are.        *)
(***************************************************************************)
LEMMA HoldersFinite == IsFiniteSet(Holders)
  BY SpawnsAssumption, FS_Subset DEF Holders

\* A spawn that gets a slot is one holder more.
LEMMA HoldersGain ==
    ASSUME TypeOK, NEW s \in Spawns, NEW to, pc' = [pc EXCEPT ![s] = to],
           pc[s] \notin HoldingSteps, to \in HoldingSteps
    PROVE  Cardinality(Holders') = Cardinality(Holders) + 1
  <1>1. Holders' = Holders \cup {s} /\ s \notin Holders BY DEF Holders, TypeOK
  <1> QED BY <1>1, HoldersFinite, FS_AddElement

\* A spawn that gives it back is one holder less.
LEMMA HoldersLose ==
    ASSUME TypeOK, NEW s \in Spawns, NEW to, pc' = [pc EXCEPT ![s] = to],
           pc[s] \in HoldingSteps, to \notin HoldingSteps
    PROVE  Cardinality(Holders') = Cardinality(Holders) - 1
  <1>1. Holders' = Holders \ {s} /\ s \in Holders BY DEF Holders, TypeOK
  <1> QED BY <1>1, HoldersFinite, FS_RemoveElement

\* Every other step leaves the holders alone.
LEMMA HoldersKeep ==
    ASSUME TypeOK, NEW s \in Spawns, NEW to, pc' = [pc EXCEPT ![s] = to],
           pc[s] \in HoldingSteps <=> to \in HoldingSteps
    PROVE  Holders' = Holders
  BY DEF Holders, TypeOK

\* Spawn keeps the tokens and the holders equal.
LEMMA CallStepSlots ==
    ASSUME TypeOK, SlotAccounting, NEW s \in Spawns, CallStep(s)
    PROVE  SlotAccounting'
  <1> USE DEF SlotAccounting, Goto
  <1>1. CASE SpawnEnter(s) \/ SpawnRefused(s) \/ AcquireCanceled(s)
    BY <1>1, HoldersKeep DEF SpawnEnter, SpawnRefused, AcquireCanceled, HoldingSteps
  <1>2. CASE Acquire(s)
    <2>1. Cardinality(Holders') = Cardinality(Holders) + 1
      BY <1>2, HoldersGain DEF Acquire, HoldingSteps
    <2> QED BY <1>2, <2>1 DEF Acquire
  <1>3. CASE \/ PrepareWorkDir(s) \/ PrepareFails(s) \/ Dispatch(s) \/ DispatchFails(s)
             \/ Track(s) \/ TrackRefused(s) \/ AbandonCleanup(s)
    BY <1>3, HoldersKeep
       DEF PrepareWorkDir, PrepareFails, Dispatch, DispatchFails, Track, TrackRefused,
           AbandonCleanup, HoldingSteps
  <1>4. CASE AbandonRelease(s)
    <2>1. Cardinality(Holders') = Cardinality(Holders) - 1
      BY <1>4, HoldersLose DEF AbandonRelease, HoldingSteps
    <2> QED BY <1>4, <2>1 DEF AbandonRelease
  <1> QED BY <1>1, <1>2, <1>3, <1>4 DEF CallStep

\* So does the forwarder.
LEMMA ForwardStepSlots ==
    ASSUME TypeOK, SlotAccounting, NEW s \in Spawns, ForwardStep(s)
    PROVE  SlotAccounting'
  <1> USE DEF SlotAccounting, Goto
  <1>1. CASE ForwardTake(s) BY <1>1 DEF ForwardTake, callVars, Holders
  <1>2. CASE ForwardPut(s)
    <2>1. CASE pc[s] = "finished"
      BY <1>2, <2>1, HoldersKeep DEF ForwardPut, HoldingSteps
    <2>2. CASE pc[s] # "finished" BY <1>2, <2>2 DEF ForwardPut, Holders
    <2> QED BY <2>1, <2>2
  <1>3. CASE Finish(s) BY <1>3, HoldersKeep DEF Finish, HoldingSteps
  <1>4. CASE ForwardRelease(s)
    <2>1. Cardinality(Holders') = Cardinality(Holders) - 1
      BY <1>4, HoldersLose DEF ForwardRelease, HoldingSteps
    <2> QED BY <1>4, <2>1 DEF ForwardRelease
  <1>5. CASE CloseOut(s) BY <1>5, HoldersKeep DEF CloseOut, HoldingSteps
  <1> QED BY <1>1, <1>2, <1>3, <1>4, <1>5 DEF ForwardStep

\* The other threads do not touch the goroutines of Spawn nor the pool.
LEMMA OtherStepSlots ==
    ASSUME SlotAccounting, UNCHANGED callVars
    PROVE  SlotAccounting'
  BY DEF SlotAccounting, callVars, Holders

\* Who does not touch the goroutines of Spawn nor the pool.
LEMMA OthersKeepCallVars ==
    ASSUME NEW s \in Spawns, ChildStep(s) \/ CallerStep(s) \/ ShutdownStep
    PROVE  UNCHANGED callVars
  BY DEF ChildStep, Emit, ChildExits, ChildKilled, DeadlinePasses, IdleFires, PumpFinishes,
         CallerStep, Receive, Cancel, CallerGivesUp,
         ShutdownStep, ShutdownBegin, ShutdownGraceOver, ShutdownCleanup

(***************************************************************************)
(* The pool's channel holds exactly one token for every spawn between its  *)
(* Acquire and its Release, on every path through Spawn, abandonSpawn and  *)
(* forwardAgentEvents.  With TypeCorrect: never more than PoolSize agents  *)
(* hold a slot.                                                            *)
(***************************************************************************)
THEOREM SlotsAccounted == Spec => []SlotAccounting
<1>1. Init => SlotAccounting
  <2> SUFFICES ASSUME Init PROVE SlotAccounting OBVIOUS
  <2>1. Holders = {} BY DEF Init, Holders, HoldingSteps
  <2> QED BY <2>1, FS_EmptySet DEF Init, SlotAccounting
<1>2. TypeOK /\ SlotAccounting /\ [Next]_vars => SlotAccounting'
  <2> SUFFICES ASSUME TypeOK, SlotAccounting, [Next]_vars PROVE SlotAccounting' OBVIOUS
  <2>1. CASE \E s \in Spawns : CallStep(s) \/ ForwardStep(s)
    BY <2>1, CallStepSlots, ForwardStepSlots
  <2>2. CASE UNCHANGED callVars BY <2>2, OtherStepSlots
  <2>3. CASE \E s \in Spawns : ChildStep(s) \/ CallerStep(s)
    BY <2>2, <2>3, OthersKeepCallVars
  <2>4. CASE ShutdownStep
    BY <2>2, <2>4 DEF ShutdownStep, ShutdownBegin, ShutdownGraceOver, ShutdownCleanup
  <2> QED BY <2>1, <2>2, <2>3, <2>4 DEF Next, Quiescent, vars
<1>3. QED BY <1>1, <1>2, TypeCorrect, PTL DEF Spec

\* A Release finds its token: the goroutine that gives a slot back never blocks.
THEOREM ReleaseNeverBlocks ==
    ASSUME SlotAccounting, NEW s \in Holders
    PROVE  sem > 0
  <1>1. Cardinality(Holders) # 0 BY HoldersFinite, FS_EmptySet
  <1>2. Cardinality(Holders) \in Nat BY HoldersFinite, FS_CardinalityType
  <1> QED BY <1>1, <1>2 DEF SlotAccounting

-----------------------------------------------------------------------------
(***************************************************************************)
(* The reach of Cancel and Shutdown, and what a refused spawn leaves.      *)
(* None of the properties is inductive alone: what Shutdown finds in the   *)
(* table depends on where every spawn stands, so the invariant ties the    *)
(* step of a spawn to its child, its entry in the table and its worktree.  *)
(***************************************************************************)
ChildInv ==
    /\ \A s \in Spawns : pc[s] \in SpawnSteps \ {"launched"} => child[s] = "none"
    /\ \A s \in Spawns :
          child[s] = "running" /\ ctxErr[s] = "live" => pc[s] \in {"launched", "forwarding"}

TableInv ==
    /\ \A s \in agents : pc[s] \in ForwardSteps
    /\ \A s \in Spawns : pc[s] \in ForwardSteps <=> status[s] # "unset"
    /\ \A s \in Spawns : status[s] = "running" => pc[s] = "forwarding" /\ s \in agents
    /\ \A s \in Spawns :
          pc[s] = "forwarding" /\ child[s] = "running" /\ ctxErr[s] = "live"
            => status[s] = "running"
    /\ closed => \A s \in Spawns : status[s] # "running"

\* A worktree is active only on the way from CreateAt to the end of its agent.
TreeInv ==
    /\ \A s \in worktrees : pc[s] \in {"prepared", "launched", "abandoning"} \cup ForwardSteps
    /\ wmClosed => worktrees = {}
    /\ shut = "down" => wmClosed

SpawnInv == ChildInv /\ TableInv /\ TreeInv

\* Spawn keeps the invariant of the spawns.
LEMMA CallStepInv ==
    ASSUME TypeOK, SpawnInv, NEW s \in Spawns, CallStep(s)
    PROVE  SpawnInv'
  <1> USE DEF TypeOK, SpawnInv, ChildInv, TableInv, TreeInv, Goto, NothingButCall, childVars,
              tableVars, shutVars, treeVars, SpawnSteps, ForwardSteps
  <1>1. CASE SpawnEnter(s) BY <1>1 DEF SpawnEnter
  <1>2. CASE SpawnRefused(s) BY <1>2 DEF SpawnRefused
  <1>3. CASE Acquire(s) BY <1>3 DEF Acquire
  <1>4. CASE AcquireCanceled(s) BY <1>4 DEF AcquireCanceled
  <1>5. CASE PrepareWorkDir(s) BY <1>5 DEF PrepareWorkDir
  <1>6. CASE PrepareFails(s) BY <1>6 DEF PrepareFails
  <1>7. CASE Dispatch(s) BY <1>7 DEF Dispatch
  <1>8. CASE DispatchFails(s) BY <1>8 DEF DispatchFails
  <1>9. CASE Track(s) BY <1>9 DEF Track
  <1>10. CASE TrackRefused(s) BY <1>10 DEF TrackRefused, ContextEnds
  <1>11. CASE AbandonCleanup(s) BY <1>11 DEF AbandonCleanup
  <1>12. CASE AbandonRelease(s) BY <1>12 DEF AbandonRelease
  <1> QED
    BY <1>1, <1>2, <1>3, <1>4, <1>5, <1>6, <1>7, <1>8, <1>9, <1>10, <1>11, <1>12 DEF CallStep

\* So does the pump.
LEMMA ChildStepInv ==
    ASSUME TypeOK, SpawnInv, NEW s \in Spawns, ChildStep(s)
    PROVE  SpawnInv'
  <1> USE DEF TypeOK, SpawnInv, ChildInv, TableInv, TreeInv, callVars, tableVars, shutVars,
              treeVars
  <1>1. ASSUME NEW ev \in EventKinds, Emit(s, ev) PROVE SpawnInv' BY <1>1 DEF Emit
  <1>2. ASSUME NEW how, ChildExits(s, how) PROVE SpawnInv' BY <1>2 DEF ChildExits
  <1>3. ASSUME NEW how, ChildKilled(s, how) PROVE SpawnInv' BY <1>3 DEF ChildKilled
  <1>4. CASE DeadlinePasses(s) BY <1>4 DEF DeadlinePasses, childVars
  <1>5. CASE IdleFires(s) BY <1>5 DEF IdleFires, ContextEnds
  <1>6. CASE PumpFinishes(s) BY <1>6 DEF PumpFinishes
  <1> QED BY <1>1, <1>2, <1>3, <1>4, <1>5, <1>6 DEF ChildStep

\* Finish leaves every other status alone, and evicts only agents that ended.
LEMMA FinishTable ==
    ASSUME TypeOK, NEW s \in Spawns, Finish(s)
    PROVE  /\ \A a \in Spawns : a # s => status'[a] = status[a]
           /\ status'[s] # "running" /\ status'[s] \in {status[s]} \cup TerminalStatuses
           /\ status[s] # "running" => status'[s] = status[s]
           /\ agents' \subseteq agents
           /\ \A a \in agents : status'[a] = "running" => a \in agents'
  <1>1. TerminalStatus(procErr[s]) # "running"
        /\ TerminalStatus(procErr[s]) \in TerminalStatuses
    BY TerminalStatusType DEF TypeOK, TerminalStatuses
  <1>2. /\ \A a \in Spawns : a # s => status'[a] = status[a]
        /\ status'[s] # "running" /\ status'[s] \in {status[s]} \cup TerminalStatuses
        /\ status[s] # "running" => status'[s] = status[s]
    BY <1>1 DEF Finish, TypeOK
  <1>3. PICK gone \in SUBSET {a \in agents : status'[a] # "running"} : agents' = agents \ gone
    BY DEF Finish, Evictions
  <1> QED BY <1>2, <1>3

\* So does the forwarder, whose Finish evicts entries.
LEMMA ForwardStepInv ==
    ASSUME TypeOK, SpawnInv, NEW s \in Spawns, ForwardStep(s)
    PROVE  SpawnInv'
  <1> USE DEF TypeOK, SpawnInv, ChildInv, TableInv, TreeInv, Goto, NothingButCall, callVars,
              childVars, tableVars, shutVars, treeVars, SpawnSteps, ForwardSteps
  <1>1. CASE ForwardTake(s) BY <1>1 DEF ForwardTake
  <1>2. CASE ForwardPut(s) BY SMTT(30), <1>2 DEF ForwardPut
  <1>3. CASE Finish(s)
    <2>1. /\ pc[s] = "forwarding" /\ child[s] = "reaped"
          /\ pc' = [pc EXCEPT ![s] = "finished"]
          /\ UNCHANGED <<child, ctxErr, closed, shut, worktrees, wmClosed>>
      BY <1>3 DEF Finish
    <2>2. ChildInv' BY <2>1
    <2>3. TreeInv' BY <2>1
    <2>4. /\ \A a \in Spawns : a # s => status'[a] = status[a]
          /\ status'[s] # "running" /\ status'[s] \in {status[s]} \cup TerminalStatuses
          /\ status[s] # "running" => status'[s] = status[s]
          /\ agents' \subseteq agents
          /\ \A a \in agents : status'[a] = "running" => a \in agents'
      BY <1>3, FinishTable
    <2>5. status'[s] # "unset" BY <2>1, <2>4 DEF TerminalStatuses
    <2>6. TableInv' BY <2>1, <2>4, <2>5
    <2> QED BY <2>2, <2>3, <2>6
  <1>4. CASE ForwardRelease(s) BY <1>4 DEF ForwardRelease
  <1>5. CASE CloseOut(s) BY <1>5 DEF CloseOut
  <1> QED BY <1>1, <1>2, <1>3, <1>4, <1>5 DEF ForwardStep

\* So do the callers.
LEMMA CallerStepInv ==
    ASSUME TypeOK, SpawnInv, NEW s \in Spawns, CallerStep(s)
    PROVE  SpawnInv'
  <1> USE DEF TypeOK, SpawnInv, ChildInv, TableInv, TreeInv, callVars, childVars, tableVars,
              shutVars, treeVars
  <1>1. CASE Receive(s) BY <1>1 DEF Receive
  <1>2. CASE Cancel(s)
    BY <1>2 DEF Cancel, CancelAll, ContextEnds, Running, ForwardSteps
  <1>3. CASE CallerGivesUp(s) BY <1>3 DEF CallerGivesUp
  <1> QED BY <1>1, <1>2, <1>3 DEF CallerStep

\* So does Shutdown.
LEMMA ShutdownStepInv ==
    ASSUME TypeOK, SpawnInv, ShutdownStep
    PROVE  SpawnInv'
  <1> USE DEF TypeOK, SpawnInv, ChildInv, TableInv, TreeInv, callVars, childVars, tableVars,
              shutVars, treeVars
  <1>1. CASE ShutdownBegin
    BY <1>1 DEF ShutdownBegin, CancelAll, ContextEnds, Running, ForwardSteps
  <1>2. CASE ShutdownGraceOver BY <1>2 DEF ShutdownGraceOver
  <1>3. CASE ShutdownCleanup BY <1>3 DEF ShutdownCleanup
  <1> QED BY <1>1, <1>2, <1>3 DEF ShutdownStep

\* And a step of the others.
LEMMA StutterInv == SpawnInv /\ UNCHANGED vars => SpawnInv'
  BY DEF SpawnInv, ChildInv, TableInv, TreeInv, vars, callVars, childVars, tableVars, shutVars,
         treeVars

\* It holds in every behaviour.
LEMMA SpawnInvariant == Spec => []SpawnInv
<1>1. Init => SpawnInv
  BY DEF Init, SpawnInv, ChildInv, TableInv, TreeInv, ForwardSteps
<1>2. TypeOK /\ SpawnInv /\ [Next]_vars => SpawnInv'
  BY CallStepInv, ChildStepInv, ForwardStepInv, CallerStepInv, ShutdownStepInv, StutterInv
     DEF Next, Quiescent
<1>3. QED BY <1>1, <1>2, TypeCorrect, PTL DEF Spec

(***************************************************************************)
(* Cancel and Shutdown find in the table every agent whose child runs      *)
(* under a live context and has a stream.                                  *)
(***************************************************************************)
THEOREM CancelReaches == Spec => []RunningIsReachable
<1>1. SpawnInv => RunningIsReachable
  BY DEF SpawnInv, TableInv, RunningIsReachable, Running
<1>2. QED BY <1>1, SpawnInvariant, PTL

(***************************************************************************)
(* No child outlives the shutdown of the orchestrator under a live         *)
(* context, but the one of a spawn that trackAgent is about to refuse.     *)
(***************************************************************************)
THEOREM ShutdownReaches == Spec => []ShutdownReachesAll
<1>1. TypeOK /\ SpawnInv => ShutdownReachesAll
  BY DEF SpawnInv, ChildInv, TableInv, ShutdownReachesAll, TypeOK
<1>2. QED BY <1>1, SpawnInvariant, TypeCorrect, PTL

(***************************************************************************)
(* A refused spawn leaves no worktree, no entry and no live child; after   *)
(* Shutdown no worktree is left at all.                                    *)
(***************************************************************************)
THEOREM RefusalIsClean == Spec => []RejectedLeavesNothing
<1>1. TypeOK /\ SpawnInv => RejectedLeavesNothing
  BY DEF SpawnInv, ChildInv, TableInv, TreeInv, RejectedLeavesNothing, TypeOK, ForwardSteps
<1>2. QED BY <1>1, SpawnInvariant, TypeCorrect, PTL

\* Once Shutdown has returned no worktree of a spawn is active.
THEOREM ShutdownIsClean == Spec => []NoWorktreeAfterShutdown
<1>1. SpawnInv => NoWorktreeAfterShutdown
  BY DEF SpawnInv, TreeInv, NoWorktreeAfterShutdown
<1>2. QED BY <1>1, SpawnInvariant, PTL

\* What the lock decides once: no step replaces a terminal status.
LEMMA StatusKept ==
    ASSUME TypeOK, SpawnInv, [Next]_vars, NEW a \in Spawns, status[a] \in TerminalStatuses
    PROVE  status'[a] = status[a]
  <1> USE DEF TypeOK, tableVars, NothingButCall, TerminalStatuses
  <1>1. ASSUME NEW s \in Spawns, Track(s) PROVE status'[a] = status[a]
  <2>1. status[s] = "unset" BY <1>1 DEF Track, Goto, SpawnInv, TableInv, ForwardSteps
  <2>2. a # s BY <2>1
  <2> QED BY <1>1, <2>2 DEF Track
  <1>2. ASSUME NEW s \in Spawns, Finish(s) PROVE status'[a] = status[a]
  BY <1>2, FinishTable
  <1>3. ASSUME NEW s \in Spawns, Cancel(s) PROVE status'[a] = status[a]
  BY <1>3 DEF Cancel, CancelAll, Running
  <1>4. CASE ShutdownBegin BY <1>4 DEF ShutdownBegin, CancelAll, Running
  <1>5. ASSUME NEW s \in Spawns, CallStep(s), ~Track(s) PROVE UNCHANGED status
  BY <1>5 DEF CallStep, SpawnEnter, SpawnRefused, Acquire, AcquireCanceled, PrepareWorkDir,
              PrepareFails, Dispatch, DispatchFails, TrackRefused, AbandonCleanup, AbandonRelease
  <1>6. ASSUME NEW s \in Spawns, ChildStep(s) PROVE UNCHANGED status
  BY <1>6 DEF ChildStep, Emit, ChildExits, ChildKilled, DeadlinePasses, IdleFires, PumpFinishes
  <1>7. ASSUME NEW s \in Spawns, ForwardStep(s), ~Finish(s) PROVE UNCHANGED status
  BY <1>7 DEF ForwardStep, ForwardTake, ForwardPut, ForwardRelease, CloseOut
  <1>8. ASSUME NEW s \in Spawns, CallerStep(s), ~Cancel(s) PROVE UNCHANGED status
  BY <1>8 DEF CallerStep, Receive, CallerGivesUp
  <1>9. CASE ShutdownGraceOver \/ ShutdownCleanup
  BY <1>9 DEF ShutdownGraceOver, ShutdownCleanup
  <1>10. CASE UNCHANGED vars BY <1>10 DEF vars
  <1> QED
  BY <1>1, <1>2, <1>3, <1>4, <1>5, <1>6, <1>7, <1>8, <1>9, <1>10
     DEF Next, ShutdownStep, Quiescent

(***************************************************************************)
(* A terminal status is never replaced: of Cancel, Shutdown and the exit   *)
(* of the child, the first to reach the lock decides.                      *)
(***************************************************************************)
THEOREM StatusFinal == Spec => StatusIsFinal
<1>1. TypeOK /\ SpawnInv /\ [Next]_vars
        => [\A s \in Spawns : status[s] \in TerminalStatuses => status'[s] = status[s]]_vars
  BY StatusKept
<1>2. QED BY <1>1, SpawnInvariant, TypeCorrect, PTL DEF Spec, StatusIsFinal
-----------------------------------------------------------------------------
(***************************************************************************)
(* What the consumer is told.  The outcome of an agent travels from the    *)
(* hand of the forwarder through its channel to the consumer, and there is *)
(* one copy of it at most: the last thing on the channel, and the status   *)
(* of the agent for good.                                                  *)
(***************************************************************************)
Ended == {"finished", "announced", "released", "closed"}

TellInv ==
    \A s \in Spawns :
        /\ pc[s] \in Ended => status[s] \in TerminalStatuses
        /\ pc[s] \notin Ended \ {"finished"} =>
              told[s] = Nothing /\ \A i \in DOMAIN out[s] : out[s][i] \in EventKinds
        /\ pc[s] = "finished" => hand[s] = status[s]
        /\ pc[s] # "finished" => hand[s] \in EventKinds \cup {Nothing}
        /\ \A i \in DOMAIN out[s] : out[s][i] \notin EventKinds =>
              i = Len(out[s]) /\ out[s][i] = status[s] /\ told[s] = Nothing

\* The steps that neither move the forwarder nor touch what it sends.
LEMMA TellKept ==
    ASSUME TellInv, UNCHANGED <<hand, out, told>>,
           \A a \in Spawns : pc'[a] # pc[a] => pc[a] \notin Ended /\ pc'[a] \notin Ended,
           \A a \in Spawns : status[a] \in TerminalStatuses => status'[a] = status[a],
           \A a \in Spawns : \A i \in DOMAIN out[a] :
              out[a][i] \notin EventKinds => status[a] \in TerminalStatuses
    PROVE  TellInv'
  BY DEF TellInv, Ended

\* What is on a channel is an event, or the outcome of an agent that ended.
LEMMA OutcomeOnChannel ==
    ASSUME TypeOK, TellInv, NEW s \in Spawns, NEW i \in DOMAIN out[s],
           out[s][i] \notin EventKinds
    PROVE  /\ pc[s] \in Ended \ {"finished"} /\ status[s] \in TerminalStatuses
           /\ i = Len(out[s]) /\ out[s][i] = status[s] /\ told[s] = Nothing
  BY DEF TellInv, Ended

\* Every step keeps what the consumer is told.
LEMMA NextTells ==
    ASSUME TypeOK, SpawnInv, TellInv, [Next]_vars,
           \A a \in Spawns : status[a] \in TerminalStatuses => status'[a] = status[a]
    PROVE  TellInv'
  <1>1. \A a \in Spawns : \A i \in DOMAIN out[a] :
            out[a][i] \notin EventKinds => status[a] \in TerminalStatuses
    BY OutcomeOnChannel
  <1>2. ASSUME NEW s \in Spawns, CallStep(s) PROVE TellInv'
    <2>1. UNCHANGED <<hand, out, told>>
      BY <1>2 DEF CallStep, SpawnEnter, SpawnRefused, Acquire, AcquireCanceled, PrepareWorkDir,
                  PrepareFails, Dispatch, DispatchFails, Track, TrackRefused, AbandonCleanup,
                  AbandonRelease, NothingButCall, chanVars, readVars
    <2>2. /\ pc[s] \in SpawnSteps \cup AbandonSteps
          /\ \E to \in SpawnSteps \cup AbandonSteps \cup {"forwarding"} :
                pc' = [pc EXCEPT ![s] = to]
      BY <1>2 DEF CallStep, SpawnEnter, SpawnRefused, Acquire, AcquireCanceled, PrepareWorkDir,
                  PrepareFails, Dispatch, DispatchFails, Track, TrackRefused, AbandonCleanup,
                  AbandonRelease, Goto, SpawnSteps, AbandonSteps
    <2>3. \A a \in Spawns : pc'[a] # pc[a] => pc[a] \notin Ended /\ pc'[a] \notin Ended
      BY <2>2 DEF TypeOK, Ended, SpawnSteps, AbandonSteps
    <2> QED BY <1>1, <2>1, <2>3, TellKept
  <1>3. ASSUME NEW s \in Spawns, ChildStep(s) \/ Cancel(s) \/ CallerGivesUp(s)
        PROVE  TellInv'
    <2>1. UNCHANGED <<hand, out, told>> /\ UNCHANGED pc
      BY <1>3 DEF ChildStep, Emit, ChildExits, ChildKilled, DeadlinePasses, IdleFires,
                  PumpFinishes, Cancel, CallerGivesUp, callVars, chanVars, readVars
    <2> QED BY <1>1, <2>1, TellKept
  <1>4. ASSUME ShutdownStep \/ UNCHANGED vars PROVE TellInv'
    <2>1. UNCHANGED <<hand, out, told>> /\ UNCHANGED pc
      BY <1>4 DEF ShutdownStep, ShutdownBegin, ShutdownGraceOver, ShutdownCleanup, callVars,
                  chanVars, readVars, vars
    <2> QED BY <1>1, <2>1, TellKept
  <1>5. ASSUME NEW s \in Spawns, ForwardTake(s) PROVE TellInv'
    <2>1. Head(procEv[s]) \in EventKinds BY <1>5, TailType DEF ForwardTake, TypeOK
    <2>2. /\ pc[s] = "forwarding" /\ hand' = [hand EXCEPT ![s] = Head(procEv[s])]
          /\ UNCHANGED <<pc, out, told, status>>
      BY <1>5 DEF ForwardTake, callVars, readVars, tableVars
    <2> QED BY <2>1, <2>2 DEF TellInv, TypeOK
  <1>6. ASSUME NEW s \in Spawns, ForwardPut(s) PROVE TellInv'
    <2>1. /\ pc[s] \in {"forwarding", "finished"} /\ hand[s] # Nothing
          /\ out' = [out EXCEPT ![s] = Append(out[s], hand[s])]
          /\ hand' = [hand EXCEPT ![s] = Nothing]
          /\ pc' = IF pc[s] = "finished" THEN [pc EXCEPT ![s] = "announced"] ELSE pc
          /\ UNCHANGED <<told, status>>
      BY <1>6 DEF ForwardPut, readVars, tableVars
    <2>2. SUFFICES ASSUME NEW a \in Spawns, TellInv
                   PROVE  /\ pc'[a] \in Ended => status'[a] \in TerminalStatuses
                          /\ pc'[a] \notin Ended \ {"finished"} =>
                                /\ told'[a] = Nothing
                                /\ \A i \in DOMAIN out'[a] : out'[a][i] \in EventKinds
                          /\ pc'[a] = "finished" => hand'[a] = status'[a]
                          /\ pc'[a] # "finished" => hand'[a] \in EventKinds \cup {Nothing}
                          /\ \A i \in DOMAIN out'[a] : out'[a][i] \notin EventKinds =>
                                /\ i = Len(out'[a]) /\ out'[a][i] = status'[a]
                                /\ told'[a] = Nothing
      BY DEF TellInv
    <2>3. CASE a # s
      <3>1. UNCHANGED <<out[a], hand[a], pc[a], told[a], status[a]>> BY <2>1, <2>3 DEF TypeOK
      <3> QED BY <2>2, <3>1 DEF TellInv
    <2>4. CASE a = s
      <3>1. out[s] \in Seq(EventKinds \cup Statuses) /\ out'[s] = Append(out[s], hand[s])
            /\ hand'[s] = Nothing /\ told[s] = Nothing
            /\ \A i \in DOMAIN out[s] : out[s][i] \in EventKinds
        BY <2>1, <2>2 DEF TypeOK, TellInv, Ended
      <3>2. \A i \in DOMAIN out'[s] : IF i = Len(out'[s]) THEN out'[s][i] = hand[s]
                                     ELSE i \in DOMAIN out[s] /\ out'[s][i] = out[s][i]
        BY <3>1
      <3>3. CASE pc[s] = "forwarding"
        <4>1. hand[s] \in EventKinds /\ pc' = pc BY <2>1, <2>2, <3>3 DEF TellInv
        <4> QED BY <2>1, <2>4, <3>1, <3>2, <3>3, <4>1 DEF Ended
      <3>4. CASE pc[s] = "finished"
        <4>1. hand[s] = status[s] /\ status[s] \in TerminalStatuses /\ pc'[s] = "announced"
          BY <2>1, <2>2, <3>4 DEF TellInv, Ended, TypeOK
        <4> QED BY <2>1, <2>4, <3>1, <3>2, <4>1 DEF Ended
      <3> QED BY <2>1, <3>3, <3>4
    <2> QED BY <2>3, <2>4
  <1>7. ASSUME NEW s \in Spawns, Finish(s) PROVE TellInv'
    <2>1. /\ pc[s] = "forwarding" /\ pc' = [pc EXCEPT ![s] = "finished"]
          /\ hand' = [hand EXCEPT ![s] = status'[s]]
          /\ UNCHANGED <<out, told>>
      BY <1>7 DEF Finish, Goto, readVars
    <2>2. \A a \in Spawns : a # s => status'[a] = status[a] BY <1>7, FinishTable
    <2>3. status'[s] \in TerminalStatuses
      <3>1. TerminalStatus(procErr[s]) \in TerminalStatuses BY TerminalStatusType DEF TypeOK
      <3>2. status[s] \notin TerminalStatuses => status[s] = "running"
        BY <2>1 DEF SpawnInv, TableInv, TypeOK, Statuses, ForwardSteps
      <3> QED BY <1>7, <3>1, <3>2 DEF Finish, TypeOK
    <2>4. \A a \in Spawns : a # s => pc'[a] = pc[a] /\ hand'[a] = hand[a]
      BY <2>1 DEF TypeOK
    <2>5. pc'[s] = "finished" /\ hand'[s] = status'[s] BY <2>1 DEF TypeOK
    <2>6. told[s] = Nothing /\ \A i \in DOMAIN out[s] : out[s][i] \in EventKinds
      BY <2>1 DEF TellInv, Ended
    <2> QED BY <2>1, <2>2, <2>3, <2>4, <2>5, <2>6 DEF TellInv, Ended
  <1>8. ASSUME NEW s \in Spawns, ForwardRelease(s) \/ CloseOut(s) PROVE TellInv'
    <2>1. /\ pc[s] \in Ended \ {"finished"}
          /\ \/ pc' = [pc EXCEPT ![s] = "released"]
             \/ pc' = [pc EXCEPT ![s] = "closed"]
          /\ UNCHANGED <<hand, out, told, status>>
      BY <1>8 DEF ForwardRelease, CloseOut, Goto, Ended, NothingButCall, chanVars, readVars,
                  tableVars
    <2>2. \A a \in Spawns : a # s => pc'[a] = pc[a] BY <2>1 DEF TypeOK
    <2>3. pc'[s] \in Ended \ {"finished"} BY <2>1 DEF TypeOK, Ended
    <2> QED BY <2>1, <2>2, <2>3 DEF TellInv, Ended
  <1>9. ASSUME NEW s \in Spawns, Receive(s) PROVE TellInv'
    <2>1. /\ out[s] # <<>> /\ out' = [out EXCEPT ![s] = Tail(out[s])]
          /\ told' = IF Head(out[s]) \in EventKinds THEN told
                     ELSE [told EXCEPT ![s] = Head(out[s])]
          /\ UNCHANGED <<pc, hand, status>>
      BY <1>9 DEF Receive, callVars, tableVars
    <2>2. out[s] \in Seq(EventKinds \cup Statuses) /\ out'[s] = Tail(out[s])
      BY <2>1 DEF TypeOK
    <2>3. /\ out'[s] \in Seq(EventKinds \cup Statuses) /\ Len(out'[s]) = Len(out[s]) - 1
          /\ Len(out[s]) \in Nat \ {0} /\ Head(out[s]) = out[s][1]
      <3>1. Tail(out[s]) \in Seq(EventKinds \cup Statuses)
            /\ Len(Tail(out[s])) = Len(out[s]) - 1
        BY <2>1, <2>2, TailType
      <3>2. Len(out[s]) \in Nat \ {0} /\ Head(out[s]) = out[s][1] BY <2>1, <2>2
      <3> QED BY <2>2, <3>1, <3>2
    <2>4. \A i \in DOMAIN out'[s] : i + 1 \in DOMAIN out[s] /\ out'[s][i] = out[s][i + 1]
                                    /\ i \in Nat \ {0}
      BY <2>2, <2>3
    <2>5. \A a \in Spawns : a # s => out'[a] = out[a] /\ told'[a] = told[a]
      BY <2>1 DEF TypeOK
    <2>6. CASE Head(out[s]) \in EventKinds
      <3>1. told' = told BY <2>1, <2>6
      <3>2. \A i \in DOMAIN out'[s] : out'[s][i] \notin EventKinds =>
                i = Len(out'[s]) /\ out'[s][i] = status[s] /\ told[s] = Nothing
        BY <2>3, <2>4 DEF TellInv
      <3>3. pc[s] \notin Ended \ {"finished"} =>
                \A i \in DOMAIN out'[s] : out'[s][i] \in EventKinds
        BY <2>4 DEF TellInv
      <3> QED BY <2>1, <2>5, <3>1, <3>2, <3>3 DEF TellInv
    <2>7. CASE Head(out[s]) \notin EventKinds
      <3>1. 1 \in DOMAIN out[s] /\ out[s][1] \notin EventKinds BY <2>2, <2>3, <2>7
      <3>2. pc[s] \in Ended \ {"finished"} /\ 1 = Len(out[s]) BY <3>1, OutcomeOnChannel
      <3>3. DOMAIN out'[s] = {}
        <4>1. Len(out'[s]) = 0 BY <2>3, <3>2
        <4> QED BY <2>3, <4>1
      <3> QED BY <2>1, <2>5, <3>2, <3>3 DEF TellInv
    <2> QED BY <2>6, <2>7
  <1> QED
    BY <1>2, <1>3, <1>4, <1>5, <1>6, <1>7, <1>8, <1>9
       DEF Next, ForwardStep, CallerStep, Quiescent

\* It holds in every behaviour.
LEMMA TellInvariant == Spec => []TellInv
<1>1. Init => TellInv
  BY DEF Init, TellInv, Ended
<1>2. TypeOK /\ SpawnInv /\ TellInv /\ [Next]_vars => TellInv'
  BY NextTells, StatusKept
<1>3. QED BY <1>1, <1>2, TypeCorrect, SpawnInvariant, PTL DEF Spec

-----------------------------------------------------------------------------
(***************************************************************************)
(* The refinement of AgentRuns.  A step that moves a goroutine past        *)
(* Acquire is Admit, past Release it is Return; the step that writes a     *)
(* terminal status is Decide, for one agent or for all that run; the step  *)
(* of the consumer that takes the outcome is Tell; every other step leaves *)
(* the abstract state as it is.                                            *)
(***************************************************************************)

\* A spawn that gets its slot is an Admit of the abstract agents.
LEMMA StepAdmits ==
    ASSUME TypeOK, SpawnInv, SlotAccounting, NEW s \in Spawns, Acquire(s)
    PROVE  AgentRunsMap!Admit(s)
  <1>1. /\ sem < PoolSize /\ pc[s] = "waiting" /\ pc' = [pc EXCEPT ![s] = "acquired"]
        /\ UNCHANGED <<status, told>>
    BY DEF Acquire, Goto, NothingButCall, readVars, tableVars
  <1>2. s \notin Holders /\ Holders' = Holders \cup {s}
    BY <1>1 DEF Holders, HoldingSteps, TypeOK
  <1>3. Cardinality(Holders) < PoolSize BY <1>1 DEF SlotAccounting
  <1>4. status[s] \notin TerminalStatuses
    BY <1>1 DEF SpawnInv, TableInv, ForwardSteps, TerminalStatuses
  <1> DEFINE outcome == [a \in Spawns |-> IF status[a] \in TerminalStatuses THEN status[a]
                                          ELSE Nothing]
  <1>5. outcome[s] = Nothing /\ outcome' = outcome BY <1>1, <1>4
  <1> HIDE DEF outcome
  <1>6. AgentRunsMap!Admit(s) <=>
            /\ s \notin Holders /\ outcome[s] = Nothing /\ Cardinality(Holders) < PoolSize
            /\ Holders' = Holders \cup {s} /\ outcome' = outcome /\ told' = told
    <2>1. AgentRunsMap!Cardinality(Holders) = Cardinality(Holders)
      BY Zenon DEF AgentRunsMap!Cardinality, Cardinality
    <2> QED BY <2>1, Zenon DEF AgentRunsMap!Admit, outcome
  <1> QED BY <1>1, <1>2, <1>3, <1>5, <1>6

\* A spawn that gives it back is a Return.
LEMMA StepReturns ==
    ASSUME TypeOK, NEW s \in Spawns, AbandonRelease(s) \/ ForwardRelease(s)
    PROVE  AgentRunsMap!Return(s)
  <1>1. /\ pc[s] \in {"releasing", "announced"}
        /\ \E to \in {"rejected", "released"} : pc' = [pc EXCEPT ![s] = to]
        /\ UNCHANGED <<status, told>>
    BY DEF AbandonRelease, ForwardRelease, Goto, NothingButCall, readVars, tableVars
  <1>2. s \in Holders /\ Holders' = Holders \ {s}
    BY <1>1 DEF Holders, HoldingSteps, TypeOK
  <1> QED BY <1>1, <1>2 DEF AgentRunsMap!Return

\* A terminal status for the agents of S, which hold their slots and had none.
LEMMA StepDecides ==
    ASSUME TypeOK, NEW S \in SUBSET Holders, S # {}, NEW r \in TerminalStatuses,
           \A a \in S : status[a] \notin TerminalStatuses,
           \A a \in Spawns : status'[a] = IF a \in S THEN r ELSE status[a],
           Holders' = Holders, told' = told
    PROVE  \E T \in SUBSET Holders : AgentRunsMap!Decide(T)
  <1>1. Holders \subseteq Spawns BY DEF Holders
  <1> SUFFICES AgentRunsMap!Decide(S) OBVIOUS
  <1> QED BY <1>1 DEF AgentRunsMap!Decide

\* A consumer that reads the outcome is a Tell.
LEMMA StepTells ==
    ASSUME TypeOK, TellInv, NEW s \in Spawns, Receive(s), Head(out[s]) \notin EventKinds
    PROVE  AgentRunsMap!Tell(s)
  <1>1. /\ out[s] # <<>> /\ told' = [told EXCEPT ![s] = Head(out[s])]
        /\ UNCHANGED <<pc, status>>
    BY DEF Receive, callVars, tableVars
  <1>2. 1 \in DOMAIN out[s] /\ Head(out[s]) = out[s][1]
    <2>1. out[s] \in Seq(EventKinds \cup Statuses) BY DEF TypeOK
    <2> QED BY <1>1, <2>1
  <1>3. status[s] \in TerminalStatuses /\ Head(out[s]) = status[s] /\ told[s] = Nothing
    BY <1>2, OutcomeOnChannel
  <1>4. status[s] # Nothing BY <1>3 DEF TerminalStatuses, Nothing
  <1> QED BY <1>1, <1>3, <1>4 DEF AgentRunsMap!Tell, Holders

\* Every step of the orchestrator is one of these, or leaves the abstract state alone.
LEMMA StepRefines ==
    ASSUME TypeOK, SpawnInv, SlotAccounting, TellInv, [Next]_vars
    PROVE  [AgentRunsMap!Next]_(AgentRunsMap!vars)
  <1> DEFINE Kept == /\ Holders' = Holders /\ told' = told
                     /\ \A a \in Spawns : status[a] \in TerminalStatuses
                                             \/ status'[a] \in TerminalStatuses
                                          => status'[a] = status[a]
  <1>1. Kept => UNCHANGED AgentRunsMap!vars BY DEF AgentRunsMap!vars
  <1> HIDE DEF Kept
  <1>2. ASSUME NEW s \in Spawns, CallStep(s) PROVE [AgentRunsMap!Next]_(AgentRunsMap!vars)
    <2>1. CASE Acquire(s) BY <2>1, StepAdmits DEF AgentRunsMap!Next
    <2>2. CASE AbandonRelease(s) BY <2>2, StepReturns DEF AgentRunsMap!Next
    <2>3. CASE Track(s)
      <3>1. /\ pc[s] = "launched" /\ pc' = [pc EXCEPT ![s] = "forwarding"] /\ told' = told
            /\ status' = [status EXCEPT ![s] = "running"]
        BY <2>3 DEF Track, Goto, readVars
      <3>2. Holders' = Holders BY <3>1, HoldersKeep DEF HoldingSteps
      <3>3. status[s] = "unset" BY <3>1 DEF SpawnInv, TableInv, ForwardSteps
      <3>4. Kept BY <3>1, <3>2, <3>3 DEF Kept, TypeOK, TerminalStatuses
      <3> QED BY <1>1, <3>4
    <2>4. CASE ~Acquire(s) /\ ~AbandonRelease(s) /\ ~Track(s)
      <3>1. UNCHANGED <<told, status>>
        BY <1>2, <2>4 DEF CallStep, SpawnEnter, SpawnRefused, AcquireCanceled, PrepareWorkDir,
                          PrepareFails, Dispatch, DispatchFails, TrackRefused, AbandonCleanup,
                          NothingButCall, readVars, tableVars
      <3>2. \E to : /\ pc' = [pc EXCEPT ![s] = to]
                    /\ pc[s] \in HoldingSteps <=> to \in HoldingSteps
        BY <1>2, <2>4 DEF CallStep, SpawnEnter, SpawnRefused, AcquireCanceled, PrepareWorkDir,
                          PrepareFails, Dispatch, DispatchFails, TrackRefused, AbandonCleanup,
                          Goto, HoldingSteps
      <3>3. Holders' = Holders BY <3>2, HoldersKeep
      <3>4. Kept BY <3>1, <3>3 DEF Kept
      <3> QED BY <1>1, <3>4
    <2> QED BY <2>1, <2>2, <2>3, <2>4
  <1>3. ASSUME NEW s \in Spawns, ChildStep(s) \/ CallerGivesUp(s)
        PROVE  [AgentRunsMap!Next]_(AgentRunsMap!vars)
    <2>1. UNCHANGED <<pc, told, status>>
      BY <1>3 DEF ChildStep, Emit, ChildExits, ChildKilled, DeadlinePasses, IdleFires,
                  PumpFinishes, CallerGivesUp, callVars, readVars, tableVars
    <2>2. Kept BY <2>1 DEF Kept, Holders
    <2> QED BY <1>1, <2>2
  <1>4. ASSUME NEW s \in Spawns, Finish(s) PROVE [AgentRunsMap!Next]_(AgentRunsMap!vars)
    <2>1. /\ pc[s] = "forwarding" /\ pc' = [pc EXCEPT ![s] = "finished"] /\ told' = told
          /\ status' = IF status[s] = "running"
                       THEN [status EXCEPT ![s] = TerminalStatus(procErr[s])] ELSE status
      BY <1>4 DEF Finish, Goto, readVars
    <2>2. Holders' = Holders /\ s \in Holders
      BY <2>1, HoldersKeep DEF HoldingSteps, Holders
    <2>3. CASE status[s] = "running"
      <3>1. TerminalStatus(procErr[s]) \in TerminalStatuses
        BY TerminalStatusType DEF TypeOK
      <3>2. \A a \in Spawns : status'[a] = IF a \in {s} THEN TerminalStatus(procErr[s])
                                           ELSE status[a]
        BY <2>1, <2>3 DEF TypeOK
      <3>3. {s} \in SUBSET Holders /\ {s} # {} BY <2>2
      <3>4. \A a \in {s} : status[a] \notin TerminalStatuses BY <2>3 DEF TerminalStatuses
      <3>5. \E T \in SUBSET Holders : AgentRunsMap!Decide(T)
        BY <2>1, <2>2, <3>1, <3>2, <3>3, <3>4, StepDecides
      <3> QED BY <3>5 DEF AgentRunsMap!Next
    <2>4. CASE status[s] # "running"
      <3>1. Kept BY <2>1, <2>2, <2>4 DEF Kept
      <3> QED BY <1>1, <3>1
    <2> QED BY <2>3, <2>4
  <1>5. ASSUME NEW s \in Spawns, ForwardStep(s), ~Finish(s)
        PROVE  [AgentRunsMap!Next]_(AgentRunsMap!vars)
    <2>1. CASE ForwardRelease(s) BY <2>1, StepReturns DEF AgentRunsMap!Next
    <2>2. CASE ~ForwardRelease(s)
      <3>1. UNCHANGED <<told, status>>
        BY <1>5, <2>2 DEF ForwardStep, ForwardTake, ForwardPut, CloseOut, NothingButCall,
                          readVars, tableVars
      <3>2. \/ pc' = pc
            \/ pc[s] = "finished" /\ pc' = [pc EXCEPT ![s] = "announced"]
            \/ pc[s] = "released" /\ pc' = [pc EXCEPT ![s] = "closed"]
        BY <1>5, <2>2 DEF ForwardStep, ForwardTake, ForwardPut, CloseOut, Goto, callVars
      <3>3. Holders' = Holders
        <4>1. CASE pc' = pc BY <4>1 DEF Holders
        <4>2. CASE pc[s] = "finished" /\ pc' = [pc EXCEPT ![s] = "announced"]
          BY <4>2, HoldersKeep DEF HoldingSteps
        <4>3. CASE pc[s] = "released" /\ pc' = [pc EXCEPT ![s] = "closed"]
          BY <4>3, HoldersKeep DEF HoldingSteps
        <4> QED BY <3>2, <4>1, <4>2, <4>3
      <3>4. Kept BY <3>1, <3>3 DEF Kept
      <3> QED BY <1>1, <3>4
    <2> QED BY <2>1, <2>2
  <1>6. ASSUME NEW s \in Spawns, Receive(s) PROVE [AgentRunsMap!Next]_(AgentRunsMap!vars)
    <2>1. CASE Head(out[s]) \in EventKinds
      <3>1. UNCHANGED <<pc, told, status>> BY <1>6, <2>1 DEF Receive, callVars, tableVars
      <3>2. Kept BY <3>1 DEF Kept, Holders
      <3> QED BY <1>1, <3>2
    <2>2. CASE Head(out[s]) \notin EventKinds
      BY <1>6, <2>2, StepTells DEF AgentRunsMap!Next
    <2> QED BY <2>1, <2>2
  <1>7. ASSUME NEW S \in SUBSET Running, CancelAll(S), UNCHANGED <<pc, told>>
        PROVE  [AgentRunsMap!Next]_(AgentRunsMap!vars)
    <2>1. Holders' = Holders BY <1>7 DEF Holders
    <2>2. \A a \in S : a \in Spawns /\ status[a] = "running" /\ a \in Holders
      BY <1>7 DEF Running, SpawnInv, TableInv, TypeOK, Holders, HoldingSteps
    <2>3. \A a \in Spawns : status'[a] = IF a \in S THEN "canceled" ELSE status[a]
      BY <1>7 DEF CancelAll
    <2>4. CASE S = {}
      <3>1. Kept BY <1>7, <2>1, <2>3, <2>4 DEF Kept
      <3> QED BY <1>1, <3>1
    <2>5. CASE S # {}
      <3>1. "canceled" \in TerminalStatuses BY DEF TerminalStatuses
      <3>2. \A a \in S : status[a] \notin TerminalStatuses BY <2>2 DEF TerminalStatuses
      <3>3. S \in SUBSET Holders BY <2>2
      <3>4. \E T \in SUBSET Holders : AgentRunsMap!Decide(T)
        BY <1>7, <2>1, <2>3, <2>5, <3>1, <3>2, <3>3, StepDecides
      <3> QED BY <3>4 DEF AgentRunsMap!Next
    <2> QED BY <2>4, <2>5
  <1>8. ASSUME NEW s \in Spawns, Cancel(s) PROVE [AgentRunsMap!Next]_(AgentRunsMap!vars)
    <2>1. {s} \in SUBSET Running /\ CancelAll({s}) /\ UNCHANGED <<pc, told>>
      BY <1>8 DEF Cancel, callVars, readVars
    <2> QED BY <1>7, <2>1
  <1>9. ASSUME ShutdownStep PROVE [AgentRunsMap!Next]_(AgentRunsMap!vars)
    <2>1. CASE ShutdownBegin
      <3>1. Running \in SUBSET Running /\ CancelAll(Running) /\ UNCHANGED <<pc, told>>
        BY <2>1 DEF ShutdownBegin, callVars, readVars
      <3> QED BY <1>7, <3>1
    <2>2. CASE ShutdownGraceOver \/ ShutdownCleanup
      <3>1. UNCHANGED <<pc, told, status>>
        BY <2>2 DEF ShutdownGraceOver, ShutdownCleanup, callVars, readVars, tableVars
      <3>2. Kept BY <3>1 DEF Kept, Holders
      <3> QED BY <1>1, <3>2
    <2> QED BY <1>9, <2>1, <2>2 DEF ShutdownStep
  <1>10. ASSUME UNCHANGED vars PROVE [AgentRunsMap!Next]_(AgentRunsMap!vars)
    <2>1. UNCHANGED <<pc, told, status>> BY <1>10 DEF vars, callVars, readVars, tableVars
    <2>2. Kept BY <2>1 DEF Kept, Holders
    <2> QED BY <1>1, <2>2
  <1> QED
    BY <1>2, <1>3, <1>4, <1>5, <1>6, <1>8, <1>9, <1>10 DEF Next, CallerStep, Quiescent

(***************************************************************************)
(* The orchestrator implements AgentRuns: never more than PoolSize agents  *)
(* hold a slot, an agent's outcome is decided once and while it holds its  *)
(* slot, and its consumer is told that outcome, once.                      *)
(***************************************************************************)
THEOREM RefinesAgentRuns == Spec => ImplementsAgentRuns
<1>1. Init => AgentRunsMap!Init
  <2> SUFFICES ASSUME Init PROVE AgentRunsMap!Init OBVIOUS
  <2>1. Holders = {} BY DEF Init, Holders, HoldingSteps
  <2> QED BY <2>1 DEF Init, AgentRunsMap!Init, TerminalStatuses
<1>2. TypeOK /\ SpawnInv /\ SlotAccounting /\ TellInv /\ [Next]_vars
        => [AgentRunsMap!Next]_(AgentRunsMap!vars)
  BY StepRefines
<1>3. QED
  BY <1>1, <1>2, TypeCorrect, SpawnInvariant, SlotsAccounted, TellInvariant, PTL
     DEF Spec, ImplementsAgentRuns, AgentRunsMap!Spec

=============================================================================
