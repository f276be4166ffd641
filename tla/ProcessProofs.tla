---------------------------- MODULE ProcessProofs ----------------------------
(***************************************************************************)
(* Proofs about the processes the program owns.                            *)
(*                                                                         *)
(* Shell commands (BashSupervisor), for any number of commands and tool    *)
(* calls and any capacity: the table keeps its bound, and no background    *)
(* command loses its owner.                                                *)
(*                                                                         *)
(* Language servers (LspManager), for any number of calls: a server that   *)
(* runs is in the table, being started, or about to be closed; a call      *)
(* asks no server but one of the table; a call that waits is known to the  *)
(* reader.                                                                 *)
(***************************************************************************)
EXTENDS BashSupervisor, LspManager, FiniteSetTheorems, WellFoundedInduction, TLAPS

-----------------------------------------------------------------------------
\* Shell commands.

\* The oldest of a non-empty table is in the table.
LEMMA OldestIsInTable ==
    ASSUME NEW handles \in SUBSET Procs, handles # {}
    PROVE  Oldest(handles) \in handles
  <1>1. ASSUME NEW S \in SUBSET Nat, S # {} PROVE Min(S) \in S
    <2> DEFINE R == {pair \in Nat \X Nat : pair[1] < pair[2]}
    <2>1. IsWellFoundedOn(R, Nat) BY NatLessThanWellFounded DEF OpToRel
    <2>2. PICK x \in S : \A y \in S : ~(<<y, x>> \in R)
      <3> HIDE DEF R
      <3> QED BY <1>1, <2>1, WFMin
    <2>3. ASSUME NEW y \in S PROVE x =< y
      <3>1. y \in Nat /\ x \in Nat /\ <<y, x>> \in Nat \X Nat BY <1>1
      <3>2. ~(y < x) BY <2>2, <3>1
      <3> QED BY <3>1, <3>2
    <2> QED BY <2>3 DEF Min
  <1>2. Procs \subseteq Nat BY BashSupervisorAssumption DEF Procs
  <1>3. CASE {p \in handles : Exited(p)} # {} BY <1>1, <1>2, <1>3 DEF Oldest
  <1>4. CASE {p \in handles : Exited(p)} = {} BY <1>1, <1>2, <1>4 DEF Oldest
  <1> QED BY <1>3, <1>4

\* The table is finite, and its size a number.
LEMMA TableIsFinite ==
    \A procs \in SUBSET Procs : IsFiniteSet(procs)
  <1>1. MaxProcs \in Int /\ 1 \in Int BY BashSupervisorAssumption
  <1>2. IsFiniteSet(Procs) BY <1>1, FS_Interval DEF Procs
  <1> QED BY <1>2, FS_Subset

\* The commands that register takes out of the table to make room.
Evicted(procs) == IF Cardinality(procs) >= Capacity THEN {Oldest(procs)} ELSE {}

\* A table of at most Capacity commands is within its bound again once a new command
\* has come and the oldest of a full table has gone.
LEMMA RegisterKeepsBound ==
    ASSUME NEW procs \in SUBSET Procs, Cardinality(procs) <= Capacity, NEW p \in Procs
    PROVE  /\ Evicted(procs) \subseteq procs
           /\ \A v, w \in Evicted(procs) : v = w
           /\ Cardinality({p} \union (procs \ Evicted(procs))) <= Capacity
  <1> DEFINE victims == Evicted(procs)
  <1> USE DEF Evicted
  <1>1. IsFiniteSet(procs) BY TableIsFinite
  <1>2. Cardinality(procs) \in Nat BY <1>1, FS_CardinalityType
  <1>3. CASE Cardinality(procs) >= Capacity
    <2>1. procs # {} BY <1>3, FS_EmptySet, BashSupervisorAssumption
    <2>2. Oldest(procs) \in procs BY <2>1, OldestIsInTable
    <2>3. victims = {Oldest(procs)} BY <1>3
    <2>4. IsFiniteSet(procs \ victims) /\ Cardinality(procs \ victims) = Cardinality(procs) - 1
      BY <1>1, <2>2, <2>3, FS_RemoveElement
    <2> DEFINE rest == procs \ victims
    <2>5. Cardinality(rest) \in Nat BY <2>4, FS_CardinalityType
    <2>6. Cardinality(rest \union {p}) = Cardinality(rest) \/
          Cardinality(rest \union {p}) = Cardinality(rest) + 1
      BY <2>4, FS_AddElement
    <2>7. Cardinality({p} \union rest) <= Capacity
      <3>1. Cardinality({p} \union rest) = Cardinality(rest \union {p})
        <4>1. {p} \union rest = rest \union {p} OBVIOUS
        <4> QED BY <4>1, Zenon
      <3>2. Cardinality(rest) + 1 <= Capacity BY <1>2, <2>4, BashSupervisorAssumption
      <3>3. Capacity \in Nat BY BashSupervisorAssumption
      <3> HIDE DEF rest
      <3> QED BY <2>5, <2>6, <3>1, <3>2, <3>3
    <2> QED BY <2>2, <2>3, <2>7
  <1>4. CASE ~(Cardinality(procs) >= Capacity)
    <2>1. victims = {} BY <1>4
    <2>2. {p} \union (procs \ victims) = procs \union {p} BY <2>1
    <2>3. Cardinality(procs \union {p}) <= Cardinality(procs) + 1
      BY <1>1, <1>2, FS_AddElement
    <2>4. Cardinality(procs \union {p}) \in Nat BY <1>1, FS_AddElement, FS_CardinalityType
    <2> QED BY <1>2, <1>4, <2>1, <2>2, <2>3, <2>4, BashSupervisorAssumption
  <1> QED BY <1>3, <1>4

\* Taking a command out of the table keeps the table within its bound.
LEMMA ForgetKeepsBound ==
    ASSUME NEW procs \in SUBSET Procs, Cardinality(procs) <= Capacity, NEW p
    PROVE  procs \ {p} \subseteq Procs /\ Cardinality(procs \ {p}) <= Capacity
  <1>1. IsFiniteSet(procs) BY TableIsFinite
  <1>2. Cardinality(procs) \in Nat BY <1>1, FS_CardinalityType
  <1>3. Cardinality(procs \ {p}) \in {Cardinality(procs), Cardinality(procs) - 1}
    BY <1>1, FS_RemoveElement
  <1> QED BY <1>2, <1>3, BashSupervisorAssumption

-----------------------------------------------------------------------------
(***************************************************************************)
(* Types, one lemma for each group of steps.  The shapes of the variables  *)
(* come first, and the bound of the table, which needs its cardinality,    *)
(* apart from them.                                                        *)
(***************************************************************************)
ProcType == [state : {"none", "running", "exited"}, killed : BOOLEAN,
             written : 0 .. MaxWrites, cursor : 0 .. MaxWrites, told : BOOLEAN, final : BOOLEAN]

CallerType == [at : {"none", "watching", "canceling", "evicting", "handing", "handed", "ended"},
               victims : SUBSET Procs]

ToolType == [at : {"idle", "waiting", "judging", "killing", "dying", "closing"},
             of : {0} \union Procs]

\* A tool that is not idle has a command in hand.
InHand == \A r \in Tools : tool[r].at # "idle" => tool[r].of \in Procs

Shapes ==
    /\ proc \in [Procs -> ProcType]
    /\ caller \in [Procs -> CallerType]
    /\ table \subseteq Procs /\ reaper \subseteq Procs /\ doomed \subseteq Procs
    /\ swept \in BOOLEAN
    /\ tool \in [Tools -> ToolType]

WithinCapacity == Cardinality(table) <= Capacity

\* TypeOK is the shape of the records and the bound of the table.
LEMMA TypeIsShapesAndBound == TypeOK <=> Shapes /\ WithinCapacity
  BY DEF TypeOK, Shapes, WithinCapacity, ProcType, CallerType, ToolType

\* A kill and a last report keep the records of the commands well formed.
LEMMA ProcUpdates ==
    ASSUME proc \in [Procs -> ProcType], NEW p \in Procs
    PROVE  /\ Terminated(p) \in [Procs -> ProcType]
           /\ [proc EXCEPT ![p].cursor = proc[p].written] \in [Procs -> ProcType]
           /\ [proc EXCEPT ![p].cursor = proc[p].written, ![p].told = TRUE]
                 \in [Procs -> ProcType]
           /\ [proc EXCEPT ![p].told = TRUE] \in [Procs -> ProcType]
           /\ [proc EXCEPT ![p].told = TRUE, ![p].final = TRUE] \in [Procs -> ProcType]
  BY ZenonT(30) DEF ProcType, Terminated

\* What a call or a tool writes into its own record keeps it well formed.
LEMMA CallerUpdates ==
    ASSUME caller \in [Procs -> CallerType], NEW p \in Procs, NEW victims \in SUBSET Procs
    PROVE  \A at \in {"watching", "canceling", "evicting", "handing", "handed", "ended"} :
               /\ [caller EXCEPT ![p].at = at] \in [Procs -> CallerType]
               /\ [caller EXCEPT ![p].at = at, ![p].victims = victims] \in [Procs -> CallerType]
  <1> TAKE at \in {"watching", "canceling", "evicting", "handing", "handed", "ended"}
  <1>1. [caller[p] EXCEPT !.at = at] \in CallerType BY DEF CallerType
  <1>2. [caller EXCEPT ![p].at = at] \in [Procs -> CallerType] BY <1>1
  <1>3. [[caller[p] EXCEPT !.at = at] EXCEPT !.victims = victims] \in CallerType
    BY ZenonT(30) DEF CallerType
  <1>4. [caller EXCEPT ![p] = [[caller[p] EXCEPT !.at = at] EXCEPT !.victims = victims]]
          \in [Procs -> CallerType]
    BY <1>3
  <1> QED BY <1>2, <1>4

\* Every step of a command and its call keeps the shapes.
LEMMA CommandStepShapes ==
    ASSUME Shapes, WithinCapacity, NEW p \in Procs, CommandStep(p)
    PROVE  Shapes'
  <1> USE DEF Shapes
  <1>1. CASE Start(p) BY <1>1 DEF Start, ProcType, CallerType
  <1>2. CASE Write(p)
    <2>1. proc[p].written + 1 \in 0 .. MaxWrites
      BY <1>2, BashSupervisorAssumption DEF Write, ProcType
    <2> QED BY <1>2, <2>1 DEF Write, ProcType
  <1>3. CASE Exit(p) BY <1>3 DEF Exit, ProcType
  <1>4. CASE Finish(p) BY <1>4, ProcUpdates, CallerUpdates DEF Finish
  <1>5. CASE CancelTurn(p) BY <1>5, ProcUpdates, CallerUpdates DEF CancelTurn
  <1>6. CASE ReturnCanceled(p) BY <1>6, CallerUpdates DEF ReturnCanceled
  <1>7. CASE Background(p)
    <2>1. Evicted(table) \subseteq Procs BY RegisterKeepsBound DEF WithinCapacity
    <2>2. /\ table' = {p} \union (table \ Evicted(table))
          /\ caller' = [caller EXCEPT
                ![p].at = IF Evicted(table) = {} THEN "handing" ELSE "evicting",
                ![p].victims = Evicted(table)]
      BY <1>7 DEF Background, Evicted
    <2>3. caller' \in [Procs -> CallerType] BY <2>1, <2>2, CallerUpdates
    <2> QED BY <1>7, <2>2, <2>3 DEF Background
  <1>8. CASE KillVictim(p)
    <2>1. PICK victim \in caller[p].victims : proc' = Terminated(victim)
      BY <1>8 DEF KillVictim
    <2>2. victim \in Procs BY DEF CallerType
    <2>3. caller' \in [Procs -> CallerType] BY <1>8, CallerUpdates DEF KillVictim
    <2> QED BY <1>8, <2>1, <2>2, <2>3, ProcUpdates DEF KillVictim
  <1>9. CASE HandOver(p) BY <1>9, ProcUpdates, CallerUpdates DEF HandOver
  <1>10. CASE ReapExit(p) BY <1>10 DEF ReapExit
  <1>11. CASE ReapLifetime(p) BY <1>11, ProcUpdates DEF ReapLifetime
  <1>12. CASE KillDoomed(p) BY <1>12, ProcUpdates DEF KillDoomed
  <1> QED
    BY <1>1, <1>2, <1>3, <1>4, <1>5, <1>6, <1>7, <1>8, <1>9, <1>10, <1>11, <1>12 DEF CommandStep

\* Every step of bash_wait and bash_kill keeps the shapes.
LEMMA ToolStepShapes ==
    ASSUME Shapes, InHand, NEW r \in Tools, ToolStep(r)
    PROVE  Shapes'
  <1> USE DEF Shapes, Goto, Idle
  <1>1. ASSUME NEW p \in Procs, WaitHandle(r, p) \/ KillHandle(r, p) PROVE Shapes'
    BY <1>1 DEF WaitHandle, KillHandle, Lookup, ToolType
  <1>2. CASE Take(r)
    <2>1. tool[r].of \in Procs BY <1>2 DEF Take, InHand
    <2>2. tool' \in [Tools -> ToolType] BY <1>2 DEF Take, ToolType
    <2> QED BY <1>2, <2>1, <2>2, ProcUpdates DEF Take
  <1>3. CASE Judge(r)
    <2>1. tool[r].of \in Procs BY <1>3 DEF Judge, InHand
    <2>2. \/ proc' = proc
          \/ proc' = [proc EXCEPT ![tool[r].of].told = TRUE, ![tool[r].of].final = TRUE]
      BY <1>3 DEF Judge
    <2>4. [proc EXCEPT ![tool[r].of].told = TRUE, ![tool[r].of].final = TRUE]
             \in [Procs -> ProcType]
      BY <2>1, ProcUpdates
    <2>5. proc' \in [Procs -> ProcType] BY <2>2, <2>4
    <2>3. tool' \in [Tools -> ToolType] BY <1>3 DEF Judge, ToolType
    <2> QED BY <1>3, <2>3, <2>5 DEF Judge
  <1>4. CASE StopHandle(r)
    <2>1. tool[r].of \in Procs BY <1>4 DEF StopHandle, InHand
    <2>2. tool' \in [Tools -> ToolType] BY <1>4, <2>1 DEF StopHandle, ToolType
    <2> QED BY <1>4, <2>1, <2>2, ProcUpdates DEF StopHandle
  <1>5. CASE CloseHandle(r)
    <2>1. tool[r].of \in Procs BY <1>5 DEF CloseHandle, InHand
    <2>2. tool' \in [Tools -> ToolType] BY <1>5, <2>1 DEF CloseHandle, ToolType
    <2> QED BY <1>5, <2>1, <2>2, ProcUpdates DEF CloseHandle
  <1> QED BY <1>1, <1>2, <1>3, <1>4, <1>5 DEF ToolStep

\* A lookup takes a command in hand, and no other step puts another in its place.
LEMMA NextInHand ==
    ASSUME Shapes, InHand, [Next]_vars
    PROVE  InHand'
  <1>1. ASSUME NEW p \in Procs, CommandStep(p) PROVE UNCHANGED tool
    BY <1>1 DEF CommandStep, Start, Write, Exit, Finish, CancelTurn, ReturnCanceled, Background,
                KillVictim, HandOver, ReapExit, ReapLifetime, KillDoomed
  <1>2. KillAll => UNCHANGED tool BY DEF KillAll
  <1>3. UNCHANGED tool => InHand' BY DEF InHand
  <1>4. ASSUME NEW r \in Tools, NEW p \in Procs, WaitHandle(r, p) \/ KillHandle(r, p)
        PROVE  InHand'
    BY <1>4 DEF WaitHandle, KillHandle, Lookup, InHand, Shapes
  <1>5. ASSUME NEW r \in Tools, Take(r) \/ StopHandle(r) PROVE InHand'
    <2>1. PICK at : tool' = [tool EXCEPT ![r].at = at] BY <1>5 DEF Take, StopHandle, Goto
    <2>2. tool[r].of \in Procs BY <1>5 DEF Take, StopHandle, InHand
    <2> QED BY <2>1, <2>2 DEF InHand, Shapes, ToolType
  <1>6. ASSUME NEW r \in Tools, Judge(r) \/ CloseHandle(r) PROVE InHand'
    <2>1. tool' = [tool EXCEPT ![r] = Idle] BY <1>6 DEF Judge, CloseHandle
    <2> QED BY <2>1 DEF InHand, Shapes, Idle
  <1> QED BY <1>1, <1>2, <1>3, <1>4, <1>5, <1>6 DEF Next, ToolStep, vars

\* Only background fills the table, and it makes room first; the other steps leave the
\* table as it was or take commands out.
LEMMA NextWithinCapacity ==
    ASSUME Shapes, WithinCapacity, [Next]_vars
    PROVE  WithinCapacity'
  <1>1. ASSUME NEW p \in Procs, Background(p) PROVE WithinCapacity'
    <2>1. Cardinality({p} \union (table \ Evicted(table))) <= Capacity
      BY RegisterKeepsBound DEF Shapes, WithinCapacity
    <2>2. table' = {p} \union (table \ Evicted(table)) BY <1>1 DEF Background, Evicted
    <2> QED BY <2>1, <2>2 DEF WithinCapacity
  <1>2. ASSUME NEW p PROVE table' = table \ {p} => WithinCapacity'
    BY ForgetKeepsBound DEF Shapes, WithinCapacity
  <1>3. ASSUME NEW p \in Procs, CommandStep(p), ~Background(p) PROVE UNCHANGED table
    BY <1>3 DEF CommandStep, Start, Write, Exit, Finish, CancelTurn, ReturnCanceled, KillVictim,
                HandOver, ReapExit, ReapLifetime, KillDoomed
  <1>4. ASSUME NEW r \in Tools, ToolStep(r)
        PROVE  UNCHANGED table \/ table' = table \ {tool[r].of}
    BY <1>4 DEF ToolStep, WaitHandle, KillHandle, Lookup, Take, Judge, StopHandle, CloseHandle
  <1>5. KillAll => WithinCapacity'
    BY FS_EmptySet, BashSupervisorAssumption DEF KillAll, WithinCapacity
  <1>6. UNCHANGED table => WithinCapacity' BY DEF WithinCapacity
  <1> QED BY <1>1, <1>2, <1>3, <1>4, <1>5, <1>6 DEF Next, vars

(***************************************************************************)
(* Every state is of its type: the table never holds more than             *)
(* maxBackgroundProcs commands, and a tool past its lookup has one of the  *)
(* commands in hand.                                                       *)
(***************************************************************************)
THEOREM TypeCorrect == Spec => [](TypeOK /\ InHand)
<1>1. Init => Shapes /\ InHand /\ WithinCapacity
  <2> SUFFICES ASSUME Init PROVE Shapes /\ InHand /\ WithinCapacity
    OBVIOUS
  <2>1. Shapes
    <3>1. 0 \in 0 .. MaxWrites BY BashSupervisorAssumption
    <3>2. proc \in [Procs -> ProcType] BY <3>1 DEF Init, ProcType
    <3>3. caller \in [Procs -> CallerType] BY DEF Init, CallerType
    <3>4. tool \in [Tools -> ToolType] BY DEF Init, Idle, ToolType
    <3> QED BY <3>2, <3>3, <3>4 DEF Init, Shapes
  <2>2. InHand BY DEF Init, InHand, Idle
  <2>3. WithinCapacity BY FS_EmptySet, BashSupervisorAssumption DEF Init, WithinCapacity
  <2> QED BY <2>1, <2>2, <2>3
<1>2. Shapes /\ InHand /\ WithinCapacity /\ [Next]_vars
        => Shapes' /\ InHand' /\ WithinCapacity'
  <2> SUFFICES ASSUME Shapes, InHand, WithinCapacity, [Next]_vars PROVE Shapes'
    BY NextWithinCapacity, NextInHand
  <2>1. CASE KillAll BY <2>1 DEF KillAll, Shapes
  <2>2. CASE UNCHANGED vars BY <2>2 DEF vars, Shapes
  <2> QED BY <2>1, <2>2, CommandStepShapes, ToolStepShapes DEF Next
<1>3. QED BY <1>1, <1>2, TypeIsShapesAndBound, PTL DEF Spec

-----------------------------------------------------------------------------
(***************************************************************************)
(* The custody of a background command.  The invariant is not inductive    *)
(* alone: a second KillAll would overwrite the commands that the first has *)
(* still to kill, a call that evicts twice would forget its first victim,  *)
(* and a call that starts again would forget them all.  So it says, too,   *)
(* that commands start in order and once, that a call holds at most one    *)
(* victim and only while it evicts, and that nothing is doomed before the  *)
(* sweep.                                                                  *)
(***************************************************************************)
InOrder == \E k \in 0 .. MaxProcs : Started = 1 .. k

CallsOfStarted == \A p \in Procs : caller[p].at # "none" => p \in Started

OneVictim ==
    \A p \in Procs :
        /\ caller[p].at # "evicting" => caller[p].victims = {}
        /\ \A v, w \in caller[p].victims : v = w

DoomedBySweep == swept \/ doomed = {}

Custody == InOrder /\ CallsOfStarted /\ OneVictim /\ DoomedBySweep /\ OwnedOrKilled

\* A command that starts has not started before.
LEMMA StartIsFirst ==
    ASSUME Shapes, Custody, NEW p \in Procs, Start(p)
    PROVE  p \notin Started /\ caller[p].at = "none" /\ InOrder'
  <1>1. PICK k \in 0 .. MaxProcs : Started = 1 .. k BY DEF Custody, InOrder
  <1>2. k \in Nat BY <1>1, BashSupervisorAssumption
  <1>3. Cardinality(1 .. k) = k BY <1>2, FS_Interval
  <1>4. p = k + 1 BY <1>1, <1>3, Zenon DEF Start
  <1>5. p \notin Started BY <1>1, <1>2, <1>4
  <1>6. Started' = Started \union {p} BY ZenonT(30) DEF Start, Started, Shapes, ProcType
  <1>7. Started' = 1 .. (k + 1) BY <1>1, <1>2, <1>4, <1>6
  <1>8. k + 1 \in 0 .. MaxProcs BY <1>2, <1>4, BashSupervisorAssumption DEF Procs
  <1> QED BY <1>5, <1>7, <1>8 DEF Custody, CallsOfStarted, InOrder

\* Commands stay started, and only a started command has a call.
LEMMA NextStarted ==
    ASSUME Shapes, InHand, Custody, [Next]_vars
    PROVE  InOrder' /\ CallsOfStarted'
  <1> USE DEF Shapes, ProcType, CallerType, Started
  <1>1. ASSUME NEW p \in Procs, Start(p) PROVE InOrder' /\ CallsOfStarted'
    <2>1. InOrder' BY <1>1, StartIsFirst
    <2>2. CallsOfStarted' BY <1>1 DEF Start, Custody, CallsOfStarted
    <2> QED BY <2>1, <2>2
  <1>2. ASSUME Started' = Started,
               \A p \in Procs : caller[p].at = "none" => caller'[p].at = "none"
        PROVE  InOrder' /\ CallsOfStarted'
    BY <1>2 DEF Custody, InOrder, CallsOfStarted
  <1>3. ASSUME NEW p \in Procs, CommandStep(p), ~Start(p)
        PROVE  /\ Started' = Started
               /\ \A a \in Procs : caller[a].at = "none" => caller'[a].at = "none"
    <2> USE <1>3 DEF Terminated, Running, Exited
    <2>1. CASE Write(p) \/ Exit(p) BY ZenonT(30), <2>1 DEF Write, Exit
    <2>2. CASE Finish(p) BY <2>2 DEF Finish
    <2>3. CASE CancelTurn(p) BY <2>3 DEF CancelTurn
    <2>4. CASE ReturnCanceled(p) BY <2>4 DEF ReturnCanceled
    <2>5. CASE Background(p) BY <2>5 DEF Background
    <2>6. CASE KillVictim(p) BY <2>6 DEF KillVictim
    <2>7. CASE HandOver(p) BY <2>7 DEF HandOver
    <2>8. CASE ReapExit(p) BY <2>8 DEF ReapExit
    <2>9. CASE ReapLifetime(p) BY <2>9 DEF ReapLifetime
    <2>10. CASE KillDoomed(p) BY <2>10 DEF KillDoomed
    <2> QED BY <2>1, <2>2, <2>3, <2>4, <2>5, <2>6, <2>7, <2>8, <2>9, <2>10 DEF CommandStep
  <1>4. ASSUME NEW r \in Tools, ToolStep(r) PROVE Started' = Started /\ UNCHANGED caller
    <2> USE DEF Terminated
    <2>1. CASE Take(r) BY <2>1 DEF Take
    <2>2. CASE Judge(r) BY SMTT(30), <2>2 DEF Judge
    <2>3. CASE StopHandle(r) BY <2>3 DEF StopHandle
    <2>4. CASE CloseHandle(r) BY <2>4 DEF CloseHandle
    <2>5. ASSUME NEW p \in Procs, WaitHandle(r, p) \/ KillHandle(r, p)
          PROVE  UNCHANGED <<proc, caller>>
      BY <2>5 DEF WaitHandle, KillHandle, Lookup
    <2> QED BY <1>4, <2>1, <2>2, <2>3, <2>4, <2>5 DEF ToolStep
  <1>5. KillAll \/ UNCHANGED vars => UNCHANGED <<proc, caller>> BY DEF KillAll, vars
  <1> QED BY <1>1, <1>2, <1>3, <1>4, <1>5 DEF Next

\* A call takes a victim in hand only when it has none, and lets go of it with the kill.
LEMMA NextOneVictim ==
    ASSUME Shapes, WithinCapacity, Custody, [Next]_vars
    PROVE  OneVictim'
  <1> USE DEF Shapes, CallerType, OneVictim
  <1>1. ASSUME NEW p \in Procs, Background(p) PROVE OneVictim'
    <2>1. \A v, w \in Evicted(table) : v = w
      BY <1>1, RegisterKeepsBound DEF WithinCapacity
    <2>2. caller' = [caller EXCEPT
             ![p].at = IF Evicted(table) = {} THEN "handing" ELSE "evicting",
             ![p].victims = Evicted(table)]
      BY <1>1 DEF Background, Evicted
    <2> QED BY <2>1, <2>2 DEF Custody
  <1>2. ASSUME NEW p \in Procs, KillVictim(p) PROVE OneVictim'
    BY <1>2 DEF KillVictim, Custody
  <1>3. ASSUME NEW p \in Procs, CommandStep(p), ~Background(p), ~KillVictim(p)
        PROVE  \/ UNCHANGED caller
               \/ \E at : /\ caller' = [caller EXCEPT ![p].at = at]
                          /\ caller[p].at # "evicting"
    <2> USE <1>3
    <2>1. CASE Start(p) BY <2>1, StartIsFirst DEF Start
    <2>2. CASE Finish(p) BY <2>2 DEF Finish
    <2>3. CASE CancelTurn(p) BY <2>3 DEF CancelTurn
    <2>4. CASE ReturnCanceled(p) BY <2>4 DEF ReturnCanceled
    <2>5. CASE HandOver(p) BY <2>5 DEF HandOver
    <2>6. CASE Write(p) \/ Exit(p) \/ ReapExit(p) \/ ReapLifetime(p) \/ KillDoomed(p)
      BY <2>6 DEF Write, Exit, ReapExit, ReapLifetime, KillDoomed
    <2> QED BY <2>1, <2>2, <2>3, <2>4, <2>5, <2>6 DEF CommandStep
  <1>4. ASSUME NEW p \in Procs, NEW at, caller' = [caller EXCEPT ![p].at = at],
               caller[p].at # "evicting"
        PROVE  OneVictim'
    BY <1>4 DEF Custody
  <1>5. ASSUME NEW r \in Tools, ToolStep(r) PROVE UNCHANGED caller
    BY <1>5 DEF ToolStep, WaitHandle, KillHandle, Lookup, Take, Judge, StopHandle, CloseHandle
  <1>6. UNCHANGED caller => OneVictim' BY DEF Custody
  <1> QED BY <1>1, <1>2, <1>3, <1>4, <1>5, <1>6 DEF Next, KillAll, vars

\* Only the sweep dooms commands, and there is one sweep.
LEMMA NextDoomed ==
    ASSUME Shapes, Custody, [Next]_vars
    PROVE  DoomedBySweep' /\ (KillAll => doomed = {})
  <1>1. ASSUME NEW p \in Procs, CommandStep(p)
        PROVE  UNCHANGED swept /\ (UNCHANGED doomed \/ doomed' = doomed \ {p})
    BY <1>1 DEF CommandStep, Start, Write, Exit, Finish, CancelTurn, ReturnCanceled, Background,
                KillVictim, HandOver, ReapExit, ReapLifetime, KillDoomed
  <1>2. ASSUME NEW r \in Tools, ToolStep(r) PROVE UNCHANGED <<swept, doomed>>
    BY <1>2 DEF ToolStep, WaitHandle, KillHandle, Lookup, Take, Judge, StopHandle, CloseHandle
  <1> QED BY <1>1, <1>2 DEF Next, KillAll, Custody, DoomedBySweep, vars

\* No step takes a background command from its owner without another to follow.
LEMMA NextOwned ==
    ASSUME Shapes, InHand, WithinCapacity, Custody, [Next]_vars
    PROVE  OwnedOrKilled'
  <1> USE DEF Shapes, ProcType, CallerType, InBackground, Condemned
  <1> SUFFICES ASSUME NEW a \in Procs, InBackground(a)', ~proc'[a].told
               PROVE  a \in table' \/ proc'[a].killed \/ Condemned(a)'
    BY DEF OwnedOrKilled
  <1>1. InBackground(a) /\ ~proc[a].told => a \in table \/ proc[a].killed \/ Condemned(a)
    BY DEF Custody, OwnedOrKilled
  <1>2. ASSUME NEW p \in Procs, Start(p) PROVE a \in table' \/ proc'[a].killed \/ Condemned(a)'
    BY <1>1, <1>2, StartIsFirst DEF Start
  <1>3. ASSUME NEW p \in Procs, Background(p)
        PROVE  a \in table' \/ proc'[a].killed \/ Condemned(a)'
    <2>1. /\ table' = {p} \union (table \ Evicted(table))
          /\ caller' = [caller EXCEPT
                ![p].at = IF Evicted(table) = {} THEN "handing" ELSE "evicting",
                ![p].victims = Evicted(table)]
          /\ UNCHANGED <<proc, doomed>>
          /\ caller[p].victims = {}
      BY <1>3 DEF Background, Evicted, Custody, OneVictim
    <2>2. CASE a = p BY <2>1, <2>2
    <2>3. CASE a # p /\ a \in Evicted(table)
      <3>1. a \in caller'[p].victims BY <2>1, <2>3
      <3> QED BY <3>1
    <2>4. CASE a # p /\ a \notin Evicted(table)
      <3>1. \A q \in Procs : a \in caller[q].victims => a \in caller'[q].victims BY <2>1
      <3> QED BY <1>1, <2>1, <2>4, <3>1
    <2> QED BY <2>2, <2>3, <2>4
  <1>4. ASSUME NEW p \in Procs, KillVictim(p)
        PROVE  a \in table' \/ proc'[a].killed \/ Condemned(a)'
    <2>1. PICK victim \in caller[p].victims : proc' = Terminated(victim)
      BY <1>4 DEF KillVictim
    <2>2. /\ victim \in Procs
          /\ \A v \in caller[p].victims : v = victim
          /\ caller' = [caller EXCEPT ![p].at = "handing", ![p].victims = {}]
          /\ UNCHANGED <<table, doomed>>
      BY <1>4, <2>1 DEF KillVictim, Custody, OneVictim
    <2>3. CASE a = victim BY <2>1, <2>2, <2>3 DEF Terminated
    <2>4. CASE a # victim
      <3>1. \A q \in Procs : a \in caller[q].victims => a \in caller'[q].victims
        BY <2>2, <2>4
      <3>2. proc'[a] = proc[a] BY <2>1, <2>2, <2>4 DEF Terminated
      <3> QED BY <1>1, <2>2, <3>1, <3>2
    <2> QED BY <2>3, <2>4
  <1>5. ASSUME NEW p \in Procs, KillDoomed(p)
        PROVE  a \in table' \/ proc'[a].killed \/ Condemned(a)'
    BY <1>1, <1>5 DEF KillDoomed, Terminated
  <1>6. CASE KillAll BY <1>1, <1>6, NextDoomed DEF KillAll
  <1> DEFINE Kept ==
        /\ a \in table => a \in table' \/ proc'[a].told
        /\ UNCHANGED doomed
        /\ \A q \in Procs : caller'[q].victims = caller[q].victims
        /\ InBackground(a)' => InBackground(a)
        /\ ~proc'[a].told => ~proc[a].told
        /\ proc[a].killed => proc'[a].killed
  <1>7. Kept => a \in table' \/ proc'[a].killed \/ Condemned(a)' BY <1>1
  <1>8. ASSUME NEW p \in Procs, CommandStep(p),
               ~Start(p), ~Background(p), ~KillVictim(p), ~KillDoomed(p)
        PROVE  Kept
    <2> USE <1>8 DEF Terminated
    <2>1. CASE Write(p) BY <2>1 DEF Write
    <2>2. CASE Exit(p) BY <2>2 DEF Exit
    <2>3. CASE Finish(p) BY <2>3 DEF Finish
    <2>4. CASE CancelTurn(p) BY <2>4 DEF CancelTurn
    <2>5. CASE ReturnCanceled(p) BY <2>5 DEF ReturnCanceled
    <2>6. CASE HandOver(p) BY <2>6 DEF HandOver
    <2>7. CASE ReapExit(p) BY <2>7 DEF ReapExit
    <2>8. CASE ReapLifetime(p) BY <2>8 DEF ReapLifetime
    <2> QED BY <2>1, <2>2, <2>3, <2>4, <2>5, <2>6, <2>7, <2>8 DEF CommandStep
  <1>9. ASSUME NEW r \in Tools, ToolStep(r) PROVE Kept
    <2>1. ASSUME NEW p \in Procs, WaitHandle(r, p) \/ KillHandle(r, p) PROVE Kept
      BY <2>1 DEF WaitHandle, KillHandle, Lookup
    <2>2. CASE Take(r) BY <2>2 DEF Take
    <2>3. CASE Judge(r)
      <3>1. tool[r].of \in Procs BY <2>3 DEF Judge, InHand
      <3>2. CASE Running(tool[r].of) BY <2>3, <3>2 DEF Judge
      <3>3. CASE ~Running(tool[r].of) BY <2>3, <3>1, <3>3 DEF Judge
      <3> QED BY <3>2, <3>3
    <2>4. CASE StopHandle(r) BY <2>4 DEF StopHandle, Terminated
    <2>5. CASE CloseHandle(r)
      <3>1. tool[r].of \in Procs BY <2>5 DEF CloseHandle, InHand
      <3> QED BY <2>5, <3>1 DEF CloseHandle
    <2> QED BY <1>9, <2>1, <2>2, <2>3, <2>4, <2>5 DEF ToolStep
  <1>10. CASE UNCHANGED vars
    <2>1. Kept BY <1>10 DEF vars
    <2> QED BY <2>1, <1>7
  <1> HIDE DEF Kept
  <1> QED BY <1>2, <1>3, <1>4, <1>5, <1>6, <1>7, <1>8, <1>9, <1>10 DEF Next

(***************************************************************************)
(* A background command always has an owner until its exit was reported:   *)
(* its handle finds it, it was killed, or whoever took it out of the table *)
(* is about to kill it.                                                    *)
(***************************************************************************)
THEOREM NeverOrphaned == Spec => []OwnedOrKilled
<1>1. Init => Custody
  <2> SUFFICES ASSUME Init PROVE Custody
    OBVIOUS
  <2>1. Started = 1 .. 0 BY DEF Init, Started
  <2>2. 0 \in 0 .. MaxProcs BY BashSupervisorAssumption
  <2> QED
    BY <2>1, <2>2
       DEF Init, Custody, InOrder, CallsOfStarted, OneVictim, DoomedBySweep, OwnedOrKilled,
           InBackground
<1>2. Shapes /\ InHand /\ WithinCapacity /\ Custody /\ [Next]_vars => Custody'
  BY NextStarted, NextOneVictim, NextDoomed, NextOwned DEF Custody
<1>3. Custody => OwnedOrKilled BY DEF Custody
<1>4. TypeOK <=> Shapes /\ WithinCapacity BY TypeIsShapesAndBound
<1>5. QED BY <1>1, <1>2, <1>3, <1>4, TypeCorrect, PTL DEF Spec

-----------------------------------------------------------------------------
\* Language servers.

CallPlaces ==
    {"idle", "entering", "writing", "waiting", "placing", "yielding",
     "discarding", "serving", "reading", "formatting", "formatted", "over"}
CallRecords ==
    [at : CallPlaces, srv : Callers, queries : BOOLEAN, ch : {"empty", "answer", "exited"}]
ServerRecords ==
    [proc : {"none", "running", "exited"}, stdout : BOOLEAN,
     reader : {"none", "reading", "ending", "ended"},
     close : {"none", "waiting", "ending", "returned"},
     done : 0 .. 2, opened : BOOLEAN, doc : {"unknown", "open", "early"}]

LspTypes ==
    /\ call \in [Callers -> CallRecords]
    /\ server \in [Callers -> ServerRecords]
    /\ inbox \in [Callers -> SUBSET Callers]
    /\ wire \in [Callers -> SUBSET Callers]
    /\ pending \in [Callers -> SUBSET Callers]
    /\ servers \subseteq Callers
    /\ taken \subseteq Callers
    /\ shut \in BOOLEAN

\* A call whose server, if it started one, is in use or no longer its business.
Settled(c) ==
    ~Starting(c) /\ call[c].at \notin {"idle", "placing", "yielding", "discarding"}

\* A call that has not given its server away, or taken one, has a server of its own name.
CallInv ==
    \A c \in Callers :
        /\ call[c].at = "idle" =>
              /\ server[c].proc = "none" /\ server[c].reader = "none"
              /\ server[c].close = "none" /\ server[c].done = 0
        /\ call[c].at \in {"idle", "placing", "discarding"} \/ Starting(c) =>
              call[c].srv = c /\ ~call[c].queries
        /\ Starting(c) => server[c].close = "none"
        /\ call[c].at = "reading" => call[c].queries

\* One server at most is in the table, nobody closes it, and Shutdown takes it once.
TableInv ==
    /\ \A r, s \in servers : r = s
    /\ servers \intersect taken = {}
    /\ ~shut => taken = {}
    /\ \A s \in servers \union taken : Settled(s)
    /\ \A s \in servers : server[s].close = "none"

\* Close returns when the process is gone; each of the two that close done does so once.
ServerFine(r) ==
    /\ r.close \in {"ending", "returned"} => r.proc # "running"
    /\ r.reader = "ended" => r.done > 0
    /\ r.done <= (IF r.reader = "ended" THEN 1 ELSE 0) + (IF r.close = "returned" THEN 1 ELSE 0)

ServerInv == \A s \in Callers : ServerFine(server[s])

\* A request in flight is known to the reader until something is in its channel.
RequestInv ==
    \A c \in Callers :
        call[c].at \in {"writing", "waiting"} /\ call[c].ch = "empty"
        => c \in pending[call[c].srv]

LspInv ==
    CallInv /\ TableInv /\ ServerInv /\ RequestInv /\ OwnedOrClosing /\ UsedIsShared

-----------------------------------------------------------------------------
\* The records keep their shapes.
LEMMA CallIsTyped ==
    ASSUME LspTypes, NEW c \in Callers, NEW r \in CallRecords, call' = [call EXCEPT ![c] = r]
    PROVE  call' \in [Callers -> CallRecords]
  BY DEF LspTypes

LEMMA ServerIsTyped ==
    ASSUME LspTypes, NEW s \in Callers, NEW r \in ServerRecords,
           server' = [server EXCEPT ![s] = r]
    PROVE  server' \in [Callers -> ServerRecords]
  BY DEF LspTypes

LEMMA GotoIsTyped ==
    ASSUME LspTypes, NEW c \in Callers, NEW at \in CallPlaces, Proceed(c, at)
    PROVE  call' \in [Callers -> CallRecords]
  <1> DEFINE r == IF at = "over" THEN [at |-> at, srv |-> c, queries |-> FALSE, ch |-> "empty"]
                                 ELSE [call[c] EXCEPT !.at = at, !.ch = "empty"]
  <1>1. call[c] \in CallRecords BY DEF LspTypes
  <1>2. r \in CallRecords BY <1>1 DEF CallRecords
  <1>3. call' = [call EXCEPT ![c] = r] BY DEF Proceed
  <1> HIDE DEF r
  <1> QED BY <1>2, <1>3, CallIsTyped

\* A call goes somewhere after a request.
LEMMA ReturnGoes ==
    ASSUME NEW c \in Callers, NEW answered \in BOOLEAN, Return(c, answered)
    PROVE  \E at \in CallPlaces : Proceed(c, at)
  BY DEF Return, AfterRequest, CallPlaces

\* No step of a call leaves the types.
LEMMA CallTypes ==
    ASSUME LspTypes, LspInv, NEW c \in Callers, CallRuns(c) \/ TimesOut(c)
    PROVE  LspTypes'
  <1>1. /\ call[c] \in CallRecords /\ call[c].srv \in Callers
        /\ server[c] \in ServerRecords /\ server[call[c].srv] \in ServerRecords
    BY DEF LspTypes, CallRecords
  <1> DEFINE s == call[c].srv
  <1>2. ASSUME call' \in [Callers -> CallRecords],
               UNCHANGED <<server, inbox, wire, manager>>,
               pending' \in [Callers -> SUBSET Callers]
        PROVE  LspTypes'
    BY <1>2 DEF LspTypes, manager
  <1>3. ASSUME NEW at \in CallPlaces, Proceed(c, at),
               UNCHANGED <<server, messages, manager>>
        PROVE  LspTypes'
    BY <1>2, <1>3, GotoIsTyped DEF LspTypes, messages
  <1>4. ASSUME NEW answered \in BOOLEAN, Return(c, answered),
               UNCHANGED <<server, inbox, wire, manager>>,
               pending' \in [Callers -> SUBSET Callers]
        PROVE  LspTypes'
    BY <1>2, <1>4, ReturnGoes, GotoIsTyped
  <1>5. pending \in [Callers -> SUBSET Callers]
    BY DEF LspTypes
  <1>6. CASE ServerFor(c)
    <2>1. CASE servers # {}
      <3>1. PICK t \in servers : call' = [call EXCEPT ![c].at = "serving", ![c].srv = t]
        BY <1>6, <2>1 DEF ServerFor
      <3> DEFINE r == [call[c] EXCEPT !.at = "serving", !.srv = t]
      <3>2. t \in Callers /\ r \in CallRecords
        BY <1>1 DEF LspTypes, CallRecords, CallPlaces
      <3>3. call' = [call EXCEPT ![c] = r]
        BY <3>1
      <3> HIDE DEF r
      <3>4. call' \in [Callers -> CallRecords]
        BY <3>2, <3>3, CallIsTyped
      <3> QED BY <1>2, <1>5, <1>6, <2>1, <3>4 DEF ServerFor, messages
    <2>2. CASE servers = {}
      <3> DEFINE r == [server[c] EXCEPT !.proc = "running", !.stdout = TRUE, !.reader = "reading"]
      <3>1. r \in ServerRecords
        BY <1>1 DEF ServerRecords
      <3>2. server' = [server EXCEPT ![c] = r] /\ Proceed(c, "entering")
            /\ UNCHANGED <<messages, manager>>
        BY <1>6, <2>2 DEF ServerFor
      <3> HIDE DEF r
      <3>3. server' \in [Callers -> ServerRecords] /\ call' \in [Callers -> CallRecords]
        BY <3>1, <3>2, ServerIsTyped, GotoIsTyped DEF CallPlaces
      <3> QED BY <3>2, <3>3 DEF LspTypes, messages, manager
    <2> QED BY <2>1, <2>2
  <1>7. CASE NoServer(c) \/ Discarded(c) \/ GiveUp(c)
    BY <1>3, <1>7 DEF NoServer, Discarded, GiveUp, CallPlaces
  <1>8. CASE Place(c)
    <2>1. CASE servers = {}
      <3>1. call' \in [Callers -> CallRecords]
        BY <1>8, <2>1, GotoIsTyped DEF Place, CallPlaces
      <3> QED BY <1>8, <2>1, <3>1 DEF Place, LspTypes, messages
    <2>2. CASE servers # {}
      <3>1. PICK t \in servers : call' = [call EXCEPT ![c].at = "yielding", ![c].srv = t]
        BY <1>8, <2>2 DEF Place
      <3> DEFINE r == [call[c] EXCEPT !.at = "yielding", !.srv = t]
      <3>2. t \in Callers /\ r \in CallRecords
        BY <1>1 DEF LspTypes, CallRecords, CallPlaces
      <3>3. call' = [call EXCEPT ![c] = r]
        BY <3>1
      <3> HIDE DEF r
      <3>4. call' \in [Callers -> CallRecords]
        BY <3>2, <3>3, CallIsTyped
      <3> QED BY <1>2, <1>5, <1>8, <2>2, <3>4 DEF Place, messages, manager
    <2> QED BY <2>1, <2>2
  <1>9. CASE EnsureOpen(c)
    <2> DEFINE r == [server[s] EXCEPT !.opened = TRUE]
               q == [call[c] EXCEPT !.at = IF server[s].opened THEN "entering" ELSE "reading",
                                    !.queries = TRUE]
    <2>1. r \in ServerRecords /\ q \in CallRecords
      BY <1>1 DEF ServerRecords, CallRecords, CallPlaces
    <2>2. /\ server' = [server EXCEPT ![s] = r] /\ call' = [call EXCEPT ![c] = q]
          /\ UNCHANGED <<messages, manager>>
      BY <1>9 DEF EnsureOpen
    <2> HIDE DEF r, q
    <2>3. server' \in [Callers -> ServerRecords] /\ call' \in [Callers -> CallRecords]
      BY <1>1, <2>1, <2>2, ServerIsTyped, CallIsTyped
    <2> QED BY <2>2, <2>3 DEF LspTypes, messages, manager
  <1>10. CASE DidOpen(c)
    <2> DEFINE r == [server[s] EXCEPT !.doc = IF @ = "unknown" THEN "open" ELSE @]
    <2>1. r \in ServerRecords
      BY <1>1 DEF ServerRecords
    <2>2. /\ server' = [server EXCEPT ![s] = r] \/ server' = server
          /\ \E at \in CallPlaces : Proceed(c, at)
          /\ UNCHANGED <<messages, manager>>
      BY <1>10 DEF DidOpen, CallPlaces
    <2> HIDE DEF r
    <2>3. server' \in [Callers -> ServerRecords] /\ call' \in [Callers -> CallRecords]
      BY <1>1, <2>1, <2>2, ServerIsTyped, GotoIsTyped DEF LspTypes
    <2> QED BY <2>2, <2>3 DEF LspTypes, messages, manager
  <1>11. CASE NotifyChange(c)
    <2> DEFINE r(d) == [server[s] EXCEPT !.opened = TRUE, !.doc = d]
    <2>1. \A d \in {"open", "early", server[s].doc} : r(d) \in ServerRecords
      BY <1>1 DEF ServerRecords
    <2>2. /\ \E d \in {"open", "early", server[s].doc} : server' = [server EXCEPT ![s] = r(d)]
          /\ \E at \in CallPlaces : Proceed(c, at)
          /\ UNCHANGED <<messages, manager>>
      <3>1. CASE Writable(s)
        <4>1. server' = [server EXCEPT ![s].opened = TRUE, ![s].doc = Heard(s)]
          BY <1>11, <3>1 DEF NotifyChange
        <4>2. server' = [server EXCEPT ![s] = r(Heard(s))]
          BY <4>1
        <4> QED BY <1>11, <3>1, <4>2 DEF NotifyChange, Heard, CallPlaces
      <3>2. CASE ~Writable(s)
        <4>1. server' = [server EXCEPT ![s].opened = TRUE]
          BY <1>11, <3>2 DEF NotifyChange
        <4>2. server' = [server EXCEPT ![s] = r(server[s].doc)]
          BY <1>1, <4>1 DEF LspTypes, ServerRecords
        <4> QED BY <1>11, <3>2, <4>2 DEF NotifyChange, CallPlaces
      <3> QED BY <3>1, <3>2
    <2> HIDE DEF r
    <2>3. server' \in [Callers -> ServerRecords] /\ call' \in [Callers -> CallRecords]
      BY <1>1, <2>1, <2>2, ServerIsTyped, GotoIsTyped
    <2> QED BY <2>2, <2>3 DEF LspTypes, messages, manager
  <1>12. CASE Register(c)
    <2>1. CASE server[s].close = "none"
      <3>1. pending' \in [Callers -> SUBSET Callers] /\ Proceed(c, "writing")
            /\ UNCHANGED <<server, inbox, wire, manager>>
        BY <1>1, <1>5, <1>12, <2>1 DEF Register
      <3> QED BY <1>2, <3>1, GotoIsTyped DEF CallPlaces
    <2>2. CASE server[s].close # "none"
      BY <1>4, <1>5, <1>12, <2>2 DEF Register
    <2> QED BY <2>1, <2>2
  <1>13. CASE WriteRequest(c)
    <2> DEFINE d == IF call[c].queries THEN Heard(s) ELSE server[s].doc
               r == [server[s] EXCEPT !.doc = d]
               q == [call[c] EXCEPT !.at = "waiting"]
    <2>1. r \in ServerRecords /\ q \in CallRecords
      BY <1>1 DEF ServerRecords, CallRecords, CallPlaces, Heard
    <2>2. /\ server' = [server EXCEPT ![s] = r] /\ call' = [call EXCEPT ![c] = q]
          /\ inbox' = [inbox EXCEPT ![s] = @ \union {c}]
          /\ UNCHANGED <<wire, pending, manager>>
      BY <1>13 DEF WriteRequest
    <2> HIDE DEF r, q
    <2>3. server' \in [Callers -> ServerRecords] /\ call' \in [Callers -> CallRecords]
      BY <1>1, <2>1, <2>2, ServerIsTyped, CallIsTyped
    <2> QED BY <1>1, <2>2, <2>3 DEF LspTypes, manager
  <1>14. CASE WriteFails(c) \/ TimesOut(c)
    <2>1. pending' \in [Callers -> SUBSET Callers]
      BY <1>1, <1>5, <1>14 DEF WriteFails, TimesOut, Unregister
    <2> QED BY <1>4, <1>14, <2>1 DEF WriteFails, TimesOut
  <1>15. CASE Answered(c) \/ ServerGone(c)
    BY <1>4, <1>5, <1>15 DEF Answered, ServerGone, messages
  <1> QED BY <1>6, <1>7, <1>8, <1>9, <1>10, <1>11, <1>12, <1>13, <1>14, <1>15 DEF CallRuns

\* Nor does one of a reader, of a close or of a process; done is closed twice at most.
LEMMA ServerTypes ==
    ASSUME LspTypes, LspInv, NEW s \in Callers,
           ReaderRuns(s) \/ CloseRuns(s) \/ DidClose(s) \/ ProcessRuns(s)
    PROVE  LspTypes'
  <1>1. server[s] \in ServerRecords
    BY DEF LspTypes
  <1>2. ASSUME NEW r \in ServerRecords, server' = [server EXCEPT ![s] = r],
               inbox' \in [Callers -> SUBSET Callers],
               wire' \in [Callers -> SUBSET Callers],
               UNCHANGED <<call, pending, manager>>
        PROVE  LspTypes'
    BY <1>2, ServerIsTyped DEF LspTypes, manager
  <1>3. ASSUME NEW r \in ServerRecords, server' = [server EXCEPT ![s] = r],
               UNCHANGED <<call, messages, manager>>
        PROVE  LspTypes'
    BY <1>2, <1>3 DEF LspTypes, messages
  <1>4. /\ inbox \in [Callers -> SUBSET Callers]
        /\ wire \in [Callers -> SUBSET Callers]
        /\ pending \in [Callers -> SUBSET Callers]
    BY DEF LspTypes
  <1>5. CASE \E c \in Callers : ReadAnswer(s, c)
    <2>1. PICK c \in Callers : ReadAnswer(s, c)
      BY <1>5
    <2> DEFINE r == [call[c] EXCEPT !.ch = IF c \in pending[s] THEN "answer" ELSE @]
    <2>2. r \in CallRecords
      BY DEF LspTypes, CallRecords
    <2>3. /\ call' = [call EXCEPT ![c] = r] /\ UNCHANGED <<server, inbox, manager>>
          /\ wire' = [wire EXCEPT ![s] = @ \ {c}] /\ pending' = [pending EXCEPT ![s] = @ \ {c}]
      BY <2>1 DEF ReadAnswer, LspTypes
    <2> HIDE DEF r
    <2>4. call' \in [Callers -> CallRecords]
      BY <2>2, <2>3, CallIsTyped
    <2> QED BY <1>4, <2>3, <2>4 DEF LspTypes, manager
  <1>6. CASE ReaderStops(s)
    <2> DEFINE r == [server[s] EXCEPT !.reader = Look(s, "ended")]
    <2>1. r \in ServerRecords
      BY <1>1 DEF ServerRecords, Look
    <2>2. server' = [server EXCEPT ![s] = r] /\ UNCHANGED <<inbox, wire, manager>>
          /\ pending' = [pending EXCEPT ![s] = {}]
      BY <1>6 DEF ReaderStops
    <2> HIDE DEF r
    <2>3. server' \in [Callers -> ServerRecords]
      BY <2>1, <2>2, ServerIsTyped
    <2>4. call' \in [Callers -> CallRecords]
      <3>1. \A c \in Callers : [call[c] EXCEPT !.ch = "exited"] \in CallRecords
        BY DEF LspTypes, CallRecords
      <3> QED BY <1>6, <3>1 DEF ReaderStops, LspTypes
    <2> QED BY <1>4, <2>2, <2>3, <2>4 DEF LspTypes, manager
  <1>7. CASE ReaderEnds(s) \/ CloseEnds(s)
    <2> DEFINE end(f) == [server[s] EXCEPT !.reader = f, !.done = @ + 1]
               close == [server[s] EXCEPT !.close = "returned", !.done = @ + 1]
    <2>1. server[s].done \in 0 .. 1
      <3>1. server[s].done \in 0 .. 2
        BY <1>1 DEF ServerRecords
      <3>2. /\ server[s].reader # "ended" \/ server[s].close # "returned"
            /\ server[s].done <= (IF server[s].reader = "ended" THEN 1 ELSE 0)
                                   + (IF server[s].close = "returned" THEN 1 ELSE 0)
        BY <1>7 DEF LspInv, ServerInv, ServerFine, ReaderEnds, CloseEnds
      <3>3. PICK d \in 0 .. 2 : d = server[s].done
        BY <3>1
      <3> QED BY <3>2, <3>3
    <2>2. end("ended") \in ServerRecords /\ close \in ServerRecords
      <3>1. PICK d \in 0 .. 1 : d = server[s].done
        BY <2>1
      <3>2. d + 1 \in 0 .. 2
        OBVIOUS
      <3>3. PICK e \in 0 .. 2 : e = d + 1
        BY <3>2
      <3>4. /\ end("ended") = [server[s] EXCEPT !.reader = "ended", !.done = e]
            /\ close = [server[s] EXCEPT !.close = "returned", !.done = e]
        BY <3>1, <3>3
      <3> HIDE DEF end, close
      <3> QED BY <1>1, <3>4 DEF ServerRecords
    <2>3. \/ server' = [server EXCEPT ![s] = end("ended")]
          \/ server' = [server EXCEPT ![s] = close]
      BY <1>7 DEF ReaderEnds, CloseEnds
    <2>4. UNCHANGED <<call, messages, manager>>
      BY <1>7 DEF ReaderEnds, CloseEnds
    <2> HIDE DEF end, close
    <2> QED BY <1>3, <2>2, <2>3, <2>4
  <1>8. CASE CloseBegins(s) \/ DidClose(s) \/ StdoutEnds(s)
    <2> DEFINE begun == [server[s] EXCEPT !.close = "waiting"]
               forgot == [server[s] EXCEPT !.doc = "unknown"]
               deaf == [server[s] EXCEPT !.stdout = FALSE]
    <2>1. begun \in ServerRecords /\ forgot \in ServerRecords /\ deaf \in ServerRecords
      BY <1>1 DEF ServerRecords
    <2>2. /\ \/ server' = [server EXCEPT ![s] = begun]
             \/ server' = [server EXCEPT ![s] = forgot]
             \/ server' = [server EXCEPT ![s] = deaf]
          /\ UNCHANGED <<call, messages, manager>>
      BY <1>8 DEF CloseBegins, DidClose, StdoutEnds
    <2> HIDE DEF begun, forgot, deaf
    <2> QED BY <1>3, <2>1, <2>2
  <1>9. CASE CloseWaited(s)
    <2> DEFINE r == [server[s] EXCEPT !.close = Look(s, "returned")]
    <2>1. r \in ServerRecords
      BY <1>1 DEF ServerRecords, Look
    <2>2. /\ server' = [server EXCEPT ![s] = r] /\ wire' = [wire EXCEPT ![s] = {}]
          /\ UNCHANGED <<call, inbox, pending, manager>>
      BY <1>9 DEF CloseWaited
    <2> HIDE DEF r
    <2> QED BY <1>2, <1>4, <2>1, <2>2
  <1>10. CASE CloseKills(s) \/ ProcessExits(s)
    <2> DEFINE gone == [server[s] EXCEPT !.proc = "exited", !.stdout = FALSE, !.doc = "unknown"]
               killed == [gone EXCEPT !.close = Look(s, "returned")]
    <2>1. gone \in ServerRecords /\ killed \in ServerRecords
      BY <1>1 DEF ServerRecords, Look
    <2>2. Gone(s) = [server EXCEPT ![s] = gone]
      BY DEF Gone, LspTypes
    <2>3. [Gone(s) EXCEPT ![s].close = Look(s, "returned")]
             = [server EXCEPT ![s] = killed]
      BY <2>2 DEF LspTypes
    <2>4. /\ \/ server' = [server EXCEPT ![s] = gone]
             \/ server' = [server EXCEPT ![s] = killed]
          /\ inbox' = [inbox EXCEPT ![s] = {}] /\ UNCHANGED <<call, wire, pending, manager>>
      BY <1>10, <2>2, <2>3 DEF CloseKills, ProcessExits
    <2> HIDE DEF gone, killed
    <2> QED BY <1>2, <1>4, <2>1, <2>4
  <1>11. CASE \E c \in Callers : Answer(s, c)
    BY <1>11 DEF LspTypes, Answer, manager
  <1> QED BY <1>5, <1>6, <1>7, <1>8, <1>9, <1>10, <1>11
     DEF ReaderRuns, CloseRuns, ProcessRuns

\* Nor does Shutdown.
LEMMA ShutdownTypes ==
    ASSUME LspTypes, Shutdown
    PROVE  LspTypes'
  BY DEF LspTypes, Shutdown, messages

\* The processes, the readers and the closes go on as before.
LifeGoesOn ==
    \A s \in Callers :
        /\ server'[s].proc = server[s].proc /\ server'[s].reader = server[s].reader
        /\ server'[s].close = server[s].close /\ server'[s].done = server[s].done

\* A call that comes back from a request, and takes its entry in pending along or not.
LEMMA BackFromRequest ==
    ASSUME LspTypes, LspInv, NEW c \in Callers, NEW answered \in BOOLEAN,
           call[c].at \in {"entering", "writing", "waiting"}, Return(c, answered),
           UNCHANGED <<server, manager>>,
           \A s, d \in Callers : d \in pending[s] /\ d # c => d \in pending'[s]
    PROVE  LspInv'
  <1> USE DEF LspInv, LspTypes, CallRecords, ServerRecords, messages, manager
  <1> USE DEF Proceed
  <1>1. PICK at : Proceed(c, at) /\ at \in AfterRequest(c, answered)
    BY DEF Return
  <1>2. CASE ~call[c].queries /\ at = "placing"
    <2>1. CallInv'
      BY <1>1, <1>2 DEF CallInv, Starting
    <2>2. TableInv'
      BY <1>1, <1>2 DEF TableInv, Settled, Starting
    <2>3. ServerInv'
      BY <1>1, <1>2 DEF ServerInv, ServerFine, Alive
    <2>4. RequestInv'
      BY <1>1, <1>2 DEF RequestInv
    <2>5. OwnedOrClosing'
      BY <1>1, <1>2 DEF OwnedOrClosing, Alive, Starting, ToClose
    <2>6. UsedIsShared'
      BY <1>1, <1>2 DEF UsedIsShared
    <2> QED BY <2>1, <2>2, <2>3, <2>4, <2>5, <2>6
  <1>3. CASE ~call[c].queries /\ at = "discarding"
    <2>1. CallInv'
      BY <1>1, <1>3 DEF CallInv, Starting
    <2>2. TableInv'
      BY <1>1, <1>3 DEF TableInv, Settled, Starting
    <2>3. ServerInv'
      BY <1>1, <1>3 DEF ServerInv, ServerFine, Alive
    <2>4. RequestInv'
      BY <1>1, <1>3 DEF RequestInv
    <2>5. OwnedOrClosing'
      BY <1>1, <1>3 DEF OwnedOrClosing, Alive, Starting, ToClose, CallInv
    <2>6. UsedIsShared'
      BY <1>1, <1>3 DEF UsedIsShared
    <2> QED BY <2>1, <2>2, <2>3, <2>4, <2>5, <2>6
  <1>4. CASE call[c].queries /\ at = "formatted"
    <2>1. CallInv'
      BY <1>1, <1>4 DEF CallInv, Starting
    <2>2. TableInv'
      BY <1>1, <1>4 DEF TableInv, Settled, Starting
    <2>3. ServerInv'
      BY <1>1, <1>4 DEF ServerInv, ServerFine, Alive
    <2>4. RequestInv'
      BY <1>1, <1>4 DEF RequestInv
    <2>5. OwnedOrClosing'
      BY <1>1, <1>4 DEF OwnedOrClosing, Alive, Starting, ToClose
    <2>6. UsedIsShared'
      BY <1>1, <1>4 DEF UsedIsShared
    <2> QED BY <2>1, <2>2, <2>3, <2>4, <2>5, <2>6
  <1>5. CASE at = "over" /\ call[c].queries
    <2>1. CallInv'
      BY <1>1, <1>5 DEF CallInv, Starting
    <2>2. TableInv'
      BY <1>1, <1>5 DEF TableInv, Settled, Starting
    <2>3. ServerInv'
      BY <1>1, <1>5 DEF ServerInv, ServerFine, Alive
    <2>4. RequestInv'
      BY <1>1, <1>5 DEF RequestInv
    <2>5. OwnedOrClosing'
      BY <1>1, <1>5 DEF OwnedOrClosing, Alive, Starting, ToClose
    <2>6. UsedIsShared'
      BY <1>1, <1>5 DEF UsedIsShared
    <2> QED BY <2>1, <2>2, <2>3, <2>4, <2>5, <2>6
  <1> QED BY <1>1, <1>2, <1>3, <1>4, <1>5 DEF AfterRequest

\* A call that uses its server, and goes on with it or is over.
LEMMA UseKeepsLspInv ==
    ASSUME LspTypes, LspInv, NEW c \in Callers, NEW r \in CallRecords,
           call[c].at \in {"serving", "reading", "formatting", "formatted"},
           call' = [call EXCEPT ![c] = r],
           \/ r.at = "over" /\ ~r.queries
           \/ r.at \in {"reading", "entering"} /\ r.queries /\ r.srv = call[c].srv
           \/ r.at = "formatting" /\ r.srv = call[c].srv,
           LifeGoesOn, UNCHANGED <<messages, manager>>
    PROVE  LspInv'
  <1> USE DEF LspInv, LspTypes, CallRecords, ServerRecords, messages, manager
  <1> USE DEF LifeGoesOn
  <1>1. CallInv'
    BY DEF CallInv, Starting
  <1>2. TableInv'
    BY DEF TableInv, Settled, Starting
  <1>3. ServerInv'
    BY DEF ServerInv, ServerFine, Alive
  <1>4. RequestInv'
    BY DEF RequestInv
  <1>5. OwnedOrClosing'
    BY DEF OwnedOrClosing, Alive, Starting, ToClose
  <1>6. UsedIsShared'
    BY DEF UsedIsShared
  <1> QED BY <1>1, <1>2, <1>3, <1>4, <1>5, <1>6

\* A call keeps the invariant, at every step it takes.
LEMMA CallKeepsLspInv ==
    ASSUME LspTypes, LspInv, NEW c \in Callers, CallRuns(c) \/ TimesOut(c)
    PROVE  LspInv'
  <1> USE DEF LspInv, LspTypes, CallRecords, ServerRecords, messages, manager
  <1>1. CASE ServerFor(c)
    <2>1. CASE servers # {}
      <3>0. PICK t \in servers : /\ call' = [call EXCEPT ![c].at = "serving", ![c].srv = t]
                            /\ call[c].at = "idle"
                            /\ UNCHANGED <<server, messages, manager>>
        BY <1>1, <2>1 DEF ServerFor
      <3>1. CallInv'
        BY <1>1, <2>1, <3>0 DEF CallInv, Starting
      <3>2. TableInv'
        BY <1>1, <2>1, <3>0 DEF TableInv, Settled, Starting
      <3>3. ServerInv'
        BY <1>1, <2>1, <3>0 DEF ServerInv, ServerFine, Alive
      <3>4. RequestInv'
        BY <1>1, <2>1, <3>0 DEF RequestInv
      <3>5. OwnedOrClosing'
        BY <1>1, <2>1, <3>0 DEF OwnedOrClosing, Alive, Starting, ToClose
      <3>6. UsedIsShared'
        BY <1>1, <2>1, <3>0 DEF UsedIsShared
      <3> QED BY <3>1, <3>2, <3>3, <3>4, <3>5, <3>6
    <2>2. CASE servers = {}
      <3>0. /\ call[c].at = "idle"
             /\ call' = [call EXCEPT ![c] = [@ EXCEPT !.at = "entering", !.ch = "empty"]]
             /\ server' = [server EXCEPT ![c].proc = "running", ![c].stdout = TRUE,
                                         ![c].reader = "reading"]
             /\ UNCHANGED <<messages, manager>>
        BY <1>1, <2>2 DEF ServerFor, Proceed
      <3>1. CallInv'
        BY <1>1, <2>2, <3>0 DEF CallInv, Starting
      <3>2. TableInv'
        BY <1>1, <2>2, <3>0 DEF TableInv, Settled, Starting
      <3>3. ServerInv'
        BY <1>1, <2>2, <3>0 DEF ServerInv, ServerFine, Alive, CallInv, Starting
      <3>4. RequestInv'
        BY <1>1, <2>2, <3>0 DEF RequestInv
      <3>5. OwnedOrClosing'
        BY <1>1, <2>2, <3>0 DEF OwnedOrClosing, Alive, Starting, ToClose,
           CallInv
      <3>6. UsedIsShared'
        BY <1>1, <2>2, <3>0 DEF UsedIsShared
      <3> QED BY <3>1, <3>2, <3>3, <3>4, <3>5, <3>6
    <2> QED BY <2>1, <2>2
  <1>2. CASE Place(c)
    <2>1. CASE servers # {}
      <3>0. PICK t \in servers : /\ call' = [call EXCEPT ![c].at = "yielding", ![c].srv = t]
                            /\ call[c].at = "placing"
                            /\ UNCHANGED <<server, messages, manager>>
        BY <1>2, <2>1 DEF Place
      <3>1. CallInv'
        BY <1>2, <2>1, <3>0 DEF CallInv, Starting
      <3>2. TableInv'
        BY <1>2, <2>1, <3>0 DEF TableInv, Settled, Starting
      <3>3. ServerInv'
        BY <1>2, <2>1, <3>0 DEF ServerInv, ServerFine, Alive
      <3>4. RequestInv'
        BY <1>2, <2>1, <3>0 DEF RequestInv
      <3>5. OwnedOrClosing'
        BY <1>2, <2>1, <3>0 DEF OwnedOrClosing, Alive, Starting, ToClose,
           CallInv
      <3>6. UsedIsShared'
        BY <1>2, <2>1, <3>0 DEF UsedIsShared
      <3> QED BY <3>1, <3>2, <3>3, <3>4, <3>5, <3>6
    <2>2. CASE servers = {}
      <3>0. /\ call[c].at = "placing" /\ servers' = {c}
             /\ call' = [call EXCEPT ![c] = [@ EXCEPT !.at = "serving", !.ch = "empty"]]
             /\ UNCHANGED <<server, messages, taken, shut>>
        BY <1>2, <2>2 DEF Place, Proceed
      <3>1. CallInv'
        BY <1>2, <2>2, <3>0 DEF CallInv, Starting
      <3>2. TableInv'
        BY <1>2, <2>2, <3>0 DEF TableInv, Settled, Starting, CallInv
      <3>3. ServerInv'
        BY <1>2, <2>2, <3>0 DEF ServerInv, ServerFine, Alive
      <3>4. RequestInv'
        BY <1>2, <2>2, <3>0 DEF RequestInv
      <3>5. OwnedOrClosing'
        BY <1>2, <2>2, <3>0 DEF OwnedOrClosing, Alive, Starting, ToClose
      <3>6. UsedIsShared'
        BY <1>2, <2>2, <3>0 DEF UsedIsShared, CallInv, Starting
      <3> QED BY <3>1, <3>2, <3>3, <3>4, <3>5, <3>6
    <2> QED BY <2>1, <2>2
  <1>3. CASE Register(c)
    <2>1. CASE server[call[c].srv].close = "none"
      <3>0. /\ call[c].at = "entering"
             /\ pending' = [pending EXCEPT ![call[c].srv] = @ \union {c}]
             /\ call' = [call EXCEPT ![c] = [@ EXCEPT !.at = "writing", !.ch = "empty"]]
             /\ UNCHANGED <<server, inbox, wire, manager>>
        BY <1>3, <2>1 DEF Register, Proceed
      <3>1. CallInv'
        BY <1>3, <2>1, <3>0 DEF CallInv, Starting
      <3>2. TableInv'
        BY <1>3, <2>1, <3>0 DEF TableInv, Settled, Starting
      <3>3. ServerInv'
        BY <1>3, <2>1, <3>0 DEF ServerInv, ServerFine, Alive
      <3>4. RequestInv'
        BY <1>3, <2>1, <3>0 DEF RequestInv
      <3>5. OwnedOrClosing'
        BY <1>3, <2>1, <3>0 DEF OwnedOrClosing, Alive, Starting, ToClose
      <3>6. UsedIsShared'
        BY <1>3, <2>1, <3>0 DEF UsedIsShared
      <3> QED BY <3>1, <3>2, <3>3, <3>4, <3>5, <3>6
    <2>2. CASE server[call[c].srv].close # "none"
      <3>1. /\ call[c].at = "entering" /\ Return(c, FALSE)
            /\ UNCHANGED <<server, manager>> /\ pending' = pending
        BY <1>3, <2>2 DEF Register
      <3> QED BY <3>1, BackFromRequest
    <2> QED BY <2>1, <2>2
  <1>4. CASE WriteFails(c) \/ TimesOut(c)
    <2>1. /\ call[c].at \in {"writing", "waiting"} /\ Return(c, FALSE)
          /\ UNCHANGED <<server, manager>> /\ Unregister(c)
      BY <1>4 DEF WriteFails, TimesOut
    <2>2. \A s, d \in Callers : d \in pending[s] /\ d # c => d \in pending'[s]
      BY <2>1 DEF Unregister
    <2> QED BY <2>1, <2>2, BackFromRequest
  <1>5. CASE Answered(c) \/ ServerGone(c)
    <2>1. PICK answered \in BOOLEAN : Return(c, answered)
      BY <1>5 DEF Answered, ServerGone
    <2>2. call[c].at = "waiting" /\ UNCHANGED <<server, manager>> /\ pending' = pending
      BY <1>5 DEF Answered, ServerGone
    <2> QED BY <2>1, <2>2, BackFromRequest
  <1>6. CASE WriteRequest(c)
    <2>1. CallInv'
      BY <1>6 DEF WriteRequest, Writable, Heard, CallInv, Starting
    <2>2. TableInv'
      BY <1>6 DEF WriteRequest, Writable, Heard, TableInv, Settled, Starting
    <2>3. ServerInv'
      BY <1>6 DEF WriteRequest, Writable, Heard, ServerInv, ServerFine, Alive
    <2>4. RequestInv'
      BY <1>6 DEF WriteRequest, Writable, Heard, RequestInv
    <2>5. OwnedOrClosing'
      BY <1>6 DEF WriteRequest, Writable, Heard, OwnedOrClosing, Alive,
         Starting, ToClose
    <2>6. UsedIsShared'
      BY <1>6 DEF WriteRequest, Writable, Heard, UsedIsShared
    <2> QED BY <2>1, <2>2, <2>3, <2>4, <2>5, <2>6
  <1>7. CASE NoServer(c)
    <2>1. CallInv'
      BY <1>7 DEF NoServer, Proceed, CallInv, Starting
    <2>2. TableInv'
      BY <1>7 DEF NoServer, Proceed, TableInv, Settled, Starting
    <2>3. ServerInv'
      BY <1>7 DEF NoServer, Proceed, ServerInv, ServerFine, Alive
    <2>4. RequestInv'
      BY <1>7 DEF NoServer, Proceed, RequestInv
    <2>5. OwnedOrClosing'
      BY <1>7 DEF NoServer, Proceed, OwnedOrClosing, Alive, Starting,
         ToClose
    <2>6. UsedIsShared'
      BY <1>7 DEF NoServer, Proceed, UsedIsShared
    <2> QED BY <2>1, <2>2, <2>3, <2>4, <2>5, <2>6
  <1>8. CASE Discarded(c)
    <2>1. CallInv'
      BY <1>8 DEF Discarded, Proceed, CallInv, Starting
    <2>2. TableInv'
      BY <1>8 DEF Discarded, Proceed, TableInv, Settled, Starting
    <2>3. ServerInv'
      BY <1>8 DEF Discarded, Proceed, ServerInv, ServerFine, Alive
    <2>4. RequestInv'
      BY <1>8 DEF Discarded, Proceed, RequestInv
    <2>5. OwnedOrClosing'
      BY <1>8 DEF Discarded, Proceed, OwnedOrClosing, Alive, Starting,
         ToClose
    <2>6. UsedIsShared'
      BY <1>8 DEF Discarded, Proceed, UsedIsShared
    <2> QED BY <2>1, <2>2, <2>3, <2>4, <2>5, <2>6
  <1>9. CASE GiveUp(c)
    <2>1. CallInv'
      BY <1>9 DEF GiveUp, Proceed, CallInv, Starting
    <2>2. TableInv'
      BY <1>9 DEF GiveUp, Proceed, TableInv, Settled, Starting
    <2>3. ServerInv'
      BY <1>9 DEF GiveUp, Proceed, ServerInv, ServerFine, Alive
    <2>4. RequestInv'
      BY <1>9 DEF GiveUp, Proceed, RequestInv
    <2>5. OwnedOrClosing'
      BY <1>9 DEF GiveUp, Proceed, OwnedOrClosing, Alive, Starting,
         ToClose
    <2>6. UsedIsShared'
      BY <1>9 DEF GiveUp, Proceed, UsedIsShared
    <2> QED BY <2>1, <2>2, <2>3, <2>4, <2>5, <2>6
  <1>10. CASE EnsureOpen(c)
    <2> DEFINE known == server[call[c].srv].opened
               r == [call[c] EXCEPT !.at = IF known THEN "entering" ELSE "reading",
                                    !.queries = TRUE]
    <2>1. /\ r \in CallRecords /\ r.at \in {"reading", "entering"}
          /\ r.queries /\ r.srv = call[c].srv
      <3>1. call[c] \in CallRecords
        OBVIOUS
      <3> QED BY ONLY <3>1 DEF CallRecords, CallPlaces
    <2>2. /\ call[c].at \in {"serving", "formatting"} /\ call' = [call EXCEPT ![c] = r]
          /\ server' = [server EXCEPT ![call[c].srv].opened = TRUE]
          /\ UNCHANGED <<messages, manager>>
      BY <1>10 DEF EnsureOpen
    <2>3. LifeGoesOn
      BY <2>2 DEF LifeGoesOn
    <2> HIDE DEF r
    <2> QED BY <2>1, <2>2, <2>3, UseKeepsLspInv
  <1>11. CASE DidOpen(c) \/ NotifyChange(c)
    <2>1. LifeGoesOn /\ UNCHANGED <<messages, manager>>
      <3> DEFINE s == call[c].srv
      <3>1. UNCHANGED <<messages, manager>>
        BY <1>11 DEF DidOpen, NotifyChange
      <3>2. \/ server' = server
            \/ server' = [server EXCEPT ![s].opened = TRUE]
            \/ server' = [server EXCEPT ![s].doc = IF @ = "unknown" THEN "open" ELSE @]
            \/ server' = [server EXCEPT ![s].opened = TRUE, ![s].doc = Heard(s)]
        BY <1>11 DEF DidOpen, NotifyChange
      <3> HIDE DEF s
      <3>3. server \in [Callers -> ServerRecords]
        OBVIOUS
      <3>4. LifeGoesOn
        BY ONLY <3>2, <3>3 DEF LifeGoesOn, ServerRecords
      <3> QED BY <3>1, <3>4
    <2>2. call[c].at \in {"serving", "reading", "formatted"} /\ call[c] \in CallRecords
      BY <1>11 DEF DidOpen, NotifyChange
    <2>3. CASE Proceed(c, "over")
      <3> DEFINE r == [at |-> "over", srv |-> c, queries |-> FALSE, ch |-> "empty"]
      <3>1. r \in CallRecords /\ call' = [call EXCEPT ![c] = r] /\ r.at = "over" /\ ~r.queries
        BY <2>3 DEF Proceed, CallPlaces
      <3> HIDE DEF r
      <3> QED BY <2>1, <2>2, <3>1, UseKeepsLspInv
    <2>4. ASSUME NEW at \in {"entering", "formatting"}, Proceed(c, at),
                 at = "entering" => call[c].at = "reading"
          PROVE  LspInv'
      <3> DEFINE r == [call[c] EXCEPT !.at = at, !.ch = "empty"]
      <3>1. r \in CallRecords /\ r.srv = call[c].srv /\ r.at = at
            /\ (at = "entering" => r.queries)
        BY <2>2, <2>4 DEF CallInv, CallPlaces
      <3>2. call' = [call EXCEPT ![c] = r]
        BY <2>4 DEF Proceed
      <3> HIDE DEF r
      <3> QED BY <2>1, <2>2, <2>4, <3>1, <3>2, UseKeepsLspInv
    <2> QED BY <1>11, <2>3, <2>4 DEF DidOpen, NotifyChange
  <1> QED BY <1>1, <1>2, <1>3, <1>4, <1>5, <1>6, <1>7, <1>8, <1>9, <1>10, <1>11 DEF CallRuns

\* A step about one server is judged by what it makes of that server.
LEMMA OneServerMoves ==
    ASSUME ServerInv, NEW s \in Callers,
           \A q \in Callers : q # s => server'[q] = server[q],
           ServerFine(server'[s])
    PROVE  ServerInv'
  <1> SUFFICES ASSUME NEW q \in Callers PROVE ServerFine(server'[q])
    BY DEF ServerInv
  <1> QED BY DEF ServerInv

\* So do the readers, the closes and the processes.
LEMMA ServerKeepsLspInv ==
    ASSUME LspTypes, LspInv, NEW s \in Callers,
           ReaderRuns(s) \/ CloseRuns(s) \/ DidClose(s) \/ ProcessRuns(s)
    PROVE  LspInv'
  <1> USE DEF LspInv, LspTypes, CallRecords, ServerRecords, messages, manager
  <1>1. CASE \E c \in Callers : ReadAnswer(s, c)
    <2>0. PICK c \in Callers : ReadAnswer(s, c)
      BY <1>1
    <2>1. CallInv'
      BY <2>0 DEF ReadAnswer, CallInv, Starting
    <2>2. TableInv'
      BY <2>0 DEF ReadAnswer, TableInv, Settled, Starting
    <2>3. ServerInv'
      BY <2>0 DEF ReadAnswer, ServerInv, ServerFine, Alive
    <2>4. RequestInv'
      BY <2>0 DEF ReadAnswer, RequestInv
    <2>5. OwnedOrClosing'
      BY <2>0 DEF ReadAnswer, OwnedOrClosing, Alive, Starting, ToClose
    <2>6. UsedIsShared'
      BY <2>0 DEF ReadAnswer, UsedIsShared
    <2> QED BY <2>1, <2>2, <2>3, <2>4, <2>5, <2>6
  <1>2. CASE \E c \in Callers : Answer(s, c)
    <2>0. PICK c \in Callers : Answer(s, c)
      BY <1>2
    <2>1. CallInv'
      BY <2>0 DEF Answer, CallInv, Starting
    <2>2. TableInv'
      BY <2>0 DEF Answer, TableInv, Settled, Starting
    <2>3. ServerInv'
      BY <2>0 DEF Answer, ServerInv, ServerFine, Alive
    <2>4. RequestInv'
      BY <2>0 DEF Answer, RequestInv
    <2>5. OwnedOrClosing'
      BY <2>0 DEF Answer, OwnedOrClosing, Alive, Starting, ToClose
    <2>6. UsedIsShared'
      BY <2>0 DEF Answer, UsedIsShared
    <2> QED BY <2>1, <2>2, <2>3, <2>4, <2>5, <2>6
  <1>3. CASE ReaderStops(s)
    <2>1. CallInv'
      BY <1>3 DEF ReaderStops, Look, CallInv, Starting
    <2>2. TableInv'
      BY <1>3 DEF ReaderStops, Look, TableInv, Settled, Starting
    <2>3. ServerInv'
      <3>0. \A q \in Callers : q # s => server'[q] = server[q]
        BY <1>3 DEF ReaderStops
      <3>1. /\ server[s].reader = "reading"
            /\ server'[s] = [server[s] EXCEPT
                  !.reader = IF server[s].done = 0 THEN "ending" ELSE "ended"]
        BY <1>3 DEF ReaderStops, Look
      <3>2. server[s] \in ServerRecords /\ ServerFine(server[s])
        BY DEF ServerInv
      <3>3. PICK n \in 0 .. 2 : n = server[s].done
        BY <3>2 DEF ServerRecords
      <3>4. ServerFine(server'[s])
        BY ONLY <3>1, <3>2, <3>3 DEF ServerFine, ServerRecords
      <3>5. ServerInv
        OBVIOUS
      <3> QED BY ONLY <3>0, <3>4, <3>5, OneServerMoves
    <2>4. RequestInv'
      BY <1>3 DEF ReaderStops, Look, RequestInv
    <2>5. OwnedOrClosing'
      BY <1>3 DEF ReaderStops, Look, OwnedOrClosing, Alive, Starting,
         ToClose
    <2>6. UsedIsShared'
      BY <1>3 DEF ReaderStops, Look, UsedIsShared
    <2> QED BY <2>1, <2>2, <2>3, <2>4, <2>5, <2>6
  <1>4. CASE ReaderEnds(s)
    <2>1. CallInv'
      BY <1>4 DEF ReaderEnds, CallInv, Starting
    <2>2. TableInv'
      BY <1>4 DEF ReaderEnds, TableInv, Settled, Starting
    <2>3. ServerInv'
      <3>0. \A q \in Callers : q # s => server'[q] = server[q]
        BY <1>4 DEF ReaderEnds
      <3>1. /\ server[s].reader = "ending"
            /\ server'[s] = [server[s] EXCEPT !.reader = "ended", !.done = @ + 1]
        BY <1>4 DEF ReaderEnds
      <3>2. server[s] \in ServerRecords /\ ServerFine(server[s])
        BY DEF ServerInv
      <3>3. PICK n \in 0 .. 2 : n = server[s].done
        BY <3>2 DEF ServerRecords
      <3>4. ServerFine(server'[s])
        <4>1. /\ server'[s].reader = "ended" /\ server'[s].close = server[s].close
              /\ server'[s].proc = server[s].proc /\ server'[s].done = n + 1
          BY ONLY <3>1, <3>2, <3>3 DEF ServerRecords
        <4>2. n <= 0 + (IF server[s].close = "returned" THEN 1 ELSE 0)
          BY ONLY <3>1, <3>2, <3>3 DEF ServerFine
        <4>3. /\ n + 1 \in Nat /\ 0 < n + 1
              /\ n + 1 <= 1 + (IF server[s].close = "returned" THEN 1 ELSE 0)
          BY ONLY <3>3, <4>2
        <4> QED BY ONLY <3>2, <4>1, <4>3 DEF ServerFine
      <3>5. ServerInv
        OBVIOUS
      <3> QED BY ONLY <3>0, <3>4, <3>5, OneServerMoves
    <2>4. RequestInv'
      BY <1>4 DEF ReaderEnds, RequestInv
    <2>5. OwnedOrClosing'
      BY <1>4 DEF ReaderEnds, OwnedOrClosing, Alive, Starting, ToClose
    <2>6. UsedIsShared'
      BY <1>4 DEF ReaderEnds, UsedIsShared
    <2> QED BY <2>1, <2>2, <2>3, <2>4, <2>5, <2>6
  <1>5. CASE CloseBegins(s)
    <2>1. CallInv'
      BY <1>5 DEF CloseBegins, CallInv, Starting, TableInv, Settled
    <2>2. TableInv'
      BY <1>5 DEF CloseBegins, TableInv, Settled, Starting
    <2>3. ServerInv'
      BY <1>5 DEF CloseBegins, ServerInv, ServerFine, Alive
    <2>4. RequestInv'
      BY <1>5 DEF CloseBegins, RequestInv
    <2>5. OwnedOrClosing'
      BY <1>5 DEF CloseBegins, OwnedOrClosing, Alive, Starting, ToClose
    <2>6. UsedIsShared'
      BY <1>5 DEF CloseBegins, UsedIsShared
    <2> QED BY <2>1, <2>2, <2>3, <2>4, <2>5, <2>6
  <1>6. CASE CloseWaited(s)
    <2>1. CallInv'
      BY <1>6 DEF CloseWaited, Look, CallInv, Starting
    <2>2. TableInv'
      BY <1>6 DEF CloseWaited, Look, TableInv, Settled, Starting
    <2>3. ServerInv'
      <3>0. \A q \in Callers : q # s => server'[q] = server[q]
        BY <1>6 DEF CloseWaited
      <3>1. /\ server[s].close = "waiting" /\ server[s].proc # "running"
            /\ server'[s] = [server[s] EXCEPT
                  !.close = IF server[s].done = 0 THEN "ending" ELSE "returned"]
        BY <1>6 DEF CloseWaited, Look, Alive
      <3>2. server[s] \in ServerRecords /\ ServerFine(server[s])
        BY DEF ServerInv
      <3>3. PICK n \in 0 .. 2 : n = server[s].done
        BY <3>2 DEF ServerRecords
      <3>4. ServerFine(server'[s])
        BY ONLY <3>1, <3>2, <3>3 DEF ServerFine, ServerRecords
      <3>5. ServerInv
        OBVIOUS
      <3> QED BY ONLY <3>0, <3>4, <3>5, OneServerMoves
    <2>4. RequestInv'
      BY <1>6 DEF CloseWaited, Look, RequestInv
    <2>5. OwnedOrClosing'
      BY <1>6 DEF CloseWaited, Look, OwnedOrClosing, Alive, Starting,
         ToClose
    <2>6. UsedIsShared'
      BY <1>6 DEF CloseWaited, Look, UsedIsShared
    <2> QED BY <2>1, <2>2, <2>3, <2>4, <2>5, <2>6
  <1>7. CASE CloseKills(s)
    <2>1. CallInv'
      BY <1>7 DEF CloseKills, Gone, Look, CallInv, Starting
    <2>2. TableInv'
      BY <1>7 DEF CloseKills, Gone, Look, TableInv, Settled, Starting
    <2>3. ServerInv'
      BY <1>7 DEF CloseKills, Gone, Look, ServerInv, ServerFine, Alive
    <2>4. RequestInv'
      BY <1>7 DEF CloseKills, Gone, Look, RequestInv
    <2>5. OwnedOrClosing'
      BY <1>7 DEF CloseKills, Gone, Look, OwnedOrClosing, Alive,
         Starting, ToClose
    <2>6. UsedIsShared'
      BY <1>7 DEF CloseKills, Gone, Look, UsedIsShared
    <2> QED BY <2>1, <2>2, <2>3, <2>4, <2>5, <2>6
  <1>8. CASE CloseEnds(s)
    <2>1. CallInv'
      BY <1>8 DEF CloseEnds, CallInv, Starting
    <2>2. TableInv'
      BY <1>8 DEF CloseEnds, TableInv, Settled, Starting
    <2>3. ServerInv'
      <3>0. \A q \in Callers : q # s => server'[q] = server[q]
        BY <1>8 DEF CloseEnds
      <3>1. /\ server[s].close = "ending"
            /\ server'[s] = [server[s] EXCEPT !.close = "returned", !.done = @ + 1]
        BY <1>8 DEF CloseEnds
      <3>2. server[s] \in ServerRecords /\ ServerFine(server[s])
        BY DEF ServerInv
      <3>3. PICK n \in 0 .. 2 : n = server[s].done
        BY <3>2 DEF ServerRecords
      <3>4. ServerFine(server'[s])
        <4>1. /\ server'[s].close = "returned" /\ server'[s].reader = server[s].reader
              /\ server'[s].proc = server[s].proc /\ server'[s].done = n + 1
          BY ONLY <3>1, <3>2, <3>3 DEF ServerRecords
        <4>2. n <= (IF server[s].reader = "ended" THEN 1 ELSE 0) + 0 /\ server[s].proc # "running"
          BY ONLY <3>1, <3>2, <3>3 DEF ServerFine
        <4>3. /\ n + 1 \in Nat /\ 0 < n + 1
              /\ n + 1 <= (IF server[s].reader = "ended" THEN 1 ELSE 0) + 1
          BY ONLY <3>3, <4>2
        <4> QED BY ONLY <4>1, <4>2, <4>3 DEF ServerFine
      <3>5. ServerInv
        OBVIOUS
      <3> QED BY ONLY <3>0, <3>4, <3>5, OneServerMoves
    <2>4. RequestInv'
      BY <1>8 DEF CloseEnds, RequestInv
    <2>5. OwnedOrClosing'
      BY <1>8 DEF CloseEnds, OwnedOrClosing, Alive, Starting, ToClose
    <2>6. UsedIsShared'
      BY <1>8 DEF CloseEnds, UsedIsShared
    <2> QED BY <2>1, <2>2, <2>3, <2>4, <2>5, <2>6
  <1>9. CASE DidClose(s)
    <2>1. CallInv'
      BY <1>9 DEF DidClose, CallInv, Starting
    <2>2. TableInv'
      BY <1>9 DEF DidClose, TableInv, Settled, Starting
    <2>3. ServerInv'
      BY <1>9 DEF DidClose, ServerInv, ServerFine, Alive
    <2>4. RequestInv'
      BY <1>9 DEF DidClose, RequestInv
    <2>5. OwnedOrClosing'
      BY <1>9 DEF DidClose, OwnedOrClosing, Alive, Starting, ToClose
    <2>6. UsedIsShared'
      BY <1>9 DEF DidClose, UsedIsShared
    <2> QED BY <2>1, <2>2, <2>3, <2>4, <2>5, <2>6
  <1>10. CASE ProcessExits(s)
    <2>1. CallInv'
      BY <1>10 DEF ProcessExits, Gone, CallInv, Starting, TableInv, ServerInv,
         ServerFine, Settled, Alive
    <2>2. TableInv'
      BY <1>10 DEF ProcessExits, Gone, TableInv, Settled, Starting
    <2>3. ServerInv'
      BY <1>10 DEF ProcessExits, Gone, ServerInv, ServerFine, Alive
    <2>4. RequestInv'
      BY <1>10 DEF ProcessExits, Gone, RequestInv
    <2>5. OwnedOrClosing'
      BY <1>10 DEF ProcessExits, Gone, OwnedOrClosing, Alive, Starting,
         ToClose
    <2>6. UsedIsShared'
      BY <1>10 DEF ProcessExits, Gone, UsedIsShared
    <2> QED BY <2>1, <2>2, <2>3, <2>4, <2>5, <2>6
  <1>11. CASE StdoutEnds(s)
    <2>1. CallInv'
      BY <1>11 DEF StdoutEnds, CallInv, Starting
    <2>2. TableInv'
      BY <1>11 DEF StdoutEnds, TableInv, Settled, Starting
    <2>3. ServerInv'
      BY <1>11 DEF StdoutEnds, ServerInv, ServerFine, Alive
    <2>4. RequestInv'
      BY <1>11 DEF StdoutEnds, RequestInv
    <2>5. OwnedOrClosing'
      BY <1>11 DEF StdoutEnds, OwnedOrClosing, Alive, Starting, ToClose
    <2>6. UsedIsShared'
      BY <1>11 DEF StdoutEnds, UsedIsShared
    <2> QED BY <2>1, <2>2, <2>3, <2>4, <2>5, <2>6
  <1> QED BY <1>1, <1>2, <1>3, <1>4, <1>5, <1>6, <1>7, <1>8, <1>9, <1>10, <1>11
     DEF ReaderRuns, CloseRuns, ProcessRuns

\* And Shutdown, which makes the server of the table one that is to be closed.
LEMMA ShutdownKeepsLspInv ==
    ASSUME LspTypes, LspInv, Shutdown
    PROVE  LspInv'
  BY DEF Shutdown, LspInv, LspTypes, CallRecords, ServerRecords, CallPlaces, Settled,
     Starting, Alive, ToClose, messages, manager, CallInv, TableInv,
     ServerInv, ServerFine, RequestInv, OwnedOrClosing, UsedIsShared
-----------------------------------------------------------------------------
\* No call has begun.
LEMMA LspInitially ==
    LspInit => LspTypes /\ LspInv
  <1> SUFFICES ASSUME LspInit PROVE LspTypes /\ LspInv
    OBVIOUS
  <1>1. LspTypes
    <2>1. /\ \A c \in Callers :
                [at |-> "idle", srv |-> c, queries |-> FALSE, ch |-> "empty"] \in CallRecords
          /\ [proc |-> "none", stdout |-> FALSE, reader |-> "none", close |-> "none", done |-> 0,
              opened |-> FALSE, doc |-> "unknown"] \in ServerRecords
      BY DEF CallRecords, CallPlaces, ServerRecords
    <2> QED BY <2>1 DEF LspInit, LspTypes
  <1>2. LspInv
    BY DEF LspInit, LspInv, CallInv, TableInv, ServerInv, ServerFine, RequestInv,
       OwnedOrClosing, UsedIsShared, Starting, Alive, Settled
  <1> QED BY <1>1, <1>2

\* No step breaks the types or the invariant.
LEMMA LspStep ==
    LspTypes /\ LspInv /\ [LspNext]_lspVars => LspTypes' /\ LspInv'
  <1> SUFFICES ASSUME LspTypes, LspInv, [LspNext]_lspVars PROVE LspTypes' /\ LspInv'
    OBVIOUS
  <1>1. CASE \E c \in Callers : CallRuns(c) \/ TimesOut(c)
    BY <1>1, CallTypes, CallKeepsLspInv
  <1>2. CASE \E s \in Callers :
                ReaderRuns(s) \/ CloseRuns(s) \/ DidClose(s) \/ ProcessRuns(s)
    BY <1>2, ServerTypes, ServerKeepsLspInv
  <1>3. CASE Shutdown
    BY <1>3, ShutdownTypes, ShutdownKeepsLspInv
  <1>4. CASE UNCHANGED lspVars
    BY <1>4 DEF lspVars, messages, manager, LspTypes, LspInv, CallInv, TableInv,
       ServerInv, ServerFine, RequestInv, OwnedOrClosing, UsedIsShared, Starting,
       Alive, Settled, ToClose
  <1> QED BY <1>1, <1>2, <1>3, <1>4 DEF LspNext

\* The types and the inductive invariant of the manager hold throughout.
THEOREM LspIsInvariant == LspSpec => [](LspTypes /\ LspInv)
  <1> QED BY LspInitially, LspStep, PTL DEF LspSpec

\* Every value keeps its type, and the table has one server at most, however many calls
\* start one at the same time.  (ServerFor)
THEOREM LspTypeCorrect == LspSpec => []LspTypeOK
  <1>1. LspTypes /\ LspInv => LspTypeOK
    <2> SUFFICES ASSUME LspTypes, LspInv PROVE LspTypeOK
      OBVIOUS
    <2>1. Cardinality(servers) <= 1
      <3>1. CASE servers = {}
        BY <3>1, FS_EmptySet
      <3>2. CASE servers # {}
        <4>1. PICK s \in servers : TRUE
          BY <3>2
        <4>2. servers = {s}
          BY <4>1 DEF LspInv, TableInv
        <4> QED BY <4>2, FS_Singleton
      <3> QED BY <3>1, <3>2
    <2> QED BY <2>1 DEF LspTypes, LspTypeOK, CallRecords, CallPlaces, ServerRecords
  <1> QED BY <1>1, LspIsInvariant, PTL

\* A process that runs is in the table, is being started, or is about to be closed, and
\* Close does not return before it is gone.  (ServerFor, startServer, Shutdown, Close)
THEOREM NoServerIsOrphaned == LspSpec => []OwnedOrClosing
  <1>1. LspInv => OwnedOrClosing
    BY DEF LspInv
  <1> QED BY <1>1, LspIsInvariant, PTL

\* No call asks a server but one that is, or was, in the table; never one that was
\* started in vain and is discarded.  (ServerFor)
THEOREM OnlySharedServersAreAsked == LspSpec => []UsedIsShared
  <1>1. LspInv => UsedIsShared
    BY DEF LspInv
  <1> QED BY <1>1, LspIsInvariant, PTL

\* A caller that waits with nothing in its channel is in pending, so the reader will tell
\* it, and once the reader has ended done is closed.  (Request, failPending, readLoop)
THEOREM WaitersAreHeard == LspSpec => []WaiterIsKnown
  <1>1. LspTypes /\ LspInv => WaiterIsKnown
    BY DEF LspTypes, CallRecords, LspInv, RequestInv, ServerInv, ServerFine, WaiterIsKnown
  <1> QED BY <1>1, LspIsInvariant, PTL

=============================================================================
