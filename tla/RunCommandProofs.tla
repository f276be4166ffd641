-------------------------- MODULE RunCommandProofs --------------------------
(***************************************************************************)
(* Proofs about the /run pipeline, for any plan, any number of retries and *)
(* of /run commands: the state keeps its shape, no worktree is merged      *)
(* while an agent works in it, what is merged was reviewed in its last     *)
(* cycle, and a run that is done has left no worktree of its own behind.   *)
(***************************************************************************)
EXTENDS RunCommand, FiniteSetTheorems, TLAPS

-----------------------------------------------------------------------------
\* The numbers of the agents.

\* What the run at hand may still spawn.
Left(r) == IF r.live THEN MaxRetries - r.retries ELSE 0

\* There is room for n more agents.
Room(n) == Cardinality(Spawned) + n <= runs * (2 + MaxRetries)

\* Agents are spawned in the order of their numbers.
Numbered == Spawned = 1 .. Cardinality(Spawned)

\* The first invariant: types, and the numbers of the agents within their bound.
Owned == run.live => run.owner \in Agents
Typed == TypeOK /\ Owned /\ Numbered /\ Room(Left(run))

EffectStates ==
    [run : RunStates, running : BOOLEAN, spawn : Seq(Agents), wait : SUBSET Agents,
     job : Seq(JobStates)]

\* The agents that are spawned next, when there are n of them.
NextAgents(n) == NextAgent .. NextAgent + n - 1

\* How many agents there may be: the runs, two agents each and one for each retry.
LEMMA RunsHaveRoom ==
    ASSUME NEW k \in 0 .. MaxRuns
    PROVE  /\ k * (2 + MaxRetries) \in Nat
           /\ k * (2 + MaxRetries) <= MaxRuns * (2 + MaxRetries)
           /\ (k + 1) * (2 + MaxRetries) = k * (2 + MaxRetries) + 2 + MaxRetries
  <1>1. MaxRetries \in Nat /\ MaxRuns \in Nat /\ k \in Nat /\ k <= MaxRuns
    BY RunCommandAssumption
  <1>2. PICK d \in Nat : MaxRuns = k + d
    <2>1. MaxRuns - k \in Nat /\ MaxRuns = k + (MaxRuns - k) BY <1>1
    <2> QED BY <2>1
  <1> DEFINE each == 2 + MaxRetries
  <1>3. each \in Nat BY <1>1
  <1>4. k * each \in Nat /\ d * each \in Nat BY <1>1, <1>2, <1>3
  <1>5. (k + d) * each = k * each + d * each BY <1>1, <1>2, <1>3
  <1>6. (k + 1) * each = k * each + each BY <1>1, <1>3
  <1>7. MaxRuns * each = k * each + d * each BY <1>2, <1>5, Zenon
  <1>8. k * each <= MaxRuns * each
    <2> HIDE DEF each
    <2> DEFINE mine == k * each  theirs == d * each  all == MaxRuns * each
    <2>1. mine \in Nat /\ theirs \in Nat /\ all = mine + theirs BY <1>4, <1>7
    <2> HIDE DEF mine, theirs, all
    <2>2. mine <= all BY <2>1
    <2> QED BY <2>2 DEF mine, all
  <1>9. k * each + each = k * each + 2 + MaxRetries
    <2> DEFINE mine == k * each
    <2>1. mine \in Nat BY <1>4
    <2> HIDE DEF mine
    <2>2. mine + each = mine + 2 + MaxRetries BY <2>1, <1>1
    <2> QED BY <2>2 DEF mine
  <1> QED BY <1>4, <1>6, <1>8, <1>9

\* The agents spawned so far are finitely many, so that there is a next one.
LEMMA SpawnedIsFinite ==
    /\ IsFiniteSet(Spawned) /\ Cardinality(Spawned) \in Nat /\ NextAgent \in Nat \ {0}
  <1>1. MaxRuns \in 0 .. MaxRuns BY RunCommandAssumption
  <1>2. MaxRuns * (2 + MaxRetries) \in Int /\ 1 \in Int BY <1>1, RunsHaveRoom
  <1>3. IsFiniteSet(Agents) BY <1>2, FS_Interval DEF Agents
  <1>4. IsFiniteSet(Spawned) BY <1>3, FS_Subset DEF Spawned
  <1>5. Cardinality(Spawned) \in Nat BY <1>4, FS_CardinalityType
  <1> QED BY <1>4, <1>5 DEF NextAgent

\* Where there is room for n agents, their numbers are those of agents nobody spawned.
LEMMA NextAgentsAreNew ==
    ASSUME TypeOK, Numbered, NEW n \in Nat, NEW k \in 0 .. MaxRuns,
           Cardinality(Spawned) + n <= k * (2 + MaxRetries)
    PROVE  /\ NextAgents(n) \subseteq Agents
           /\ NextAgents(n) \cap Spawned = {}
           /\ Spawned \union NextAgents(n) = 1 .. Cardinality(Spawned) + n
  <1> DEFINE card == Cardinality(Spawned)  all == MaxRuns * (2 + MaxRetries)
             mine == k * (2 + MaxRetries)
  <1>1. card \in Nat BY SpawnedIsFinite
  <1>2. mine \in Nat /\ mine <= all /\ card + n <= mine BY RunsHaveRoom
  <1>3. MaxRuns \in 0 .. MaxRuns BY RunCommandAssumption
  <1>4. all \in Nat BY <1>3, RunsHaveRoom
  <1>5. NextAgents(n) = card + 1 .. card + n BY <1>1 DEF NextAgents, NextAgent
  <1>6. Agents = 1 .. all BY DEF Agents
  <1>7. Spawned = 1 .. card BY Numbered DEF Numbered
  <1> HIDE DEF card, all, mine
  <1>8. NextAgents(n) \subseteq Agents BY <1>1, <1>2, <1>4, <1>5, <1>6
  <1>9. NextAgents(n) \cap Spawned = {} BY <1>1, <1>5, <1>7
  <1>10. Spawned \union NextAgents(n) = 1 .. card + n BY <1>1, <1>5, <1>7
  <1> QED BY <1>8, <1>9, <1>10 DEF card

-----------------------------------------------------------------------------
\* A step of Update.

\* The worktree an agent of the effect e works in, where it spawns n of them.
TreeOf(e, a) == e.spawn[a - NextAgent + 1]

\* An effect that spawns the next n agents.
SpawnsNext(e, n) == e.spawn \in [1 .. n -> Agents]

\* What Update makes of the agents and of their worktrees.
LEMMA UpdateSpawns ==
    ASSUME TypeOK, NEW e \in EffectStates, NEW n \in Nat, SpawnsNext(e, n),
           NEW waiting, NEW working, Update(e, waiting, working)
    PROVE  /\ agent' = [a \in Agents |->
                 IF a \in NextAgents(n)
                 THEN [agent[a] EXCEPT !.state = "live", !.status = "running",
                                       !.tree = TreeOf(e, a)]
                 ELSE agent[a]]
           /\ tree' = [a \in Agents |->
                 IF a \in NextAgents(n) /\ TreeOf(e, a) = a
                 THEN [tree[a] EXCEPT !.state = "held"]
                 ELSE tree[a]]
           /\ \A a \in NextAgents(n) : TreeOf(e, a) \in Agents
  <1> DEFINE new == [a \in Agents |-> a - NextAgent + 1]
  <1>1. NextAgent \in Nat \ {0} BY SpawnedIsFinite
  <1>2. Agents \subseteq Int BY DEF Agents
  <1>3. DOMAIN e.spawn = 1 .. n BY DEF SpawnsNext
  <1>4. \A a \in Agents : new[a] \in DOMAIN e.spawn <=> a \in NextAgents(n)
    BY <1>1, <1>2, <1>3 DEF NextAgents
  <1>5. \A a \in Agents : e.spawn[new[a]] = TreeOf(e, a) BY DEF TreeOf
  <1>6. \A a \in NextAgents(n) : TreeOf(e, a) \in Agents
    BY <1>1, <1>3 DEF NextAgents, TreeOf, SpawnsNext
  <1>7. agent' = [a \in Agents |->
             IF new[a] \in DOMAIN e.spawn
             THEN [agent[a] EXCEPT !.state = "live", !.status = "running",
                                   !.tree = e.spawn[new[a]]]
             ELSE agent[a]]
    BY Zenon DEF Update
  <1>8. tree' = [a \in Agents |->
             IF new[a] \in DOMAIN e.spawn /\ e.spawn[new[a]] = a
             THEN [tree[a] EXCEPT !.state = "held"]
             ELSE tree[a]]
    BY Zenon DEF Update
  <1> HIDE DEF new
  <1> QED BY <1>4, <1>5, <1>6, <1>7, <1>8

AgentStates ==
    [state : {"none", "live", "ended"}, tree : {0} \union Agents, status : Statuses,
     verdict : {"none"} \union Verdicts, passed : BOOLEAN]

TreeStates == [state : {"none", "held", "merged"}, ticked : SUBSET Slices]

\* Update keeps the types and the numbers of the agents.
LEMMA UpdateTyped ==
    ASSUME TypeOK, Numbered, NEW e \in EffectStates, NEW n \in Nat, SpawnsNext(e, n),
           NEW waiting \in Seq(SUBSET Agents), NEW working \in Seq(JobStates),
           Update(e, waiting, working), runs' \in 0 .. MaxRuns,
           Cardinality(Spawned) + n + Left(e.run) <= runs' * (2 + MaxRetries)
    PROVE  /\ run' \in RunStates /\ running' \in BOOLEAN
           /\ agent' \in [Agents -> AgentStates] /\ tree' \in [Agents -> TreeStates]
           /\ cmds' \in Seq(SUBSET Agents) /\ jobs' \in Seq(JobStates)
           /\ Numbered' /\ Room(Left(run))'
           /\ Spawned' = Spawned \union NextAgents(n)
           /\ Cardinality(Spawned)' = Cardinality(Spawned) + n
  <1>1. run' = e.run /\ e.run \in RunStates /\ running' = e.running BY DEF Update, EffectStates
  <1>2. running' \in BOOLEAN BY <1>1, Zenon DEF EffectStates
  <1>3. cmds' \in Seq(SUBSET Agents)
    <2>1. e.wait \in SUBSET Agents BY DEF EffectStates
    <2>2. cmds' = IF e.wait = {} THEN waiting ELSE Append(waiting, e.wait) BY Zenon DEF Update
    <2> QED BY <2>1, <2>2
  <1>4. jobs' \in Seq(JobStates)
    <2>1. e.job \in Seq(JobStates) BY DEF EffectStates
    <2>2. jobs' = working \o e.job BY Zenon DEF Update
    <2> QED BY <2>1, <2>2
  <1>5. Left(e.run) \in Nat
    <2>1. e.run.retries \in 0 .. MaxRetries BY <1>1 DEF RunStates
    <2> QED BY <2>1, RunCommandAssumption DEF Left
  <1>6. /\ agent' = [a \in Agents |->
                IF a \in NextAgents(n)
                THEN [agent[a] EXCEPT !.state = "live", !.status = "running",
                                      !.tree = TreeOf(e, a)]
                ELSE agent[a]]
        /\ tree' = [a \in Agents |->
                IF a \in NextAgents(n) /\ TreeOf(e, a) = a
                THEN [tree[a] EXCEPT !.state = "held"]
                ELSE tree[a]]
        /\ \A a \in NextAgents(n) : TreeOf(e, a) \in Agents
    BY UpdateSpawns
  <1>7. agent \in [Agents -> AgentStates] /\ tree \in [Agents -> TreeStates]
    BY DEF TypeOK, AgentStates, TreeStates
  <1>8. agent' \in [Agents -> AgentStates]
    <2> SUFFICES ASSUME NEW a \in Agents PROVE agent'[a] \in AgentStates BY <1>6
    <2>1. agent[a] \in AgentStates BY <1>7
    <2>2. CASE a \in NextAgents(n)
      <3>1. TreeOf(e, a) \in Agents BY <1>6, <2>2
      <3>2. agent'[a] = [agent[a] EXCEPT !.state = "live", !.status = "running",
                                         !.tree = TreeOf(e, a)]
        BY <1>6, <2>2
      <3> QED BY <2>1, <3>1, <3>2 DEF AgentStates, Statuses
    <2>3. CASE a \notin NextAgents(n) BY <1>6, <2>1, <2>3
    <2> QED BY <2>2, <2>3
  <1>9. tree' \in [Agents -> TreeStates] BY <1>6, <1>7 DEF TreeStates
  <1>10. Spawned' = Spawned \union NextAgents(n)
    <2>1. ASSUME NEW a \in NextAgents(n) \cap Agents PROVE agent'[a].state = "live"
      <3>1. agent[a] \in AgentStates BY <1>7
      <3>2. agent'[a] = [agent[a] EXCEPT !.state = "live", !.status = "running",
                                         !.tree = TreeOf(e, a)]
        BY <1>6
      <3> QED BY <3>1, <3>2 DEF AgentStates
    <2>2. \A a \in Agents \ NextAgents(n) : agent'[a].state = agent[a].state BY <1>6
    <2>3. NextAgents(n) \subseteq Agents
      <3> DEFINE card == Cardinality(Spawned)  mine == runs' * (2 + MaxRetries)  left == Left(e.run)
      <3>1. card \in Nat /\ left \in Nat /\ mine \in Nat BY <1>5, SpawnedIsFinite, RunsHaveRoom
      <3>2. card + n + left <= mine OBVIOUS
      <3> HIDE DEF card, mine, left
      <3>3. card + n <= mine BY <3>1, <3>2
      <3>4. Cardinality(Spawned) + n <= runs' * (2 + MaxRetries) BY <3>3 DEF card, mine
      <3> QED BY <3>4, NextAgentsAreNew
    <2> QED BY <2>1, <2>2, <2>3 DEF Spawned
  <1>11. Cardinality(Spawned') = Cardinality(Spawned) + n /\ Spawned' = 1 .. Cardinality(Spawned) + n
    <2> DEFINE card == Cardinality(Spawned)  mine == runs' * (2 + MaxRetries)  left == Left(e.run)
    <2>1. card \in Nat /\ left \in Nat /\ mine \in Nat BY <1>5, SpawnedIsFinite, RunsHaveRoom
    <2>2. card + n + left <= mine OBVIOUS
    <2> HIDE DEF card, mine, left
    <2>3. card + n <= mine BY <2>1, <2>2
    <2>4. Spawned \union NextAgents(n) = 1 .. card + n
      <3>1. Spawned = 1 .. card BY DEF Numbered, card
      <3>2. NextAgent = card + 1 BY DEF NextAgent, card
      <3>3. NextAgents(n) = card + 1 .. card + n BY <2>1, <3>2 DEF NextAgents
      <3> QED BY <2>1, <3>1, <3>3
    <2>5. Cardinality(1 .. card + n) = card + n
      <3> DEFINE top == card + n
      <3>1. 1 \in Int /\ top \in Int /\ top >= 0 BY <2>1
      <3> HIDE DEF top
      <3>2. Cardinality(1 .. top) = IF 1 > top THEN 0 ELSE top - 1 + 1 BY <3>1, FS_Interval
      <3>3. Cardinality(1 .. top) = top BY <3>1, <3>2
      <3> QED BY <3>3 DEF top
    <2>6. Spawned' = 1 .. card + n BY <1>10, <2>4
    <2>7. Cardinality(Spawned') = card + n BY <2>5, <2>6, Zenon
    <2> QED BY <2>6, <2>7 DEF card
  <1>12. Cardinality(Spawned)' = Cardinality(Spawned) + n BY <1>11
  <1>13. Numbered'
    <2>1. Spawned' = 1 .. Cardinality(Spawned') BY <1>11, Zenon
    <2> QED BY <2>1 DEF Numbered
  <1>14. Room(Left(run))'
    <2>1. Left(run)' = Left(e.run) BY <1>1 DEF Left
    <2>2. Cardinality(Spawned)' + Left(run)' <= runs' * (2 + MaxRetries)
      BY <1>12, <2>1
    <2> QED BY <2>2 DEF Room
  <1> QED BY <1>1, <1>2, <1>3, <1>4, <1>8, <1>9, <1>10, <1>12, <1>13, <1>14

-----------------------------------------------------------------------------
\* What a step of Update may ask for, seen from the run it finds.

LiveRun(r) == r \in RunStates /\ r.live /\ r.owner \in Agents

\* The agents of a cycle, and the worktrees a merge would take.
Cycle(r) == IF IsParallel(r) THEN ParallelAgents(r) ELSE {r.agent}
Targets(r) == (IF IsParallel(r) THEN ParallelAgents(r) ELSE {r.owner}) \union ToSet(r.carried)

\* The run s is in the cycle of r.
SameCycle(r, s) ==
    /\ LiveRun(s)
    /\ s.owner = r.owner /\ s.agent = r.agent /\ s.carried = r.carried
    /\ IsParallel(s) = IsParallel(r) /\ ParallelAgents(s) = ParallelAgents(r)
    /\ s.transcript = r.transcript /\ s.retries = r.retries

\* The run is given up.
Stops(r, e) ==
    /\ e.spawn = <<>> /\ e.wait = {} /\ e.job = <<>>
    /\ LiveRun(e.run) /\ e.run.phase = "failed"
    /\ e.run.owner = r.owner /\ e.run.retries >= r.retries

\* The gates run.
Gates(r, e) ==
    /\ e.spawn = <<>> /\ e.wait = {} /\ e.job = <<GateJob(e.run)>>
    /\ SameCycle(r, e.run) /\ e.run.phase = "gating"

\* The plan is done: each slice is ticked in a worktree of the cycle.
PlanDone(r) ==
    tree[r.owner].state = "held" =>
        \A slice \in Slices : \E t \in {r.owner} \union ParallelAgents(r) :
            tree[t].state = "held" /\ slice \in tree[t].ticked

\* The worktrees are merged.
Merges(r, e) ==
    /\ e.spawn = <<>> /\ e.wait = {} /\ e.job = <<MergeJob(e.run)>>
    /\ SameCycle(r, e.run) /\ e.run.phase = "merging"
    /\ r.transcript = "pass" /\ PlanDone(r)

\* The next cycle starts in the owner's worktree.
Retries(r, e) ==
    /\ e.spawn = <<r.owner>> /\ e.wait = {NextAgent} /\ e.job = <<>>
    /\ LiveRun(e.run) /\ e.run.phase = "running"
    /\ e.run.owner = r.owner /\ e.run.agent = NextAgent /\ e.run.parallel = <<>>
    /\ e.run.transcript = "none" /\ e.run.retries > r.retries
    /\ ToSet(e.run.carried) = ToSet(r.carried) \union (ParallelAgents(r) \ {r.owner})

\* The cycle goes on, and its agents are waited for.
Waits(r, e) ==
    /\ e.spawn = <<>> /\ e.wait = WaitForRunEvents(e.run) /\ e.job = <<>>
    /\ LiveRun(e.run) /\ e.run.phase = r.phase
    /\ e.run.owner = r.owner /\ e.run.agent = r.agent /\ e.run.carried = r.carried
    /\ IsParallel(e.run) = IsParallel(r) /\ ParallelAgents(e.run) = ParallelAgents(r)
    /\ e.run.retries = r.retries

Outcome(r, e) == Stops(r, e) \/ Gates(r, e) \/ Merges(r, e) \/ Retries(r, e)

\* The fields of an effect.
LEMMA EffectTyped ==
    ASSUME NEW r \in RunStates, NEW busy \in BOOLEAN, NEW spawn \in Seq(Agents),
           NEW wait \in SUBSET Agents, NEW job \in Seq(JobStates)
    PROVE  [run |-> r, running |-> busy, spawn |-> spawn, wait |-> wait, job |-> job]
              \in EffectStates
  <1> HIDE DEF RunStates, JobStates, Agents
  <1> QED BY Zenon DEF EffectStates

\* An effect that spawns agents.
LEMMA SpawnEffect ==
    ASSUME NEW r, NEW busy, NEW spawn
    PROVE  [Effect(r, busy) EXCEPT !.spawn = spawn]
           = [run |-> r, running |-> busy, spawn |-> spawn, wait |-> {}, job |-> <<>>]
  BY DEF Effect

\* SetToSeq lists what is in a finite set.
LEMMA SetToSeqLists ==
    ASSUME NEW S, IsFiniteSet(S)
    PROVE  SetToSeq(S) \in Seq(S) /\ ToSet(SetToSeq(S)) = S
  <1> DEFINE n == Cardinality(S)
  <1>1. n \in Nat BY FS_CardinalityType
  <1>2. ExistsBijection(1 .. n, S) BY FS_CardinalityType
  <1>3. PICK g \in Bijection(1 .. n, S) : TRUE BY <1>2 DEF ExistsBijection
  <1>4. g \in [1 .. n -> S] /\ \A i, j \in DOMAIN g : g[i] = g[j] => i = j
    BY <1>3 DEF Bijection, Injection, IsInjective
  <1> DEFINE f == SetToSeq(S)
  <1>5. f \in [1 .. n -> S] /\ \A i, j \in DOMAIN f : f[i] = f[j] => i = j
    BY <1>4, Zenon DEF SetToSeq, IsInjective
  <1> HIDE DEF f
  <1>6. f \in Injection(1 .. n, S)
    BY <1>5 DEF Injection, IsInjective
  <1>7. f \in Seq(S) BY <1>1, <1>5
  <1>8. f \in Surjection(1 .. n, S)
    <2>1. 1 \in Int /\ n \in Int BY <1>1
    <2> HIDE DEF n
    <2>2. IsFiniteSet(1 .. n) /\ Cardinality(1 .. n) = IF 1 > n THEN 0 ELSE n - 1 + 1
      BY <2>1, FS_Interval
    <2>3. Cardinality(1 .. n) = n BY <1>1, <2>2 DEF n
    <2>4. Cardinality(1 .. n) = Cardinality(S) BY <2>3 DEF n
    <2> QED BY <1>6, <2>4, FS_Injection
  <1> QED BY <1>7, <1>8 DEF f, ToSet, Surjection

\* What ToSet makes of a sequence and of two put together.
LEMMA SeqSet ==
    ASSUME NEW S, NEW s \in Seq(S)
    PROVE  ToSet(s) \subseteq S
  BY DEF ToSet

\* What is in a concatenation.
LEMMA ConcatSet ==
    ASSUME NEW S, NEW s \in Seq(S), NEW t \in Seq(S)
    PROVE  ToSet(s \o t) = ToSet(s) \union ToSet(t)
  <1>1. ASSUME NEW i \in DOMAIN s PROVE s[i] \in ToSet(s \o t)
    <2>1. i \in DOMAIN (s \o t) /\ (s \o t)[i] = s[i] OBVIOUS
    <2> QED BY <2>1 DEF ToSet
  <1>2. ASSUME NEW i \in DOMAIN t PROVE t[i] \in ToSet(s \o t)
    <2>1. Len(s) + i \in DOMAIN (s \o t) /\ (s \o t)[Len(s) + i] = t[i] OBVIOUS
    <2> QED BY <2>1 DEF ToSet
  <1>3. ASSUME NEW i \in DOMAIN (s \o t) PROVE (s \o t)[i] \in ToSet(s) \union ToSet(t)
    <2>1. CASE i \in DOMAIN s BY <2>1 DEF ToSet
    <2>2. CASE i \notin DOMAIN s
      <3>1. i - Len(s) \in DOMAIN t /\ (s \o t)[i] = t[i - Len(s)] BY <2>2
      <3> QED BY <3>1 DEF ToSet
    <2> QED BY <2>1, <2>2
  <1> QED BY <1>1, <1>2, <1>3 DEF ToSet

\* The agents of a run, its parallel ones and those it carries, are agents.
LEMMA RunAgents ==
    ASSUME NEW r \in RunStates
    PROVE  /\ ParallelAgents(r) \in SUBSET Agents /\ ActiveAgents(r) \in SUBSET Agents
           /\ ActiveAgents(r) \subseteq ParallelAgents(r)
           /\ IsFiniteSet(ParallelAgents(r) \ {r.owner})
  <1>1. r.parallel \in Seq([agent : Agents, done : BOOLEAN, status : Statuses])
    BY DEF RunStates
  <1>2. \A p \in ToSet(r.parallel) : p \in [agent : Agents, done : BOOLEAN, status : Statuses]
    BY <1>1, SeqSet
  <1>3. \A p \in ToSet(r.parallel) : p.agent \in Agents BY <1>2
  <1>4. ParallelAgents(r) \in SUBSET Agents BY <1>3 DEF ParallelAgents
  <1>5. ActiveAgents(r) \subseteq ParallelAgents(r) BY DEF ParallelAgents, ActiveAgents
  <1>6. IsFiniteSet(Agents)
    <2>1. MaxRuns \in 0 .. MaxRuns BY RunCommandAssumption
    <2>2. MaxRuns * (2 + MaxRetries) \in Int /\ 1 \in Int BY <2>1, RunsHaveRoom
    <2> QED BY <2>2, FS_Interval DEF Agents
  <1>7. ParallelAgents(r) \ {r.owner} \in SUBSET Agents BY <1>4
  <1>8. IsFiniteSet(ParallelAgents(r) \ {r.owner}) BY <1>6, <1>7, FS_Subset
  <1> QED BY <1>4, <1>5, <1>8

\* A retry restarts the run with the next agent, and carries the other agents' worktrees.
LEMMA RestartTyped ==
    ASSUME NEW r, LiveRun(r), NEW tries \in 1 .. MaxRetries - r.retries, NextAgent \in Agents
    PROVE  LET s == Restart(r, tries) IN
           /\ LiveRun(s) /\ s.phase = "running"
           /\ s.owner = r.owner /\ s.agent = NextAgent /\ s.parallel = <<>>
           /\ s.transcript = "none" /\ s.retries > r.retries
           /\ ToSet(s.carried) = ToSet(r.carried) \union (ParallelAgents(r) \ {r.owner})
  <1> DEFINE others == SetToSeq(ParallelAgents(r) \ {r.owner})
             s == Restart(r, tries)
  <1>1. r \in RunStates /\ r.live /\ r.owner \in Agents BY DEF LiveRun
  <1>2. IsFiniteSet(ParallelAgents(r) \ {r.owner}) /\ ParallelAgents(r) \in SUBSET Agents
    BY <1>1, RunAgents
  <1>3. others \in Seq(ParallelAgents(r) \ {r.owner})
        /\ ToSet(others) = ParallelAgents(r) \ {r.owner}
    BY <1>2, SetToSeqLists
  <1>4. others \in Seq(Agents) BY <1>2, <1>3
  <1>5. r.carried \in Seq(Agents) BY <1>1 DEF RunStates
  <1> HIDE DEF others
  <1>6. r.carried \o others \in Seq(Agents) BY <1>4, <1>5
  <1>7. s = [r EXCEPT !.parallel = <<>>, !.carried = r.carried \o others, !.agent = NextAgent,
                      !.status = "", !.phase = "running", !.retries = r.retries + tries,
                      !.transcript = "none"]
    BY <1>1 DEF Restart, CollapseParallel, others, RunStates
  <1>8. r.retries + tries \in 0 .. MaxRetries /\ r.retries + tries > r.retries
    <2>1. r.retries \in 0 .. MaxRetries BY <1>1 DEF RunStates
    <2> QED BY <2>1, RunCommandAssumption
  <1> HIDE DEF s
  <1>9. s \in RunStates
    <2>1. "" \in Statuses /\ "none" \in {"none"} \union Verdicts /\ NextAgent \in {0} \union Agents
          /\ <<>> \in Seq([agent : Agents, done : BOOLEAN, status : Statuses])
      BY DEF Statuses
    <2> QED BY <1>1, <1>6, <1>7, <1>8, <2>1, Zenon DEF RunStates
  <1>10. /\ s.live = r.live /\ s.phase = "running"
         /\ s.owner = r.owner /\ s.agent = NextAgent /\ s.parallel = <<>>
         /\ s.transcript = "none" /\ s.retries > r.retries
         /\ s.carried = r.carried \o others
    BY <1>1, <1>7, <1>8 DEF RunStates
  <1>11. ToSet(s.carried) = ToSet(r.carried) \union ToSet(others)
    BY <1>4, <1>5, <1>10, ConcatSet
  <1> QED BY <1>1, <1>3, <1>9, <1>10, <1>11 DEF s, LiveRun

\* retryRun gives the run up or starts its next cycle, in the room its retries have.
LEMMA RetryOutcome ==
    ASSUME TypeOK, Numbered, NEW r, LiveRun(r), Room(MaxRetries - r.retries),
           NEW e \in RetryRun(r)
    PROVE  e \in EffectStates /\ (Stops(r, e) \/ Retries(r, e))
  <1>1. r \in RunStates /\ r.live /\ r.owner \in Agents BY DEF LiveRun
  <1>2. running \in BOOLEAN /\ r.retries \in 0 .. MaxRetries /\ MaxRetries \in Nat
    BY <1>1, RunCommandAssumption DEF TypeOK, RunStates
  <1>3. <<>> \in Seq(Agents) /\ <<>> \in Seq(JobStates) /\ {} \in SUBSET Agents OBVIOUS
  <1> DEFINE over == [r EXCEPT !.retries = MaxRetries, !.phase = "failed"]
  <1>4. LiveRun(over) /\ over.phase = "failed" /\ over.owner = r.owner
        /\ over.retries >= r.retries
    <2>1. over \in RunStates
      <3>1. MaxRetries \in 0 .. MaxRetries BY <1>2
      <3> QED BY <1>1, <3>1, Zenon DEF RunStates
    <2>2. over.live = r.live /\ over.phase = "failed" /\ over.owner = r.owner
          /\ over.retries = MaxRetries
      BY <1>1 DEF RunStates
    <2> HIDE DEF over
    <2> QED BY <1>1, <1>2, <2>1, <2>2 DEF LiveRun
  <1>5. CASE e = Effect(over, running)
    <2> HIDE DEF over
    <2>1. e = [run |-> over, running |-> running, spawn |-> <<>>, wait |-> {}, job |-> <<>>]
      BY <1>5 DEF Effect
    <2>2. e \in EffectStates BY <1>2, <1>3, <1>4, <2>1, EffectTyped DEF LiveRun
    <2>3. Stops(r, e) BY <1>4, <2>1 DEF Stops
    <2> QED BY <2>2, <2>3
  <1>6. ASSUME NEW tries \in 1 .. MaxRetries - r.retries,
               e = [Effect(Restart(r, tries), TRUE) EXCEPT !.spawn = <<r.owner>>,
                                                           !.wait = {NextAgent}]
        PROVE  e \in EffectStates /\ Retries(r, e)
    <2> DEFINE s == Restart(r, tries)
    <2>1. NextAgent \in Agents
      <3>1. MaxRetries - r.retries \in Nat \ {0} BY <1>2
      <3>2. runs \in 0 .. MaxRuns BY DEF TypeOK
      <3>3. Cardinality(Spawned) + (MaxRetries - r.retries) <= runs * (2 + MaxRetries)
        BY DEF Room
      <3>4. NextAgents(MaxRetries - r.retries) \subseteq Agents
        BY <3>1, <3>2, <3>3, NextAgentsAreNew
      <3>5. NextAgent \in NextAgents(MaxRetries - r.retries)
        BY <3>1, SpawnedIsFinite DEF NextAgents
      <3> QED BY <3>4, <3>5
    <2>2. /\ LiveRun(s) /\ s.phase = "running"
          /\ s.owner = r.owner /\ s.agent = NextAgent /\ s.parallel = <<>>
          /\ s.transcript = "none" /\ s.retries > r.retries
          /\ ToSet(s.carried) = ToSet(r.carried) \union (ParallelAgents(r) \ {r.owner})
      BY <2>1, RestartTyped
    <2> HIDE DEF s
    <2>3. e = [run |-> s, running |-> TRUE, spawn |-> <<r.owner>>, wait |-> {NextAgent},
               job |-> <<>>]
      BY <1>6 DEF Effect, s
    <2>4. <<r.owner>> \in Seq(Agents) /\ {NextAgent} \in SUBSET Agents /\ s \in RunStates
      BY <1>1, <2>1, <2>2 DEF LiveRun
    <2>5. e \in EffectStates BY <1>3, <2>3, <2>4, EffectTyped
    <2>6. Retries(r, e) BY <2>2, <2>3 DEF Retries
    <2> QED BY <2>5, <2>6
  <1> QED BY <1>5, <1>6 DEF RetryRun

\* A change of the phase, the status or the checklist stays in the cycle.
LEMMA CycleKept ==
    ASSUME NEW r, LiveRun(r), NEW s \in RunStates,
           s.live = r.live, s.owner = r.owner, s.agent = r.agent, s.carried = r.carried,
           s.parallel = r.parallel, s.transcript = r.transcript, s.retries = r.retries
    PROVE  SameCycle(r, s)
  BY DEF SameCycle, LiveRun, IsParallel, ParallelAgents

Phases == {"none", "running", "gating", "verifying", "merging", "failed", "done"}

\* A change of the phase is nothing else.
LEMMA PhaseChange ==
    ASSUME NEW r, LiveRun(r), NEW phase \in Phases
    PROVE  SameCycle(r, [r EXCEPT !.phase = phase]) /\ [r EXCEPT !.phase = phase].phase = phase
  <1> DEFINE s == [r EXCEPT !.phase = phase]
  <1>1. r \in RunStates BY DEF LiveRun
  <1>2. s \in RunStates BY <1>1, Zenon DEF RunStates, Phases
  <1>3. /\ s.live = r.live /\ s.owner = r.owner /\ s.agent = r.agent
        /\ s.carried = r.carried /\ s.parallel = r.parallel /\ s.transcript = r.transcript
        /\ s.retries = r.retries /\ s.phase = phase
    BY <1>1 DEF RunStates
  <1> HIDE DEF s
  <1>4. SameCycle(r, s) BY <1>2, <1>3, CycleKept
  <1> QED BY <1>3, <1>4 DEF s

\* A change of the status is nothing else.
LEMMA StatusChange ==
    ASSUME NEW r, LiveRun(r), NEW status \in Statuses
    PROVE  /\ SameCycle(r, [r EXCEPT !.status = status])
           /\ [r EXCEPT !.status = status].phase = r.phase
  <1> DEFINE s == [r EXCEPT !.status = status]
  <1>1. r \in RunStates BY DEF LiveRun
  <1>2. s \in RunStates BY <1>1, Zenon DEF RunStates
  <1>3. /\ s.live = r.live /\ s.owner = r.owner /\ s.agent = r.agent
        /\ s.carried = r.carried /\ s.parallel = r.parallel /\ s.transcript = r.transcript
        /\ s.retries = r.retries /\ s.phase = r.phase
    BY <1>1 DEF RunStates
  <1> HIDE DEF s
  <1>4. SameCycle(r, s) BY <1>2, <1>3, CycleKept
  <1> QED BY <1>3, <1>4 DEF s

\* The checklist is what the worktrees of the cycle that are held record.
LEMMA ChecklistChange ==
    ASSUME TypeOK, NEW r, LiveRun(r)
    PROVE  /\ SameCycle(r, RefreshChecklist(r)) /\ RefreshChecklist(r).phase = r.phase
           /\ RefreshChecklist(r).ticked = Slices => PlanDone(r)
  <1> DEFINE s == RefreshChecklist(r)
             views == {t \in {r.owner} \union ParallelAgents(r) : tree[t].state = "held"}
             ticked == UNION {tree[t].ticked : t \in views}
  <1>1. r \in RunStates /\ r.owner \in Agents BY DEF LiveRun
  <1>2. ParallelAgents(r) \in SUBSET Agents BY <1>1, RunAgents
  <1>3. ticked \in SUBSET Slices
    <2>1. \A t \in Agents : tree[t].ticked \in SUBSET Slices BY DEF TypeOK
    <2> QED BY <1>1, <1>2, <2>1
  <1>4. s = IF views = {} THEN r ELSE [r EXCEPT !.ticked = ticked] BY DEF RefreshChecklist
  <1>5. \A slice \in ticked : \E t \in {r.owner} \union ParallelAgents(r) :
            tree[t].state = "held" /\ slice \in tree[t].ticked
    OBVIOUS
  <1>6. tree[r.owner].state = "held" => views # {} OBVIOUS
  <1> HIDE DEF s, views, ticked
  <1>7. s \in RunStates
    <2>1. [r EXCEPT !.ticked = ticked] \in RunStates BY <1>1, <1>3, Zenon DEF RunStates
    <2> QED BY <1>1, <1>4, <2>1
  <1>8. /\ s.live = r.live /\ s.owner = r.owner /\ s.agent = r.agent
        /\ s.carried = r.carried /\ s.parallel = r.parallel /\ s.transcript = r.transcript
        /\ s.retries = r.retries /\ s.phase = r.phase
        /\ views # {} => s.ticked = ticked
    BY <1>1, <1>4 DEF RunStates
  <1>9. SameCycle(r, s) BY <1>7, <1>8, CycleKept
  <1>10. s.ticked = Slices => PlanDone(r) BY <1>5, <1>6, <1>8 DEF PlanDone
  <1> QED BY <1>8, <1>9, <1>10 DEF s

\* What a step asks for is the same from any run of the cycle.
LEMMA OutcomeOfCycle ==
    ASSUME NEW r, NEW s, SameCycle(r, s), NEW e, Outcome(s, e)
    PROVE  Outcome(r, e)
  <1>1. /\ s.owner = r.owner /\ s.agent = r.agent /\ s.carried = r.carried
        /\ IsParallel(s) = IsParallel(r) /\ ParallelAgents(s) = ParallelAgents(r)
        /\ s.transcript = r.transcript /\ s.retries = r.retries
    BY DEF SameCycle
  <1>2. SameCycle(s, e.run) => SameCycle(r, e.run) BY <1>1 DEF SameCycle
  <1>3. PlanDone(s) => PlanDone(r) BY <1>1 DEF PlanDone
  <1>4. Stops(s, e) => Stops(r, e) BY <1>1 DEF Stops
  <1>5. Gates(s, e) => Gates(r, e) BY <1>2 DEF Gates
  <1>6. Merges(s, e) => Merges(r, e) BY <1>1, <1>2, <1>3 DEF Merges
  <1>7. Retries(s, e) => Retries(r, e) BY <1>1 DEF Retries
  <1> QED BY <1>4, <1>5, <1>6, <1>7 DEF Outcome

\* The worktrees of a merge, as a sequence and as a set.
LEMMA MergeTargetsSet ==
    ASSUME NEW r \in RunStates, r.owner \in Agents
    PROVE  MergeTargets(r) \in Seq(Agents) /\ ToSet(MergeTargets(r)) = Targets(r)
  <1> DEFINE first == IF IsParallel(r)
                      THEN [i \in DOMAIN r.parallel |-> r.parallel[i].agent]
                      ELSE <<r.owner>>
             P == [agent : Agents, done : BOOLEAN, status : Statuses]
  <1>1. r.parallel \in Seq(P) /\ r.carried \in Seq(Agents) BY DEF RunStates
  <1>2. \A i \in DOMAIN r.parallel : r.parallel[i] \in P
    <2> HIDE DEF P
    <2> QED BY <1>1
  <1>3. \A i \in DOMAIN r.parallel : r.parallel[i].agent \in Agents BY <1>2
  <1>4. DOMAIN r.parallel = 1 .. Len(r.parallel) /\ Len(r.parallel) \in Nat
    <2> HIDE DEF P
    <2> QED BY <1>1
  <1>5. first \in Seq(Agents)
        /\ ToSet(first) = IF IsParallel(r) THEN ParallelAgents(r) ELSE {r.owner}
    <2>1. CASE IsParallel(r)
      <3> DEFINE f == [i \in DOMAIN r.parallel |-> r.parallel[i].agent]
      <3>1. first = f BY <2>1
      <3>2. f \in [1 .. Len(r.parallel) -> Agents] BY <1>3, <1>4
      <3>3. f \in Seq(Agents)
        <4> HIDE DEF f
        <4> QED BY <1>4, <3>2
      <3>4. ToSet(f) = ParallelAgents(r) BY DEF ToSet, ParallelAgents
      <3> HIDE DEF f
      <3> QED BY <2>1, <3>1, <3>3, <3>4
    <2>2. CASE ~IsParallel(r)
      <3>1. first = <<r.owner>> BY <2>2
      <3>2. ToSet(<<r.owner>>) = {r.owner} BY DEF ToSet
      <3> QED BY <2>2, <3>1, <3>2
    <2> QED BY <2>1, <2>2
  <1>6. MergeTargets(r) = first \o r.carried BY DEF MergeTargets
  <1> HIDE DEF first
  <1>7. MergeTargets(r) \in Seq(Agents) BY <1>1, <1>5, <1>6
  <1>8. ToSet(MergeTargets(r)) = ToSet(first) \union ToSet(r.carried)
    BY <1>1, <1>5, <1>6, ConcatSet
  <1> QED BY <1>5, <1>7, <1>8 DEF Targets

\* verifyRunComplete merges what both signals agree on, or retries.
LEMMA VerifyOutcome ==
    ASSUME TypeOK, Numbered, NEW r, LiveRun(r), Room(MaxRetries - r.retries),
           NEW e \in VerifyRunComplete(r)
    PROVE  e \in EffectStates /\ Outcome(r, e)
  <1> DEFINE seen == [r EXCEPT !.phase = "verifying"]
             checked == RefreshChecklist(seen)
             merging == [checked EXCEPT !.phase = "merging"]
  <1>1. SameCycle(r, seen) /\ LiveRun(seen) BY PhaseChange DEF SameCycle, Phases
  <1> HIDE DEF seen
  <1>2. SameCycle(seen, checked) /\ LiveRun(checked)
        /\ (checked.ticked = Slices => PlanDone(seen))
    BY <1>1, ChecklistChange DEF SameCycle
  <1>3. SameCycle(r, checked) BY <1>1, <1>2 DEF SameCycle
  <1>4. PlanDone(seen) => PlanDone(r) BY <1>1 DEF SameCycle, PlanDone
  <1> HIDE DEF checked
  <1>5. CASE Verified(checked)
    <2>1. SameCycle(checked, merging) /\ merging.phase = "merging" /\ LiveRun(merging)
      BY <1>2, PhaseChange DEF SameCycle, Phases
    <2>2. e = [Effect(merging, running) EXCEPT !.job = <<MergeJob(checked)>>]
      BY <1>5, Zenon DEF VerifyRunComplete, checked, seen
    <2>3. MergeJob(checked) = MergeJob(merging)
      <3>1. checked \in RunStates BY <1>2 DEF LiveRun
      <3>2. merging.parallel = checked.parallel BY <3>1 DEF RunStates
      <3> HIDE DEF merging
      <3> QED BY <2>1, <3>2 DEF MergeJob, MergeTargets, SameCycle
    <2> HIDE DEF merging
    <2>4. e = [run |-> merging, running |-> running, spawn |-> <<>>, wait |-> {},
               job |-> <<MergeJob(merging)>>]
      BY <2>2, <2>3 DEF Effect
    <2>5. MergeJob(merging) \in JobStates
      <3>1. MergeTargets(merging) \in Seq(Agents) BY <2>1, MergeTargetsSet DEF LiveRun
      <3> QED BY <3>1, Zenon DEF MergeJob, JobStates
    <2>6. running \in BOOLEAN /\ merging \in RunStates BY <2>1 DEF TypeOK, LiveRun
    <2>7. <<>> \in Seq(Agents) /\ {} \in SUBSET Agents
          /\ <<MergeJob(merging)>> \in Seq(JobStates)
      BY <2>5
    <2>8. e \in EffectStates BY <2>4, <2>6, <2>7, EffectTyped
    <2>9. SameCycle(r, merging) BY <1>3, <2>1 DEF SameCycle
    <2>10. r.transcript = "pass" /\ PlanDone(r)
      BY <1>2, <1>3, <1>4, <1>5 DEF Verified, SameCycle
    <2>11. Merges(r, e) BY <2>1, <2>4, <2>9, <2>10 DEF Merges
    <2> QED BY <2>8, <2>11 DEF Outcome
  <1>6. CASE ~Verified(checked)
    <2>1. e \in RetryRun(checked) BY <1>6, Zenon DEF VerifyRunComplete, checked, seen
    <2>2. Room(MaxRetries - checked.retries) BY <1>3 DEF SameCycle
    <2>3. e \in EffectStates /\ Outcome(checked, e)
      BY <1>2, <2>1, <2>2, RetryOutcome DEF Outcome
    <2> QED BY <1>3, <2>3, OutcomeOfCycle
  <1> QED BY <1>5, <1>6

\* An agent that is done is marked, and the cycle goes on with the others.
LEMMA MarkedKeeps ==
    ASSUME TypeOK, NEW r, LiveRun(r), NEW a \in Agents
    PROVE  /\ SameCycle(r, Marked(r, a)) /\ Marked(r, a).phase = r.phase
           /\ ActiveAgents(r) \ {a} \subseteq ActiveAgents(Marked(r, a))
  <1> DEFINE P == [agent : Agents, done : BOOLEAN, status : Statuses]
             mark(p) == IF p.agent = a
                        THEN [p EXCEPT !.done = TRUE, !.status = agent[a].status]
                        ELSE p
             marks == [i \in DOMAIN r.parallel |-> mark(r.parallel[i])]
             s == Marked(r, a)
  <1>1. r \in RunStates /\ r.live /\ r.owner \in Agents BY DEF LiveRun
  <1>2. r.parallel \in Seq(P) BY <1>1 DEF RunStates
  <1>3. ASSUME NEW i \in DOMAIN r.parallel
        PROVE  /\ marks[i] \in P /\ marks[i].agent = r.parallel[i].agent
               /\ r.parallel[i].agent # a => marks[i] = r.parallel[i]
    <2>1. r.parallel[i] \in P
      <3> HIDE DEF P
      <3> QED BY <1>2
    <2>2. agent[a].status \in Statuses BY DEF TypeOK
    <2>3. CASE r.parallel[i].agent = a
      <3>1. marks[i] = [r.parallel[i] EXCEPT !.done = TRUE, !.status = agent[a].status]
        BY <2>3
      <3>2. marks[i] \in P BY <2>1, <2>2, <3>1, Zenon
      <3>3. marks[i].agent = r.parallel[i].agent BY <2>1, <3>1
      <3> QED BY <2>3, <3>2, <3>3
    <2>4. CASE r.parallel[i].agent # a BY <2>1, <2>4
    <2> QED BY <2>3, <2>4
  <1>4. DOMAIN marks = DOMAIN r.parallel OBVIOUS
  <1>5. s = [r EXCEPT !.parallel = marks] BY <1>1 DEF Marked, RunStates
  <1> HIDE DEF marks, s, P, mark
  <1>6. marks \in Seq(P)
    <2>1. DOMAIN r.parallel = 1 .. Len(r.parallel) /\ Len(r.parallel) \in Nat BY <1>2
    <2>2. marks \in [1 .. Len(r.parallel) -> P] BY <1>3, <1>4, <2>1 DEF marks
    <2> QED BY <2>1, <2>2
  <1>7. s \in RunStates BY <1>1, <1>5, <1>6, Zenon DEF RunStates, P
  <1>8. /\ s.live = r.live /\ s.owner = r.owner /\ s.agent = r.agent
        /\ s.carried = r.carried /\ s.parallel = marks /\ s.transcript = r.transcript
        /\ s.retries = r.retries /\ s.phase = r.phase
    BY <1>1, <1>5 DEF RunStates
  <1>9. ParallelAgents(s) = ParallelAgents(r)
    BY <1>3, <1>4, <1>8 DEF ParallelAgents, ToSet
  <1>10. IsParallel(s) = IsParallel(r)
    <2>1. marks = <<>> <=> r.parallel = <<>> BY <1>2, <1>4, <1>6
    <2> QED BY <1>8, <2>1 DEF IsParallel
  <1>11. ActiveAgents(r) \ {a} \subseteq ActiveAgents(s)
    <2> SUFFICES ASSUME NEW b \in ActiveAgents(r), b # a PROVE b \in ActiveAgents(s) OBVIOUS
    <2>1. PICK i \in DOMAIN r.parallel : r.parallel[i].agent = b /\ ~r.parallel[i].done
      BY DEF ActiveAgents, ToSet
    <2>2. marks[i] = r.parallel[i] BY <1>3, <2>1
    <2>3. marks[i] \in ToSet(s.parallel) BY <1>4, <1>8 DEF ToSet
    <2> QED BY <2>1, <2>2, <2>3 DEF ActiveAgents
  <1> QED BY <1>1, <1>7, <1>8, <1>9, <1>10, <1>11 DEF SameCycle, LiveRun, s

\* What follows when every agent of the cycle is done.
LEMMA AgentsDoneOutcome ==
    ASSUME TypeOK, Numbered, NEW r, LiveRun(r), Room(MaxRetries - r.retries),
           NEW a \in Agents, NEW e \in AgentsDone(r, a)
    PROVE  e \in EffectStates /\ Outcome(r, e)
  <1> DEFINE told == [r EXCEPT !.status = agent[a].status]
             gating == [told EXCEPT !.phase = "gating"]
             seen == RefreshChecklist(told)
  <1>1. agent[a].status \in Statuses BY DEF TypeOK
  <1>2. SameCycle(r, told) /\ LiveRun(told) BY <1>1, StatusChange DEF SameCycle
  <1> HIDE DEF told
  <1>3. Room(MaxRetries - told.retries) BY <1>2 DEF SameCycle
  <1>4. PICK x \in RetryRun(seen) \union VerifyRunComplete(told)
                   \union {[Effect(gating, FALSE) EXCEPT !.job = <<GateJob(told)>>]} :
            e = [x EXCEPT !.running = x.spawn # <<>>]
    BY Zenon DEF AgentsDone, told
  <1>5. x \in EffectStates /\ Outcome(told, x)
    <2>1. CASE x \in RetryRun(seen)
      <3>1. SameCycle(told, seen) /\ LiveRun(seen) BY <1>2, ChecklistChange DEF SameCycle
      <3> HIDE DEF seen
      <3>2. Room(MaxRetries - seen.retries) BY <1>3, <3>1 DEF SameCycle
      <3>3. x \in EffectStates /\ Outcome(seen, x)
        BY <2>1, <3>1, <3>2, RetryOutcome DEF Outcome
      <3> QED BY <3>1, <3>3, OutcomeOfCycle
    <2>2. CASE x \in VerifyRunComplete(told) BY <1>2, <1>3, <2>2, VerifyOutcome
    <2>3. CASE x = [Effect(gating, FALSE) EXCEPT !.job = <<GateJob(told)>>]
      <3>1. SameCycle(told, gating) /\ gating.phase = "gating" /\ LiveRun(gating)
        BY ZenonT(30), <1>2, PhaseChange DEF SameCycle, Phases
      <3> HIDE DEF gating
      <3>2. GateJob(told) = GateJob(gating) BY <3>1 DEF GateJob, SameCycle
      <3>3. x = [run |-> gating, running |-> FALSE, spawn |-> <<>>, wait |-> {},
                 job |-> <<GateJob(gating)>>]
        BY <2>3, <3>2 DEF Effect
      <3>4. GateJob(gating) \in JobStates
        <4>1. <<gating.owner>> \in Seq(Agents) BY <3>1 DEF LiveRun
        <4> QED BY <4>1, Zenon DEF GateJob, JobStates
      <3>5. <<>> \in Seq(Agents) /\ {} \in SUBSET Agents
            /\ <<GateJob(gating)>> \in Seq(JobStates) /\ gating \in RunStates
        BY <3>1, <3>4 DEF LiveRun
      <3>6. x \in EffectStates BY <3>3, <3>5, EffectTyped
      <3>7. Gates(told, x) BY <3>1, <3>3 DEF Gates
      <3> QED BY <3>6, <3>7 DEF Outcome
    <2> QED BY <1>4, <2>1, <2>2, <2>3
  <1>6. /\ e.run = x.run /\ e.spawn = x.spawn /\ e.wait = x.wait /\ e.job = x.job
        /\ e \in EffectStates
    <2>1. (x.spawn # <<>>) \in BOOLEAN OBVIOUS
    <2>2. e \in EffectStates BY <1>4, <1>5, <2>1, Zenon DEF EffectStates
    <2>3. e.run = x.run /\ e.spawn = x.spawn /\ e.wait = x.wait /\ e.job = x.job
      BY <1>4, <1>5 DEF EffectStates
    <2> QED BY <2>2, <2>3
  <1>7. Outcome(told, e) BY <1>5, <1>6 DEF Outcome, Stops, Gates, Merges, Retries
  <1> QED BY <1>2, <1>6, <1>7, OutcomeOfCycle

\* An agent is done: the others are waited for, or there is none and the cycle ends.
LEMMA AgentDoneOutcome ==
    ASSUME TypeOK, Numbered, NEW r, LiveRun(r), Room(MaxRetries - r.retries),
           NEW a \in Agents, NEW e \in AgentDone(r, a)
    PROVE  /\ e \in EffectStates
           /\ \/ /\ Outcome(r, e)
                 /\ a \in WaitForRunEvents(r) => WaitForRunEvents(r) \subseteq {a}
              \/ /\ Waits(r, e) /\ e.run.transcript = r.transcript
                 /\ WaitForRunEvents(r) \ {a} \subseteq e.wait
  <1> DEFINE marked == Marked(r, a)
  <1>1. r \in RunStates /\ r.live BY DEF LiveRun
  <1>2. WaitForRunEvents(r) = IF IsParallel(r) THEN ActiveAgents(r) ELSE {r.agent} \ {0}
    BY <1>1 DEF WaitForRunEvents
  <1>4. /\ SameCycle(r, marked) /\ marked.phase = r.phase /\ LiveRun(marked)
        /\ ActiveAgents(r) \ {a} \subseteq ActiveAgents(marked)
    BY MarkedKeeps DEF SameCycle
  <1> HIDE DEF marked
  <1>5. CASE ActiveAgents(marked) # {}
    <2>1. e = [Effect(marked, running) EXCEPT !.wait = WaitForRunEvents(marked)]
      BY <1>1, <1>5, Zenon DEF AgentDone, marked
    <2>2. e = [run |-> marked, running |-> running, spawn |-> <<>>,
               wait |-> WaitForRunEvents(marked), job |-> <<>>]
      BY <2>1 DEF Effect
    <2>3. IsParallel(marked)
      BY <1>5 DEF IsParallel, ActiveAgents, ToSet
    <2>4. WaitForRunEvents(marked) = ActiveAgents(marked) /\ IsParallel(r)
      BY <1>4, <2>3 DEF WaitForRunEvents, LiveRun, SameCycle
    <2>5. WaitForRunEvents(marked) \in SUBSET Agents
      BY <1>4, <2>4, RunAgents DEF LiveRun
    <2>6. <<>> \in Seq(Agents) /\ <<>> \in Seq(JobStates) /\ running \in BOOLEAN
          /\ marked \in RunStates
      BY <1>4 DEF TypeOK, LiveRun
    <2>7. e \in EffectStates BY <2>2, <2>5, <2>6, EffectTyped
    <2>8. Waits(r, e) /\ e.run.transcript = r.transcript
      BY <1>4, <2>2 DEF Waits, SameCycle
    <2>9. WaitForRunEvents(r) \ {a} \subseteq e.wait BY <1>2, <1>4, <2>2, <2>4
    <2> QED BY <2>7, <2>8, <2>9
  <1>6. CASE ActiveAgents(marked) = {}
    <2>1. e \in AgentsDone(marked, a) BY <1>1, <1>6, Zenon DEF AgentDone, marked
    <2>2. Room(MaxRetries - marked.retries) BY <1>4 DEF SameCycle
    <2>3. e \in EffectStates /\ Outcome(marked, e)
      BY <1>4, <2>1, <2>2, AgentsDoneOutcome
    <2>4. Outcome(r, e) BY <1>4, <2>3, OutcomeOfCycle
    <2>5. a \in WaitForRunEvents(r) => WaitForRunEvents(r) \subseteq {a} BY <1>2, <1>4, <1>6
    <2> QED BY <2>3, <2>4, <2>5
  <1> QED BY <1>5, <1>6

\* An event joins the run, and its agents are waited for again.
LEMMA AgentEventOutcome ==
    ASSUME TypeOK, NEW r, LiveRun(r), NEW event \in {"edit"} \union Verdicts,
           NEW e \in AgentEvent(r, event)
    PROVE  /\ e \in EffectStates /\ Waits(r, e) /\ e.wait = WaitForRunEvents(r)
           /\ e.run.transcript = IF event = "edit" THEN r.transcript ELSE event
  <1> DEFINE seen == IF event = "edit" THEN RefreshChecklist(r)
                                       ELSE [r EXCEPT !.transcript = event]
  <1>1. r \in RunStates /\ r.live /\ r.owner \in Agents BY DEF LiveRun
  <1>2. e = [Effect(seen, running) EXCEPT !.wait = WaitForRunEvents(seen)]
    BY <1>1, Zenon DEF AgentEvent
  <1>3. seen \in RunStates /\ seen.live = r.live /\ seen.phase = r.phase
        /\ seen.owner = r.owner /\ seen.agent = r.agent /\ seen.carried = r.carried
        /\ seen.parallel = r.parallel /\ seen.retries = r.retries
        /\ seen.transcript = IF event = "edit" THEN r.transcript ELSE event
    <2>1. CASE event = "edit"
      <3> DEFINE s == RefreshChecklist(r)
      <3>1. s \in RunStates /\ s.phase = r.phase
        BY ChecklistChange DEF SameCycle, LiveRun
      <3>2. s.live = r.live /\ s.owner = r.owner /\ s.agent = r.agent /\ s.carried = r.carried
            /\ s.parallel = r.parallel /\ s.retries = r.retries /\ s.transcript = r.transcript
        BY <1>1 DEF RefreshChecklist, RunStates
      <3> HIDE DEF s
      <3> QED BY <2>1, <3>1, <3>2 DEF s
    <2>2. CASE event # "edit"
      <3> DEFINE s == [r EXCEPT !.transcript = event]
      <3>1. event \in {"none"} \union Verdicts BY <2>2
      <3>2. s \in RunStates BY <1>1, <3>1, Zenon DEF RunStates
      <3>3. s.live = r.live /\ s.phase = r.phase /\ s.owner = r.owner /\ s.agent = r.agent
            /\ s.carried = r.carried /\ s.parallel = r.parallel /\ s.retries = r.retries
            /\ s.transcript = event
        BY <1>1 DEF RunStates
      <3> HIDE DEF s
      <3> QED BY <2>2, <3>2, <3>3 DEF s
    <2> QED BY <2>1, <2>2
  <1> HIDE DEF seen
  <1>4. e = [run |-> seen, running |-> running, spawn |-> <<>>,
             wait |-> WaitForRunEvents(seen), job |-> <<>>]
    BY <1>2 DEF Effect
  <1>5. WaitForRunEvents(seen) = WaitForRunEvents(r)
    BY <1>1, <1>3 DEF WaitForRunEvents, IsParallel, ActiveAgents
  <1>6. WaitForRunEvents(r) \in SUBSET Agents
    <2>1. ActiveAgents(r) \in SUBSET Agents BY <1>1, RunAgents
    <2>2. r.agent \in {0} \union Agents BY <1>1 DEF RunStates
    <2> QED BY <1>1, <2>1, <2>2 DEF WaitForRunEvents
  <1>7. <<>> \in Seq(Agents) /\ <<>> \in Seq(JobStates) /\ running \in BOOLEAN
    BY DEF TypeOK
  <1>8. e \in EffectStates BY <1>3, <1>4, <1>5, <1>6, <1>7, EffectTyped
  <1>9. Waits(r, e)
    BY <1>1, <1>3, <1>4 DEF Waits, LiveRun, IsParallel, ParallelAgents
  <1> QED BY <1>3, <1>4, <1>5, <1>8, <1>9

\* The result of the gates.
LEMMA GateOutcome ==
    ASSUME TypeOK, Numbered, NEW r, LiveRun(r), Room(MaxRetries - r.retries),
           NEW outcome, NEW e \in GateResult(r, outcome)
    PROVE  e \in EffectStates /\ Outcome(r, e)
  <1> DEFINE over == [r EXCEPT !.phase = "failed"]
  <1>1. r.live BY DEF LiveRun
  <1>2. e \in VerifyRunComplete(r) \union RetryRun(r) \union {Effect(over, running)}
    BY <1>1, Zenon DEF GateResult
  <1>3. CASE e = Effect(over, running)
    <2>1. SameCycle(r, over) /\ over.phase = "failed" /\ LiveRun(over)
      BY PhaseChange DEF SameCycle, Phases
    <2> HIDE DEF over
    <2>2. e = [run |-> over, running |-> running, spawn |-> <<>>, wait |-> {}, job |-> <<>>]
      BY <1>3 DEF Effect
    <2>3. <<>> \in Seq(Agents) /\ <<>> \in Seq(JobStates) /\ {} \in SUBSET Agents
          /\ running \in BOOLEAN /\ over \in RunStates
      BY <2>1 DEF TypeOK, LiveRun
    <2>4. e \in EffectStates BY <2>2, <2>3, EffectTyped
    <2>5. r.retries \in 0 .. MaxRetries BY DEF LiveRun, RunStates
    <2>6. Stops(r, e) BY <2>1, <2>2, <2>5 DEF Stops, SameCycle
    <2> QED BY <2>4, <2>6 DEF Outcome
  <1> HIDE DEF over
  <1>4. CASE e \in VerifyRunComplete(r) BY <1>4, VerifyOutcome
  <1>5. CASE e \in RetryRun(r) BY <1>5, RetryOutcome DEF Outcome
  <1> QED BY <1>2, <1>3, <1>4, <1>5

\* The run is done.
Finishes(r, e) ==
    /\ e.spawn = <<>> /\ e.wait = {} /\ e.job = <<>>
    /\ LiveRun(e.run) /\ e.run.phase = "done"
    /\ e.run.owner = r.owner /\ e.run.retries = r.retries

\* The result of the merge.
LEMMA MergeOutcome ==
    ASSUME TypeOK, NEW r, LiveRun(r), NEW failed \in BOOLEAN
    PROVE  LET e == MergeResult(r, failed) IN
           /\ e \in EffectStates
           /\ failed => Stops(r, e)
           /\ ~failed => Finishes(r, e)
  <1> DEFINE e == MergeResult(r, failed)
             s == IF failed THEN [r EXCEPT !.phase = "failed"]
                            ELSE [r EXCEPT !.phase = "done", !.ticked = Slices]
  <1>1. r \in RunStates /\ r.live /\ r.owner \in Agents BY DEF LiveRun
  <1>2. e = Effect(s, running) BY <1>1, Zenon DEF MergeResult
  <1>3. s \in RunStates
    <2>1. Slices \in SUBSET Slices OBVIOUS
    <2>2. [r EXCEPT !.phase = "failed"] \in RunStates BY <1>1, Zenon DEF RunStates
    <2>3. [r EXCEPT !.phase = "done", !.ticked = Slices] \in RunStates
      BY <1>1, <2>1, Zenon DEF RunStates
    <2> QED BY <2>2, <2>3
  <1>4. s.live = r.live /\ s.owner = r.owner /\ s.retries = r.retries
        /\ s.phase = IF failed THEN "failed" ELSE "done"
    BY <1>1 DEF RunStates
  <1>5. r.retries \in 0 .. MaxRetries BY <1>1 DEF RunStates
  <1> HIDE DEF s, e
  <1>6. e = [run |-> s, running |-> running, spawn |-> <<>>, wait |-> {}, job |-> <<>>]
    BY <1>2 DEF Effect
  <1>7. <<>> \in Seq(Agents) /\ <<>> \in Seq(JobStates) /\ {} \in SUBSET Agents
        /\ running \in BOOLEAN
    BY DEF TypeOK
  <1>8. e \in EffectStates BY <1>3, <1>6, <1>7, EffectTyped
  <1>9. failed => Stops(r, e)
    <2>1. s.retries >= r.retries BY <1>4, <1>5
    <2>2. LiveRun(s) /\ s.owner = r.owner /\ (failed => s.phase = "failed")
      BY <1>1, <1>3, <1>4 DEF LiveRun
    <2> QED BY <1>6, <2>1, <2>2 DEF Stops
  <1>10. ~failed => Finishes(r, e) BY <1>1, <1>3, <1>4, <1>6 DEF Finishes, LiveRun
  <1> QED BY <1>8, <1>9, <1>10 DEF e

\* What an effect spawns is paid for by the retries of the run.
LEMMA OutcomeSpawns ==
    ASSUME TypeOK, NEW r, LiveRun(r), NEW e \in EffectStates,
           Outcome(r, e) \/ Waits(r, e) \/ Finishes(r, e)
    PROVE  \E n \in Nat : SpawnsNext(e, n) /\ n + Left(e.run) <= MaxRetries - r.retries
  <1>1. r.retries \in 0 .. MaxRetries /\ MaxRetries \in Nat /\ r.owner \in Agents
    BY RunCommandAssumption DEF LiveRun, RunStates
  <1>2. LiveRun(e.run)
    BY DEF Outcome, Stops, Gates, Merges, Retries, Waits, Finishes, SameCycle
  <1>3. e.run.retries \in 0 .. MaxRetries /\ Left(e.run) = MaxRetries - e.run.retries
    BY <1>2 DEF LiveRun, RunStates, Left
  <1>4. CASE Retries(r, e)
    <2>1. e.spawn = <<r.owner>> /\ e.run.retries > r.retries BY <1>4 DEF Retries
    <2>2. <<r.owner>> \in [1 .. 1 -> Agents] BY <1>1
    <2>3. SpawnsNext(e, 1) BY <2>1, <2>2 DEF SpawnsNext
    <2>4. 1 + Left(e.run) <= MaxRetries - r.retries BY <1>1, <1>3, <2>1
    <2> QED BY <2>3, <2>4
  <1>5. CASE ~Retries(r, e)
    <2>1. e.spawn = <<>> /\ e.run.retries >= r.retries
      BY <1>1, <1>5 DEF Outcome, Stops, Gates, Merges, Waits, Finishes, SameCycle
    <2>2. SpawnsNext(e, 0) BY <2>1 DEF SpawnsNext
    <2>3. 0 + Left(e.run) <= MaxRetries - r.retries BY <1>1, <1>3, <2>1
    <2> QED BY <2>2, <2>3
  <1> QED BY <1>4, <1>5

-----------------------------------------------------------------------------
\* The types are kept.

\* A sequence with one element taken out.
LEMMA RemoveAtTyped ==
    ASSUME NEW S, NEW s \in Seq(S), NEW i \in DOMAIN s
    PROVE  /\ RemoveAt(s, i) \in Seq(S)
           /\ Len(s) = 1 => RemoveAt(s, i) = <<>>
  <1>1. i \in 1 .. Len(s) /\ Len(s) \in Nat OBVIOUS
  <1>2. SubSeq(s, 1, i - 1) \in Seq(S) /\ SubSeq(s, i + 1, Len(s)) \in Seq(S) BY <1>1
  <1>3. RemoveAt(s, i) \in Seq(S) BY <1>2 DEF RemoveAt
  <1>4. ASSUME Len(s) = 1 PROVE RemoveAt(s, i) = <<>>
    <2>1. i = 1 BY <1>1, <1>4
    <2>2. SubSeq(s, 1, 0) = <<>> /\ SubSeq(s, 2, 1) = <<>> BY <1>4
    <2> QED BY <1>4, <2>1, <2>2 DEF RemoveAt
  <1> QED BY <1>3, <1>4

\* A step of Update keeps the types, when what it spawns is paid for.
LEMMA UpdateKeepsTyped ==
    ASSUME Typed, NEW e \in EffectStates, e.run.live => e.run.owner \in Agents,
           NEW n \in Nat, SpawnsNext(e, n),
           NEW waiting \in Seq(SUBSET Agents), NEW working \in Seq(JobStates),
           Update(e, waiting, working), runs' \in 0 .. MaxRuns,
           Cardinality(Spawned) + n + Left(e.run) <= runs' * (2 + MaxRetries),
           chan' \in [Agents -> Seq({"edit"} \union Verdicts)],
           orphans' \in [Agents -> Nat], says' \in 0 .. MaxSays, alone' \in BOOLEAN
    PROVE  Typed'
  <1>1. TypeOK /\ Numbered BY DEF Typed
  <1>2. /\ run' \in RunStates /\ running' \in BOOLEAN
        /\ agent' \in [Agents -> AgentStates] /\ tree' \in [Agents -> TreeStates]
        /\ cmds' \in Seq(SUBSET Agents) /\ jobs' \in Seq(JobStates)
        /\ Numbered' /\ Room(Left(run))'
    BY <1>1, UpdateTyped
  <1>3. TypeOK' BY <1>2 DEF TypeOK, AgentStates, TreeStates
  <1>4. Owned' BY DEF Owned, Update
  <1> QED BY <1>2, <1>3, <1>4 DEF Typed

\* An answer to an agent or a job of the run at hand, if there still is one.
IsAnswer(e) ==
    \/ run.live /\ (Outcome(run, e) \/ Waits(run, e) \/ Finishes(run, e))
    \/ ~run.live /\ e.run = run /\ e.spawn = <<>>

\* The same for a step that answers an agent or a job.
LEMMA AnswerKeepsTyped ==
    ASSUME Typed, NEW e \in EffectStates, IsAnswer(e),
           NEW waiting \in Seq(SUBSET Agents), NEW working \in Seq(JobStates),
           Update(e, waiting, working), runs' = runs,
           chan' \in [Agents -> Seq({"edit"} \union Verdicts)],
           orphans' \in [Agents -> Nat], says' \in 0 .. MaxSays, alone' \in BOOLEAN
    PROVE  Typed'
  <1>1. TypeOK /\ Owned /\ Room(Left(run)) BY DEF Typed
  <1>2. runs' \in 0 .. MaxRuns BY <1>1 DEF TypeOK
  <1>3. PICK n \in Nat : SpawnsNext(e, n) /\ n + Left(e.run) <= Left(run)
    <2>1. CASE run.live
      <3>1. LiveRun(run) /\ Left(run) = MaxRetries - run.retries
        BY <1>1, <2>1 DEF LiveRun, Owned, TypeOK, Left
      <3> QED BY <1>1, <2>1, <3>1, OutcomeSpawns DEF IsAnswer
    <2>2. CASE ~run.live
      <3>1. e.spawn = <<>> BY <2>2 DEF IsAnswer
      <3>2. SpawnsNext(e, 0) BY <3>1 DEF SpawnsNext
      <3>3. Left(run) = 0 /\ Left(e.run) = 0 BY <2>2 DEF Left, IsAnswer
      <3> QED BY <3>2, <3>3
    <2> QED BY <2>1, <2>2
  <1>4. e.run.live => e.run.owner \in Agents
    BY <1>1 DEF IsAnswer, Outcome, Stops, Gates, Merges, Retries, Waits, Finishes, SameCycle,
                LiveRun, Owned
  <1>5. Cardinality(Spawned) + n + Left(e.run) <= runs' * (2 + MaxRetries)
    <2> DEFINE mine == runs * (2 + MaxRetries)  card == Cardinality(Spawned)
    <2>1. e.run \in RunStates /\ run \in RunStates BY <1>1 DEF EffectStates, TypeOK
    <2>2. Left(e.run) \in Nat /\ Left(run) \in Nat
      BY SMTT(30), <2>1, RunCommandAssumption DEF Left, RunStates
    <2>3. card \in Nat /\ mine \in Nat BY <1>2, SpawnedIsFinite, RunsHaveRoom
    <2>4. card + Left(run) <= mine BY <1>1 DEF Room
    <2> HIDE DEF mine, card
    <2>5. card + n + Left(e.run) <= mine BY <1>3, <2>2, <2>3, <2>4
    <2> QED BY <2>5 DEF mine, card
  <1> QED BY <1>2, <1>3, <1>4, <1>5, UpdateKeepsTyped

\* A step that spawns nobody keeps the numbers.
LEMMA NumbersKept ==
    ASSUME Typed, runs' = runs, run' \in {run, NoRun},
           \A a \in Agents : agent'[a].state = "none" <=> agent[a].state = "none"
    PROVE  Owned' /\ Numbered' /\ Room(Left(run))'
  <1>1. TypeOK /\ Owned /\ Numbered /\ Room(Left(run)) BY DEF Typed
  <1>2. Spawned' = Spawned BY DEF Spawned
  <1>3. Cardinality(Spawned)' = Cardinality(Spawned) BY <1>2, Zenon
  <1>4. Numbered' BY <1>1, <1>2, <1>3, Zenon DEF Numbered
  <1>5. ~NoRun.live BY DEF NoRun
  <1>6. Room(Left(run))'
    <2> DEFINE mine == runs * (2 + MaxRetries)  card == Cardinality(Spawned)
    <2>1. runs \in 0 .. MaxRuns /\ run \in RunStates BY <1>1 DEF TypeOK
    <2>2. card \in Nat /\ mine \in Nat BY <2>1, SpawnedIsFinite, RunsHaveRoom
    <2>3. Left(run) \in Nat BY <2>1, RunCommandAssumption DEF Left, RunStates
    <2>4. Left(run)' = Left(run) \/ Left(run)' = 0 BY <1>5 DEF Left
    <2>5. card + Left(run) <= mine BY <1>1 DEF Room
    <2> HIDE DEF mine, card
    <2>6. card + Left(run)' <= mine BY <2>2, <2>3, <2>4, <2>5
    <2>7. Cardinality(Spawned)' + Left(run)' <= runs' * (2 + MaxRetries)
      BY <1>3, <2>6 DEF mine, card
    <2> QED BY <2>7 DEF Room
  <1>7. Owned' BY <1>1, <1>5 DEF Owned
  <1> QED BY <1>4, <1>6, <1>7

\* A run that /run installs.
LEMMA FreshRunTyped ==
    ASSUME NEW count \in 1 .. 2, NEW gates \in BOOLEAN, NextAgents(count) \subseteq Agents
    PROVE  LET r == FreshRun(count, gates) IN
           /\ LiveRun(r) /\ r.phase = "running" /\ r.retries = 0 /\ r.transcript = "none"
           /\ r.owner = NextAgent /\ r.agent = NextAgent /\ r.carried = <<>>
           /\ IsParallel(r) <=> count = 2
           /\ count = 2 => /\ ParallelAgents(r) = NextAgents(2)
                           /\ ActiveAgents(r) = NextAgents(2)
  <1> DEFINE r == FreshRun(count, gates)
             entry(i) == [agent |-> NextAgent + i - 1, done |-> FALSE, status |-> ""]
             par == IF count = 1 THEN <<>> ELSE [i \in 1 .. count |-> entry(i)]
             P == [agent : Agents, done : BOOLEAN, status : Statuses]
  <1>1. NextAgent \in Nat \ {0} BY SpawnedIsFinite
  <1>2. \A i \in 1 .. count : NextAgent + i - 1 \in NextAgents(count) BY <1>1 DEF NextAgents
  <1>3. NextAgent \in Agents
    <2>1. NextAgent \in NextAgents(count) BY <1>1 DEF NextAgents
    <2> QED BY <2>1
  <1>4. par \in Seq(P)
    <2>1. \A i \in 1 .. count : entry(i) \in P BY <1>2 DEF Statuses
    <2> HIDE DEF P, entry
    <2>2. CASE count = 1 BY <2>2
    <2>3. CASE count # 1
      <3>1. par \in [1 .. count -> P] BY <2>1, <2>3
      <3> HIDE DEF par
      <3> QED BY <3>1
    <2> QED BY <2>2, <2>3
  <1>5. r = [live |-> TRUE, phase |-> "running", gates |-> gates, agent |-> NextAgent,
             owner |-> NextAgent, parallel |-> par, carried |-> <<>>, retries |-> 0,
             status |-> "", transcript |-> "none", ticked |-> {}]
    <2>1. r = [NoRun EXCEPT !.live = TRUE, !.phase = "running", !.gates = gates,
                            !.agent = NextAgent, !.owner = NextAgent, !.parallel = par]
      BY Zenon DEF FreshRun
    <2> HIDE DEF par, r
    <2> QED BY <2>1 DEF NoRun
  <1> HIDE DEF par, r
  <1>6. r \in RunStates
    <2>1. 0 \in 0 .. MaxRetries /\ "" \in Statuses /\ NextAgent \in {0} \union Agents
          /\ "none" \in {"none"} \union Verdicts /\ {} \in SUBSET Slices
          /\ <<>> \in Seq(Agents) /\ TRUE \in BOOLEAN
      BY <1>3, RunCommandAssumption DEF Statuses
    <2> QED BY <1>4, <1>5, <2>1, Zenon DEF RunStates
  <1>7. /\ r.live /\ r.phase = "running" /\ r.retries = 0 /\ r.transcript = "none"
        /\ r.owner = NextAgent /\ r.agent = NextAgent /\ r.carried = <<>>
        /\ r.parallel = par
    BY <1>5
  <1>8. IsParallel(r) = (count = 2)
    <2>1. CASE count = 1 BY <1>7, <2>1 DEF IsParallel, par
    <2>2. CASE count = 2
      <3>1. DOMAIN par = 1 .. 2 BY <2>2 DEF par
      <3>2. DOMAIN par # {} /\ DOMAIN <<>> = {} BY <3>1
      <3>3. par # <<>> BY <3>2
      <3> QED BY <1>7, <2>2, <3>3 DEF IsParallel
    <2> QED BY <2>1, <2>2
  <1>9. ASSUME count = 2 PROVE ParallelAgents(r) = NextAgents(2) /\ ActiveAgents(r) = NextAgents(2)
    <2>1. \A i \in 1 .. 2 : entry(i).agent = NextAgent + i - 1 /\ ~entry(i).done OBVIOUS
    <2> HIDE DEF entry
    <2>2. ToSet(par) = {entry(i) : i \in 1 .. 2} BY <1>9 DEF par, ToSet
    <2>3. ActiveAgents(r) = ParallelAgents(r)
      BY <1>7, <2>1, <2>2 DEF ActiveAgents, ParallelAgents
    <2>4. ParallelAgents(r) = {NextAgent + i - 1 : i \in 1 .. 2}
      BY <1>7, <2>1, <2>2 DEF ParallelAgents
    <2>5. {NextAgent + i - 1 : i \in 1 .. 2} = NextAgents(2)
      <3>1. ASSUME NEW a \in NextAgents(2) PROVE a \in {NextAgent + i - 1 : i \in 1 .. 2}
        <4>1. a - NextAgent + 1 \in 1 .. 2 /\ a = NextAgent + (a - NextAgent + 1) - 1
          BY <1>1 DEF NextAgents
        <4> QED BY <4>1
      <3> QED BY <1>2, <1>9, <3>1
    <2> QED BY <2>3, <2>4, <2>5
  <1> QED BY <1>3, <1>6, <1>7, <1>8, <1>9 DEF r, LiveRun

\* There is room for the agents of a new run, whatever the retries of the last may ask for.
LEMMA StartHasRoom ==
    ASSUME Typed, NEW count \in 1 .. 2, runs < MaxRuns, runs' = runs + 1
    PROVE  /\ runs' \in 0 .. MaxRuns
           /\ NextAgents(count) \subseteq Agents /\ NextAgents(count) \cap Spawned = {}
           /\ [i \in 1 .. count |-> NextAgent + i - 1] \in [1 .. count -> Agents]
           /\ Cardinality(Spawned) + count + MaxRetries <= runs' * (2 + MaxRetries)
           /\ Cardinality(Spawned) + count + Left(run) <= runs' * (2 + MaxRetries)
  <1> DEFINE mine == runs * (2 + MaxRetries)  card == Cardinality(Spawned)
             next == runs' * (2 + MaxRetries)
  <1>1. TypeOK /\ Numbered /\ Room(Left(run)) BY DEF Typed
  <1>2. runs \in 0 .. MaxRuns /\ run \in RunStates BY <1>1 DEF TypeOK
  <1>3. MaxRetries \in Nat /\ MaxRuns \in Nat BY RunCommandAssumption
  <1>4. runs' \in 0 .. MaxRuns BY <1>2, <1>3
  <1>5. next = mine + 2 + MaxRetries /\ mine \in Nat BY <1>2, RunsHaveRoom
  <1>6. Left(run) \in Nat BY <1>2, <1>3 DEF Left, RunStates
  <1>7. card + Left(run) <= mine /\ card \in Nat BY <1>1, SpawnedIsFinite DEF Room
  <1> HIDE DEF mine, card, next
  <1>8. card + count + MaxRetries <= next /\ card + count + Left(run) <= next
        /\ card + count <= next
    BY <1>3, <1>5, <1>6, <1>7
  <1>9. Cardinality(Spawned) + count <= runs' * (2 + MaxRetries) BY <1>8 DEF card, next
  <1>10. NextAgents(count) \subseteq Agents /\ NextAgents(count) \cap Spawned = {}
    BY <1>1, <1>4, <1>9, NextAgentsAreNew
  <1>11. \A i \in 1 .. count : NextAgent + i - 1 \in NextAgents(count)
    BY SpawnedIsFinite DEF NextAgents
  <1> QED BY <1>4, <1>8, <1>10, <1>11 DEF card, next

\* What a start asks for.
StartEffect(count, gates) ==
    [run |-> FreshRun(count, gates), running |-> TRUE,
     spawn |-> [i \in 1 .. count |-> NextAgent + i - 1],
     wait |-> NextAgents(count), job |-> <<>>]

\* A run that starts has the effect of StartEffect.
LEMMA StartRunTyped ==
    ASSUME Typed, NEW count \in 1 .. 2, NEW gates \in BOOLEAN, StartRun(count, gates)
    PROVE  /\ Typed'
           /\ Update(StartEffect(count, gates), cmds, jobs)
           /\ StartEffect(count, gates) \in EffectStates
           /\ SpawnsNext(StartEffect(count, gates), count)
  <1> DEFINE e == StartEffect(count, gates)
  <1>1. /\ runs < MaxRuns /\ runs' = runs + 1 /\ alone' = (alone /\ ~AtWork)
        /\ chan' = chan /\ orphans' = orphans /\ says' = says
        /\ Update([Effect(FreshRun(count, gates), TRUE) EXCEPT
                      !.spawn = [i \in 1 .. count |-> NextAgent + i - 1],
                      !.wait = NextAgent .. NextAgent + count - 1],
                  cmds, jobs)
    BY Zenon DEF StartRun
  <1>2. TypeOK BY DEF Typed
  <1>3. /\ runs' \in 0 .. MaxRuns /\ NextAgents(count) \subseteq Agents
        /\ [i \in 1 .. count |-> NextAgent + i - 1] \in [1 .. count -> Agents]
        /\ Cardinality(Spawned) + count + MaxRetries <= runs' * (2 + MaxRetries)
    BY <1>1, StartHasRoom
  <1>4. e = [Effect(FreshRun(count, gates), TRUE) EXCEPT
                !.spawn = [i \in 1 .. count |-> NextAgent + i - 1],
                !.wait = NextAgent .. NextAgent + count - 1]
    <2> DEFINE spawn == [i \in 1 .. count |-> NextAgent + i - 1]
               wait == NextAgent .. NextAgent + count - 1
    <2>1. e = [run |-> FreshRun(count, gates), running |-> TRUE, spawn |-> spawn,
               wait |-> wait, job |-> <<>>]
      BY Zenon DEF StartEffect, NextAgents
    <2> DEFINE asked == [Effect(FreshRun(count, gates), TRUE) EXCEPT !.spawn = spawn, !.wait = wait]
    <2>2. asked = [Effect(FreshRun(count, gates), TRUE) EXCEPT !.spawn = spawn, !.wait = wait]
      OBVIOUS
    <2> HIDE DEF spawn, wait, e, asked
    <2>3. asked = [run |-> FreshRun(count, gates), running |-> TRUE, spawn |-> spawn,
                   wait |-> wait, job |-> <<>>]
      BY <2>2 DEF Effect
    <2>4. e = asked BY <2>1, <2>3
    <2> QED BY <2>4 DEF spawn, wait, asked
  <1>5. LiveRun(FreshRun(count, gates)) /\ FreshRun(count, gates).retries = 0
    BY <1>3, FreshRunTyped
  <1>6. [i \in 1 .. count |-> NextAgent + i - 1] \in Seq(Agents)
    <2> DEFINE f == [i \in 1 .. count |-> NextAgent + i - 1]
    <2>1. f \in [1 .. count -> Agents] /\ count \in Nat BY <1>3
    <2> HIDE DEF f
    <2>2. f \in Seq(Agents) BY <2>1
    <2> QED BY <2>2 DEF f
  <1>7. <<>> \in Seq(JobStates) /\ TRUE \in BOOLEAN /\ NextAgents(count) \in SUBSET Agents
        /\ FreshRun(count, gates) \in RunStates
    BY <1>3, <1>5 DEF LiveRun
  <1>8. e \in EffectStates BY <1>6, <1>7, EffectTyped DEF StartEffect
  <1>9. SpawnsNext(e, count) BY <1>3 DEF SpawnsNext, StartEffect
  <1>10. Update(e, cmds, jobs) BY <1>1, <1>4, Zenon
  <1>11. e.run = FreshRun(count, gates) BY DEF StartEffect
  <1> HIDE DEF e
  <1>12. Cardinality(Spawned) + count + Left(e.run) <= runs' * (2 + MaxRetries)
    <2>1. Left(e.run) = MaxRetries
      <3>1. Left(e.run) = MaxRetries - 0 BY <1>5, <1>11 DEF Left, LiveRun
      <3> QED BY <3>1, RunCommandAssumption
    <2> QED BY <1>3, <2>1
  <1>13. e.run.live => e.run.owner \in Agents BY <1>5, <1>11 DEF LiveRun
  <1>14. /\ cmds \in Seq(SUBSET Agents) /\ jobs \in Seq(JobStates) /\ count \in Nat
         /\ chan' \in [Agents -> Seq({"edit"} \union Verdicts)]
         /\ orphans' \in [Agents -> Nat] /\ says' \in 0 .. MaxSays
    BY <1>1, <1>2 DEF TypeOK
  <1>15. alone' \in BOOLEAN BY <1>1, Zenon
  <1>16. Typed'
    BY <1>3, <1>8, <1>9, <1>10, <1>12, <1>13, <1>14, <1>15, UpdateKeepsTyped
  <1> QED BY <1>8, <1>9, <1>10, <1>16 DEF e

\* A start whose spawn fails keeps the types.
LEMMA AbandonStartTyped ==
    ASSUME Typed, NEW count \in 1 .. 2, AbandonStart(count)
    PROVE  Typed'
  <1> DEFINE spawn == [i \in 1 .. count |-> NextAgent + i - 1]
             e == [run |-> run, running |-> running, spawn |-> spawn, wait |-> {}, job |-> <<>>]
  <1>1. /\ runs < MaxRuns /\ runs' = runs + 1 /\ alone' = FALSE
        /\ chan' = chan /\ orphans' = orphans /\ says' = says
        /\ Update([Effect(run, running) EXCEPT !.spawn = spawn], cmds, jobs)
    BY Zenon DEF AbandonStart
  <1>2. TypeOK /\ Owned BY DEF Typed
  <1>3. /\ runs' \in 0 .. MaxRuns /\ spawn \in [1 .. count -> Agents]
        /\ Cardinality(Spawned) + count + Left(run) <= runs' * (2 + MaxRetries)
    BY <1>1, StartHasRoom
  <1> HIDE DEF spawn
  <1>4. e = [Effect(run, running) EXCEPT !.spawn = spawn]
    BY SpawnEffect
  <1>5. spawn \in Seq(Agents)
    <2>1. count \in Nat OBVIOUS
    <2> QED BY <1>3, <2>1
  <1>6. <<>> \in Seq(JobStates) /\ running \in BOOLEAN /\ {} \in SUBSET Agents /\ run \in RunStates
    BY <1>2 DEF TypeOK
  <1>7. e \in EffectStates BY <1>5, <1>6, EffectTyped
  <1>8. e.spawn = spawn /\ e.run = run OBVIOUS
  <1> HIDE DEF e
  <1>9. SpawnsNext(e, count) BY <1>3, <1>8 DEF SpawnsNext
  <1>10. Update(e, cmds, jobs) BY <1>1, <1>4, Zenon
  <1>11. e.run.live => e.run.owner \in Agents BY <1>2, <1>8 DEF Owned
  <1>12. Cardinality(Spawned) + count + Left(e.run) <= runs' * (2 + MaxRetries) BY <1>3, <1>8
  <1>13. /\ cmds \in Seq(SUBSET Agents) /\ jobs \in Seq(JobStates) /\ count \in Nat
         /\ chan' \in [Agents -> Seq({"edit"} \union Verdicts)]
         /\ orphans' \in [Agents -> Nat] /\ says' \in 0 .. MaxSays
    BY <1>1, <1>2 DEF TypeOK
  <1>14. alone' \in BOOLEAN BY <1>1
  <1> QED BY <1>3, <1>7, <1>9, <1>10, <1>11, <1>12, <1>13, <1>14, UpdateKeepsTyped

\* Esc and /clear keep the types.
LEMMA EscapeOrClearTyped ==
    ASSUME Typed, Escape \/ Clear
    PROVE  Typed'
  <1>1. TypeOK BY DEF Typed
  <1>2. /\ run' \in {run, NoRun} /\ running' \in {running, FALSE}
        /\ agent' = agent /\ tree' = tree /\ chan' = chan /\ cmds' = cmds
        /\ orphans' = orphans /\ jobs' = jobs /\ runs' = runs /\ says' = says
    BY DEF Escape, Clear, agentVars
  <1>3. alone' \in BOOLEAN BY <1>1 DEF Escape, Clear, TypeOK
  <1>4. NoRun \in RunStates
    <2>1. 0 \in {0} \union Agents /\ 0 \in 0 .. MaxRetries /\ "" \in Statuses
          /\ "none" \in {"none"} \union Verdicts /\ {} \in SUBSET Slices
          /\ <<>> \in Seq(Agents)
          /\ <<>> \in Seq([agent : Agents, done : BOOLEAN, status : Statuses])
          /\ FALSE \in BOOLEAN
      BY RunCommandAssumption DEF Statuses
    <2> QED BY <2>1, Zenon DEF NoRun, RunStates
  <1>5. Owned' /\ Numbered' /\ Room(Left(run))' BY <1>2, NumbersKept
  <1>6. run' \in RunStates /\ running' \in BOOLEAN BY <1>1, <1>2, <1>4 DEF TypeOK
  <1>7. TypeOK'
    <2> HIDE DEF RunStates, JobStates, Agents, Statuses, Verdicts
    <2> QED BY <1>1, <1>2, <1>3, <1>6 DEF TypeOK
  <1> QED BY <1>5, <1>7 DEF Typed

\* What is in a sequence with one more element.
LEMMA AppendSet ==
    ASSUME NEW S, NEW s \in Seq(S), NEW x \in S
    PROVE  Append(s, x) \in Seq(S) /\ ToSet(Append(s, x)) = ToSet(s) \union {x}
  <1>1. \A i \in DOMAIN Append(s, x) : Append(s, x)[i] \in ToSet(s) \union {x} BY DEF ToSet
  <1>2. ASSUME NEW i \in DOMAIN s PROVE s[i] \in ToSet(Append(s, x))
    <2>1. i \in DOMAIN Append(s, x) /\ Append(s, x)[i] = s[i] OBVIOUS
    <2> QED BY <2>1 DEF ToSet
  <1>3. x \in ToSet(Append(s, x))
    <2>1. Len(s) + 1 \in DOMAIN Append(s, x) /\ Append(s, x)[Len(s) + 1] = x OBVIOUS
    <2> QED BY <2>1 DEF ToSet
  <1> QED BY <1>1, <1>2, <1>3 DEF ToSet

\* What is in a sequence is its head and what is in its tail.
LEMMA TailSet ==
    ASSUME NEW S, NEW s \in Seq(S), s # <<>>
    PROVE  Head(s) \in ToSet(s) /\ Tail(s) \in Seq(S)
           /\ ToSet(s) = {Head(s)} \union ToSet(Tail(s))
  <1>1. Len(s) \in Nat \ {0} /\ Head(s) = s[1] /\ 1 \in DOMAIN s OBVIOUS
  <1>2. Head(s) \in ToSet(s) BY <1>1 DEF ToSet
  <1>3. Tail(s) \in Seq(S) OBVIOUS
  <1>4. \A i \in DOMAIN Tail(s) : Tail(s)[i] = s[i + 1] /\ i + 1 \in DOMAIN s OBVIOUS
  <1>5. ToSet(Tail(s)) \subseteq ToSet(s) BY <1>4 DEF ToSet
  <1>6. ASSUME NEW i \in DOMAIN s PROVE s[i] \in {Head(s)} \union ToSet(Tail(s))
    <2>1. CASE i = 1 BY <1>1, <2>1
    <2>2. CASE i # 1
      <3>1. i - 1 \in DOMAIN Tail(s) /\ Tail(s)[i - 1] = s[i] BY <2>2
      <3> QED BY <3>1 DEF ToSet
    <2> QED BY <2>1, <2>2
  <1>7. ToSet(s) \subseteq {Head(s)} \union ToSet(Tail(s)) BY <1>6 DEF ToSet
  <1> QED BY <1>2, <1>3, <1>5, <1>7

\* What a step of an agent, or of a reader nobody waits for, leaves as it is: agents
\* and worktrees only go on, and a PASS on its way was said.
AgentsGoOn ==
    /\ run' = run /\ cmds' = cmds /\ jobs' = jobs /\ runs' = runs /\ alone' = alone
    /\ \A b \in Agents :
          /\ agent'[b].state = "none" <=> agent[b].state = "none"
          /\ agent'[b].state = "live" => agent[b].state = "live"
          /\ agent[b].passed => agent'[b].passed
          /\ tree'[b].state = tree[b].state /\ tree[b].ticked \subseteq tree'[b].ticked
          /\ "pass" \in ToSet(chan'[b]) => "pass" \in ToSet(chan[b]) \/ agent'[b].passed

\* A step of that kind keeps the invariant when it keeps the types of what it changes.
LEMMA GoOnTyped ==
    ASSUME Typed, AgentsGoOn, running' = running,
           agent' \in [Agents -> AgentStates], tree' \in [Agents -> TreeStates],
           chan' \in [Agents -> Seq({"edit"} \union Verdicts)],
           orphans' \in [Agents -> Nat], says' \in 0 .. MaxSays
    PROVE  Typed'
  <1>1. TypeOK BY DEF Typed
  <1>2. run' = run /\ cmds' = cmds /\ jobs' = jobs /\ runs' = runs /\ alone' = alone
        /\ \A b \in Agents : agent'[b].state = "none" <=> agent[b].state = "none"
    BY DEF AgentsGoOn
  <1>3. Owned' /\ Numbered' /\ Room(Left(run))' BY <1>2, NumbersKept
  <1>4. TypeOK' BY <1>1, <1>2 DEF TypeOK, AgentStates, TreeStates
  <1> QED BY <1>3, <1>4 DEF Typed

\* An event an agent sends joins its channel.
LEMMA SayFacts ==
    ASSUME TypeOK, NEW a \in Agents, NEW event \in {"edit"} \union Verdicts, Say(a, event)
    PROVE  /\ Live(a) /\ says' \in 0 .. MaxSays
           /\ chan' \in [Agents -> Seq({"edit"} \union Verdicts)]
           /\ \A b \in Agents :
                 ToSet(chan'[b]) = IF b = a THEN ToSet(chan[b]) \union {event} ELSE ToSet(chan[b])
  <1>1. Live(a) /\ says < MaxSays /\ says' = says + 1
        /\ chan' = [chan EXCEPT ![a] = Append(chan[a], event)]
    BY DEF Say
  <1>2. says' \in 0 .. MaxSays BY <1>1, RunCommandAssumption DEF TypeOK
  <1> DEFINE Events == {"edit"} \union Verdicts
  <1>3. chan \in [Agents -> Seq(Events)] BY DEF TypeOK
  <1> HIDE DEF Events
  <1>4. event \in Events BY DEF Events
  <1>5. Append(chan[a], event) \in Seq(Events)
        /\ ToSet(Append(chan[a], event)) = ToSet(chan[a]) \union {event}
    <2>1. chan[a] \in Seq(Events) BY <1>3
    <2> QED BY <1>4, <2>1, AppendSet
  <1>6. chan' \in [Agents -> Seq(Events)] BY <1>1, <1>3, <1>5
  <1>7. \A b \in Agents :
            ToSet(chan'[b]) = IF b = a THEN ToSet(chan[b]) \union {event} ELSE ToSet(chan[b])
    BY <1>1, <1>3, <1>5
  <1> QED BY <1>1, <1>2, <1>6, <1>7 DEF Events

\* An event of an agent keeps the types and touches no run.
LEMMA TickGoesOn ==
    ASSUME Typed, NEW a \in Agents, Tick(a)
    PROVE  AgentsGoOn /\ Typed'
  <1>1. TypeOK BY DEF Typed
  <1>2. /\ Say(a, "edit")
        /\ run' = run /\ running' = running /\ agent' = agent /\ cmds' = cmds
        /\ orphans' = orphans /\ jobs' = jobs /\ runs' = runs /\ alone' = alone
    BY DEF Tick
  <1>3. PICK slice \in Slices \ tree[agent[a].tree].ticked :
            tree' = [tree EXCEPT ![agent[a].tree].ticked = @ \union {slice}]
    BY DEF Tick
  <1>4. tree \in [Agents -> TreeStates] BY <1>1 DEF TypeOK, TreeStates
  <1>5. ASSUME NEW t \in Agents
        PROVE  /\ tree'[t] \in TreeStates /\ tree'[t].state = tree[t].state
               /\ tree[t].ticked \subseteq tree'[t].ticked
    <2>1. tree[t] \in TreeStates BY <1>4
    <2>2. CASE t = agent[a].tree
      <3>1. tree'[t] = [tree[t] EXCEPT !.ticked = tree[t].ticked \union {slice}]
        BY <1>3, <1>4, <2>2
      <3> QED BY <2>1, <3>1 DEF TreeStates
    <2>3. CASE t # agent[a].tree BY <1>3, <1>4, <2>1, <2>3
    <2> QED BY <2>2, <2>3
  <1>6. tree' \in [Agents -> TreeStates]
    <2>1. DOMAIN tree' = Agents BY <1>3, <1>4
    <2>2. tree' = [t \in Agents |-> tree'[t]] BY <1>3, <2>1
    <2> QED BY <1>5, <2>2
  <1>7. /\ says' \in 0 .. MaxSays
        /\ chan' \in [Agents -> Seq({"edit"} \union Verdicts)]
        /\ \A b \in Agents : "pass" \in ToSet(chan'[b]) => "pass" \in ToSet(chan[b])
    <2>1. "edit" \in {"edit"} \union Verdicts OBVIOUS
    <2>2. /\ says' \in 0 .. MaxSays
          /\ chan' \in [Agents -> Seq({"edit"} \union Verdicts)]
          /\ \A b \in Agents :
                ToSet(chan'[b]) = IF b = a THEN ToSet(chan[b]) \union {"edit"} ELSE ToSet(chan[b])
      BY <1>1, <1>2, <2>1, SayFacts
    <2> QED BY <2>2
  <1>8. AgentsGoOn BY <1>2, <1>5, <1>7 DEF AgentsGoOn
  <1>9. agent' \in [Agents -> AgentStates] /\ orphans' \in [Agents -> Nat]
    BY <1>1, <1>2 DEF TypeOK, AgentStates
  <1>10. Typed' BY <1>2, <1>6, <1>7, <1>8, <1>9, GoOnTyped
  <1> QED BY <1>8, <1>10

\* So does a verdict of an agent.
LEMMA ReviewGoesOn ==
    ASSUME Typed, NEW a \in Agents, NEW verdict \in Verdicts, Review(a, verdict)
    PROVE  AgentsGoOn /\ Typed'
  <1>1. TypeOK BY DEF Typed
  <1>2. /\ Say(a, verdict)
        /\ agent' = [agent EXCEPT ![a].verdict = verdict,
                                  ![a].passed = @ \/ verdict = "pass"]
        /\ run' = run /\ running' = running /\ tree' = tree /\ cmds' = cmds
        /\ orphans' = orphans /\ jobs' = jobs /\ runs' = runs /\ alone' = alone
    BY Zenon DEF Review
  <1>3. agent \in [Agents -> AgentStates] BY <1>1 DEF TypeOK, AgentStates
  <1>4. ASSUME NEW b \in Agents
        PROVE  /\ agent'[b] \in AgentStates /\ agent'[b].state = agent[b].state
               /\ agent[b].passed => agent'[b].passed
               /\ b = a /\ verdict = "pass" => agent'[b].passed
    <2>1. agent[b] \in AgentStates BY <1>3
    <2>2. CASE b = a
      <3>1. agent'[b] = [agent[b] EXCEPT !.verdict = verdict,
                                         !.passed = agent[b].passed \/ verdict = "pass"]
        BY <1>2, <1>3, <2>2
      <3>2. verdict \in {"none"} \union Verdicts OBVIOUS
      <3>3. (agent[b].passed \/ verdict = "pass") \in BOOLEAN OBVIOUS
      <3>4. agent'[b] \in AgentStates BY <2>1, <3>1, <3>2, <3>3, Zenon DEF AgentStates
      <3>5. agent'[b].state = agent[b].state BY <2>1, <3>1 DEF AgentStates
      <3>6. agent'[b].passed = (agent[b].passed \/ verdict = "pass")
        BY <2>1, <3>1 DEF AgentStates
      <3> QED BY <3>4, <3>5, <3>6
    <2>3. CASE b # a BY <1>2, <1>3, <2>1, <2>3
    <2> QED BY <2>2, <2>3
  <1>5. agent' \in [Agents -> AgentStates]
    <2>1. agent' = [b \in Agents |-> agent'[b]] BY <1>2, <1>3
    <2> QED BY <1>4, <2>1
  <1>6. /\ says' \in 0 .. MaxSays
        /\ chan' \in [Agents -> Seq({"edit"} \union Verdicts)]
        /\ \A b \in Agents :
              ToSet(chan'[b]) = IF b = a THEN ToSet(chan[b]) \union {verdict} ELSE ToSet(chan[b])
    BY <1>1, <1>2, SayFacts
  <1>7. \A b \in Agents : "pass" \in ToSet(chan'[b]) => "pass" \in ToSet(chan[b]) \/ agent'[b].passed
    BY <1>4, <1>6
  <1>8. AgentsGoOn BY <1>2, <1>4, <1>7 DEF AgentsGoOn
  <1>9. tree' \in [Agents -> TreeStates] /\ orphans' \in [Agents -> Nat]
    BY <1>1, <1>2 DEF TypeOK, TreeStates
  <1>10. Typed' BY <1>2, <1>5, <1>6, <1>8, <1>9, GoOnTyped
  <1> QED BY <1>8, <1>10

\* So does the exit of an agent.
LEMMA ExitGoesOn ==
    ASSUME Typed, NEW a \in Agents, NEW status \in {"completed", "failed"}, Exit(a, status)
    PROVE  AgentsGoOn /\ Typed'
  <1>1. TypeOK BY DEF Typed
  <1>2. /\ agent[a].state = "live"
        /\ agent' = [agent EXCEPT ![a].state = "ended", ![a].status = status]
        /\ run' = run /\ running' = running /\ tree' = tree /\ chan' = chan /\ cmds' = cmds
        /\ orphans' = orphans /\ jobs' = jobs /\ runs' = runs /\ alone' = alone
        /\ says' = says
    BY DEF Exit, Live
  <1>3. agent \in [Agents -> AgentStates] BY <1>1 DEF TypeOK, AgentStates
  <1>4. ASSUME NEW b \in Agents
        PROVE  /\ agent'[b] \in AgentStates
               /\ agent'[b].state = "none" <=> agent[b].state = "none"
               /\ agent'[b].state = "live" => agent[b].state = "live"
               /\ agent[b].passed => agent'[b].passed
    <2>1. agent[b] \in AgentStates BY <1>3
    <2>2. CASE b = a
      <3>1. agent'[b] = [agent[b] EXCEPT !.state = "ended", !.status = status]
        BY <1>2, <1>3, <2>2
      <3>2. status \in Statuses /\ "ended" \in {"none", "live", "ended"} BY DEF Statuses
      <3>3. agent'[b] \in AgentStates BY <2>1, <3>1, <3>2, Zenon DEF AgentStates
      <3>4. agent'[b].state = "ended" /\ agent'[b].passed = agent[b].passed
        BY <2>1, <3>1 DEF AgentStates
      <3> QED BY <1>2, <2>2, <3>3, <3>4
    <2>3. CASE b # a BY <1>2, <1>3, <2>1, <2>3
    <2> QED BY <2>2, <2>3
  <1>5. agent' \in [Agents -> AgentStates]
    <2>1. agent' = [b \in Agents |-> agent'[b]] BY <1>2, <1>3
    <2> QED BY <1>4, <2>1
  <1>6. AgentsGoOn BY <1>2, <1>4 DEF AgentsGoOn
  <1>7. /\ tree' \in [Agents -> TreeStates] /\ orphans' \in [Agents -> Nat]
        /\ says' \in 0 .. MaxSays /\ chan' \in [Agents -> Seq({"edit"} \union Verdicts)]
    BY <1>1, <1>2 DEF TypeOK, TreeStates
  <1>8. Typed' BY <1>2, <1>5, <1>6, <1>7, GoOnTyped
  <1> QED BY <1>6, <1>8

\* A reader takes the next event of a channel.
LEMMA TakeFacts ==
    ASSUME TypeOK, NEW a \in Agents, TakeEvent(a)
    PROVE  /\ chan' \in [Agents -> Seq({"edit"} \union Verdicts)]
           /\ \A b \in Agents : ToSet(chan'[b]) \subseteq ToSet(chan[b])
           /\ NextEvent(a) # "done" => NextEvent(a) \in ({"edit"} \union Verdicts) \cap ToSet(chan[a])
  <1> DEFINE Events == {"edit"} \union Verdicts
  <1>1. chan \in [Agents -> Seq(Events)] BY DEF TypeOK
  <1> HIDE DEF Events
  <1>2. chan[a] \in Seq(Events) BY <1>1
  <1>3. chan' = [chan EXCEPT ![a] = IF chan[a] = <<>> THEN chan[a] ELSE Tail(chan[a])]
    BY DEF TakeEvent
  <1>4. CASE chan[a] = <<>>
    <2>1. chan' = chan BY <1>1, <1>3, <1>4
    <2>2. NextEvent(a) = "done" BY <1>4 DEF NextEvent
    <2> QED BY <1>1, <2>1, <2>2 DEF Events
  <1>5. CASE chan[a] # <<>>
    <2>1. Head(chan[a]) \in ToSet(chan[a]) /\ Tail(chan[a]) \in Seq(Events)
          /\ ToSet(chan[a]) = {Head(chan[a])} \union ToSet(Tail(chan[a]))
      BY <1>2, <1>5, TailSet
    <2>2. ToSet(chan[a]) \subseteq Events BY <1>2, SeqSet
    <2>3. NextEvent(a) = Head(chan[a]) BY <1>5 DEF NextEvent
    <2>4. chan' = [chan EXCEPT ![a] = Tail(chan[a])] BY <1>3, <1>5
    <2>5. chan' \in [Agents -> Seq(Events)] BY <1>1, <2>1, <2>4
    <2>6. \A b \in Agents : ToSet(chan'[b]) \subseteq ToSet(chan[b])
      <3> SUFFICES ASSUME NEW b \in Agents PROVE ToSet(chan'[b]) \subseteq ToSet(chan[b]) OBVIOUS
      <3>1. CASE b = a
        <4>1. chan'[b] = Tail(chan[a]) BY <1>1, <2>4, <3>1
        <4> QED BY <2>1, <3>1, <4>1
      <3>2. CASE b # a
        <4>1. chan'[b] = chan[b] BY <1>1, <2>4, <3>2
        <4> QED BY <4>1
      <3> QED BY <3>1, <3>2
    <2> QED BY <2>1, <2>2, <2>3, <2>5, <2>6 DEF Events
  <1> QED BY <1>4, <1>5

\* So does what is dropped on the way.
LEMMA SwallowGoesOn ==
    ASSUME Typed, NEW a \in Agents, Swallow(a)
    PROVE  AgentsGoOn /\ Typed'
  <1>1. TypeOK BY DEF Typed
  <1>2. /\ orphans[a] > 0 /\ TakeEvent(a) /\ orphans' = [orphans EXCEPT ![a] = orphans[a] - 1]
        /\ run' = run /\ running' = running /\ agent' = agent /\ tree' = tree /\ cmds' = cmds
        /\ jobs' = jobs /\ runs' = runs /\ alone' = alone /\ says' = says
    BY DEF Swallow
  <1>3. /\ chan' \in [Agents -> Seq({"edit"} \union Verdicts)]
        /\ \A b \in Agents : ToSet(chan'[b]) \subseteq ToSet(chan[b])
    BY <1>1, <1>2, TakeFacts
  <1>4. orphans' \in [Agents -> Nat]
    <2>1. orphans \in [Agents -> Nat] BY <1>1 DEF TypeOK
    <2>2. orphans[a] - 1 \in Nat BY <1>2, <2>1
    <2> QED BY <1>2, <2>1, <2>2
  <1>5. AgentsGoOn BY <1>2, <1>3 DEF AgentsGoOn
  <1>6. /\ agent' \in [Agents -> AgentStates] /\ tree' \in [Agents -> TreeStates]
        /\ says' \in 0 .. MaxSays
    BY <1>1, <1>2 DEF TypeOK, AgentStates, TreeStates
  <1>7. Typed' BY <1>2, <1>3, <1>4, <1>5, <1>6, GoOnTyped
  <1> QED BY <1>5, <1>7

\* What the message of agent a makes of the run r it is for.
Answers(r, a, e) ==
    \/ /\ Readable(a) /\ NextEvent(a) = "done" /\ Outcome(r, e)
       /\ a \in WaitForRunEvents(r) => WaitForRunEvents(r) \subseteq {a}
    \/ /\ Readable(a) /\ NextEvent(a) = "done" /\ Waits(r, e)
       /\ e.run.transcript = r.transcript /\ WaitForRunEvents(r) \ {a} \subseteq e.wait
    \/ /\ Waits(r, e) /\ e.wait = WaitForRunEvents(r)
       /\ e.run.transcript = r.transcript \/ e.run.transcript \in ToSet(chan[a])

\* The step of Update that a message of agent a is to the command at i.
Received(i, a) ==
    \E e \in EffectStates : /\ Update(e, RemoveAt(cmds, i), jobs) /\ IsAnswer(e)
                            /\ run.live => Answers(run, a, e)

\* A listener that receives keeps the types and takes the one message away.
LEMMA ReceiveTyped ==
    ASSUME Typed, NEW i \in DOMAIN cmds, NEW a \in cmds[i], Receive(i, a)
    PROVE  /\ Typed' /\ runs' = runs /\ alone' = alone
           /\ \A b \in Agents : ToSet(chan'[b]) \subseteq ToSet(chan[b])
           /\ Received(i, a)
  <1>1. TypeOK /\ Numbered /\ Owned /\ Room(Left(run)) BY DEF Typed
  <1>2. cmds \in Seq(SUBSET Agents) /\ jobs \in Seq(JobStates) /\ run \in RunStates
        /\ running \in BOOLEAN
    BY <1>1 DEF TypeOK
  <1>3. a \in Agents BY <1>2
  <1>4. /\ Readable(a) /\ TakeEvent(a) /\ runs' = runs /\ alone' = alone /\ says' = says
        /\ orphans' = [b \in Agents |-> orphans[b] + IF b \in cmds[i] \ {a} THEN 1 ELSE 0]
    BY Zenon DEF Receive
  <1>5. PICK e \in IF NextEvent(a) = "done" THEN AgentDone(run, a)
                                            ELSE AgentEvent(run, NextEvent(a)) :
            Update(e, RemoveAt(cmds, i), jobs)
    BY Zenon DEF Receive
  <1>6. /\ chan' \in [Agents -> Seq({"edit"} \union Verdicts)]
        /\ \A b \in Agents : ToSet(chan'[b]) \subseteq ToSet(chan[b])
        /\ NextEvent(a) # "done" => NextEvent(a) \in ({"edit"} \union Verdicts) \cap ToSet(chan[a])
    BY <1>1, <1>3, <1>4, TakeFacts
  <1>7. orphans' \in [Agents -> Nat] /\ says' \in 0 .. MaxSays
    <2>1. orphans \in [Agents -> Nat] BY <1>1 DEF TypeOK
    <2>2. \A b \in Agents : orphans[b] + (IF b \in cmds[i] \ {a} THEN 1 ELSE 0) \in Nat BY <2>1
    <2> QED BY <1>1, <1>4, <2>2 DEF TypeOK
  <1>8. alone' \in BOOLEAN BY <1>1, <1>4 DEF TypeOK
  <1>9. RemoveAt(cmds, i) \in Seq(SUBSET Agents) BY <1>2, RemoveAtTyped
  <1>10. ASSUME run.live
         PROVE  /\ e \in EffectStates /\ Answers(run, a, e)
                /\ Outcome(run, e) \/ Waits(run, e)
    <2>1. LiveRun(run) /\ Room(MaxRetries - run.retries)
      BY <1>1, <1>2, <1>10 DEF LiveRun, Owned, Left
    <2>2. CASE NextEvent(a) = "done"
      <3>1. e \in AgentDone(run, a) BY <1>5, <2>2
      <3>2. /\ e \in EffectStates
            /\ \/ /\ Outcome(run, e)
                  /\ a \in WaitForRunEvents(run) => WaitForRunEvents(run) \subseteq {a}
               \/ /\ Waits(run, e) /\ e.run.transcript = run.transcript
                  /\ WaitForRunEvents(run) \ {a} \subseteq e.wait
        BY <1>1, <1>3, <2>1, <3>1, AgentDoneOutcome
      <3> QED BY <1>4, <2>2, <3>2, Zenon DEF Answers
    <2>3. CASE NextEvent(a) # "done"
      <3>1. e \in AgentEvent(run, NextEvent(a)) BY <1>5, <2>3
      <3>2. NextEvent(a) \in {"edit"} \union Verdicts /\ NextEvent(a) \in ToSet(chan[a])
        BY <1>6, <2>3
      <3>3. /\ e \in EffectStates /\ Waits(run, e) /\ e.wait = WaitForRunEvents(run)
            /\ e.run.transcript = IF NextEvent(a) = "edit" THEN run.transcript ELSE NextEvent(a)
        BY <1>1, <2>1, <3>1, <3>2, AgentEventOutcome
      <3>4. e.run.transcript = run.transcript \/ e.run.transcript \in ToSet(chan[a])
        BY <3>2, <3>3
      <3> QED BY <3>3, <3>4 DEF Answers
    <2> QED BY <2>2, <2>3
  <1>11. ASSUME ~run.live
         PROVE  e \in EffectStates /\ e.run = run /\ e.spawn = <<>>
    <2>1. <<>> \in Seq(Agents) /\ <<>> \in Seq(JobStates) /\ {} \in SUBSET Agents
          /\ FALSE \in BOOLEAN
      OBVIOUS
    <2>2. CASE NextEvent(a) = "done"
      <3>1. e = Effect(run, FALSE) BY <1>5, <1>11, <2>2, Zenon DEF AgentDone
      <3>2. e = [run |-> run, running |-> FALSE, spawn |-> <<>>, wait |-> {}, job |-> <<>>]
        BY <3>1 DEF Effect
      <3>3. e \in EffectStates BY <1>2, <2>1, <3>2, EffectTyped
      <3> QED BY <3>2, <3>3
    <2>3. CASE NextEvent(a) # "done"
      <3>1. e \in AgentEvent(run, NextEvent(a)) BY <1>5, <2>3
      <3>2. e = [Effect(run, running) EXCEPT !.wait = WaitForRunEvents(run)]
        BY <1>11, <3>1, Zenon DEF AgentEvent
      <3>3. WaitForRunEvents(run) = {} BY <1>11 DEF WaitForRunEvents
      <3>4. e = [run |-> run, running |-> running, spawn |-> <<>>, wait |-> {}, job |-> <<>>]
        BY <3>2, <3>3 DEF Effect
      <3>5. e \in EffectStates BY <1>2, <2>1, <3>4, EffectTyped
      <3> QED BY <3>4, <3>5
    <2> QED BY <2>2, <2>3
  <1>12. e \in EffectStates BY <1>10, <1>11
  <1>13. IsAnswer(e) BY <1>10, <1>11 DEF IsAnswer
  <1>14. Typed'
    <2>1. chan' \in [Agents -> Seq({"edit"} \union Verdicts)] BY <1>6
    <2>2. runs' = runs BY <1>4
    <2> QED BY <1>2, <1>5, <1>7, <1>8, <1>9, <1>12, <1>13, <2>1, <2>2, AnswerKeepsTyped
  <1>15. Received(i, a) BY <1>5, <1>10, <1>12, <1>13 DEF Received
  <1> QED BY <1>4, <1>6, <1>14, <1>15

\* The step of Update that the result of job j is: of the gates, or of a merge.
GatesTold(j) ==
    \E e \in EffectStates : /\ Update(e, cmds, RemoveAt(jobs, j)) /\ IsAnswer(e)
                            /\ run.live => Outcome(run, e)

MergeTold(j) ==
    \E e \in EffectStates :
        /\ Update(e, cmds, RemoveAt(jobs, j)) /\ IsAnswer(e)
        /\ run.live => IF jobs[j].failed THEN Stops(run, e) ELSE Finishes(run, e)

\* Gates that have run keep the types, and their message tells how.
LEMMA RunGatesTyped ==
    ASSUME Typed, NEW j \in DOMAIN jobs, RunGates(j)
    PROVE  /\ Typed' /\ runs' = runs /\ alone' = alone /\ chan' = chan
           /\ jobs[j].kind = "gates"
           /\ GatesTold(j)
  <1>1. TypeOK /\ Numbered /\ Owned /\ Room(Left(run)) BY DEF Typed
  <1>2. cmds \in Seq(SUBSET Agents) /\ jobs \in Seq(JobStates) /\ run \in RunStates
        /\ running \in BOOLEAN
    BY <1>1 DEF TypeOK
  <1>3. jobs[j].kind = "gates" /\ runs' = runs /\ alone' = alone /\ says' = says
        /\ chan' = chan /\ orphans' = orphans
    BY Zenon DEF RunGates
  <1>4. PICK outcome : \E e \in GateResult(run, outcome) : Update(e, cmds, RemoveAt(jobs, j))
    BY Zenon DEF RunGates
  <1>5. PICK e \in GateResult(run, outcome) : Update(e, cmds, RemoveAt(jobs, j)) BY <1>4
  <1>6. RemoveAt(jobs, j) \in Seq(JobStates) BY <1>2, RemoveAtTyped
  <1>7. ASSUME run.live PROVE e \in EffectStates /\ Outcome(run, e)
    <2>1. LiveRun(run) /\ Room(MaxRetries - run.retries)
      BY <1>1, <1>2, <1>7 DEF LiveRun, Owned, Left
    <2> QED BY <1>1, <1>5, <2>1, GateOutcome
  <1>8. ASSUME ~run.live PROVE e \in EffectStates /\ e.run = run /\ e.spawn = <<>>
    <2>1. e = Effect(run, running) BY <1>5, <1>8, Zenon DEF GateResult
    <2>2. e = [run |-> run, running |-> running, spawn |-> <<>>, wait |-> {}, job |-> <<>>]
      BY <2>1 DEF Effect
    <2>3. <<>> \in Seq(Agents) /\ <<>> \in Seq(JobStates) /\ {} \in SUBSET Agents OBVIOUS
    <2>4. e \in EffectStates BY <1>2, <2>2, <2>3, EffectTyped
    <2> QED BY <2>2, <2>4
  <1>9. IsAnswer(e) /\ e \in EffectStates BY <1>7, <1>8 DEF IsAnswer
  <1>10. /\ chan' \in [Agents -> Seq({"edit"} \union Verdicts)]
         /\ orphans' \in [Agents -> Nat] /\ says' \in 0 .. MaxSays
    BY <1>1, <1>3 DEF TypeOK
  <1>11. alone' \in BOOLEAN BY <1>1, <1>3 DEF TypeOK
  <1>12. Typed' BY <1>2, <1>3, <1>5, <1>6, <1>9, <1>10, <1>11, AnswerKeepsTyped
  <1>13. GatesTold(j) BY <1>5, <1>7, <1>9 DEF GatesTold
  <1> QED BY <1>3, <1>12, <1>13

\* A merge that ends keeps the types, and its message tells how.
LEMMA MergeEndsTyped ==
    ASSUME Typed, NEW j \in DOMAIN jobs, MergeEnds(j)
    PROVE  /\ Typed' /\ runs' = runs /\ alone' = alone /\ chan' = chan
           /\ jobs[j].kind = "merge" /\ (jobs[j].targets = <<>> \/ jobs[j].failed)
           /\ MergeTold(j)
  <1> DEFINE e == MergeResult(run, jobs[j].failed)
  <1>1. TypeOK /\ Owned BY DEF Typed
  <1>2. cmds \in Seq(SUBSET Agents) /\ jobs \in Seq(JobStates) /\ run \in RunStates
        /\ running \in BOOLEAN
    BY <1>1 DEF TypeOK
  <1>3. /\ jobs[j].kind = "merge" /\ (jobs[j].targets = <<>> \/ jobs[j].failed)
        /\ runs' = runs /\ alone' = alone /\ says' = says /\ chan' = chan
        /\ orphans' = orphans /\ Update(e, cmds, RemoveAt(jobs, j))
    BY Zenon DEF MergeEnds
  <1>4. RemoveAt(jobs, j) \in Seq(JobStates) BY <1>2, RemoveAtTyped
  <1>5. jobs[j] \in JobStates BY <1>2
  <1>6. jobs[j].failed \in BOOLEAN BY <1>5, Zenon DEF JobStates
  <1>7. ASSUME run.live
        PROVE  e \in EffectStates /\ IF jobs[j].failed THEN Stops(run, e) ELSE Finishes(run, e)
    <2>1. LiveRun(run) BY <1>1, <1>2, <1>7 DEF LiveRun, Owned
    <2> QED BY <1>1, <1>6, <2>1, MergeOutcome
  <1>8. ASSUME ~run.live PROVE e \in EffectStates /\ e.run = run /\ e.spawn = <<>>
    <2>1. e = Effect(run, running) BY <1>8, Zenon DEF MergeResult
    <2> HIDE DEF e
    <2>2. e = [run |-> run, running |-> running, spawn |-> <<>>, wait |-> {}, job |-> <<>>]
      BY <2>1 DEF Effect
    <2>3. <<>> \in Seq(Agents) /\ <<>> \in Seq(JobStates) /\ {} \in SUBSET Agents OBVIOUS
    <2>4. e \in EffectStates BY <1>2, <2>2, <2>3, EffectTyped
    <2> QED BY <2>2, <2>4
  <1> HIDE DEF e
  <1>9. IsAnswer(e) /\ e \in EffectStates BY <1>7, <1>8 DEF IsAnswer, Outcome
  <1>10. /\ chan' \in [Agents -> Seq({"edit"} \union Verdicts)]
         /\ orphans' \in [Agents -> Nat] /\ says' \in 0 .. MaxSays
    BY <1>1, <1>3 DEF TypeOK
  <1>11. alone' \in BOOLEAN BY <1>1, <1>3 DEF TypeOK
  <1>12. Typed' BY <1>2, <1>3, <1>4, <1>9, <1>10, <1>11, AnswerKeepsTyped
  <1>13. MergeTold(j) BY <1>3, <1>7, <1>9 DEF MergeTold
  <1> QED BY <1>3, <1>12, <1>13

\* A merge goes on to its next target, or fails.
LEMMA MergeStepTyped ==
    ASSUME Typed, NEW j \in DOMAIN jobs, MergeTarget(j) \/ MergeFails(j)
    PROVE  /\ Typed' /\ jobs[j].kind = "merge" /\ jobs[j].targets # <<>> /\ ~jobs[j].failed
           /\ run' = run /\ running' = running /\ agent' = agent /\ chan' = chan /\ cmds' = cmds
           /\ runs' = runs /\ alone' = alone
           /\ DOMAIN jobs' = DOMAIN jobs /\ Len(jobs') = Len(jobs)
           /\ \A k \in DOMAIN jobs : k # j => jobs'[k] = jobs[k]
           /\ jobs'[j].kind = "merge"
           /\ \/ /\ tree[Head(jobs[j].targets)].state = "held"
                 /\ tree' = [tree EXCEPT ![Head(jobs[j].targets)].state = "merged"]
                 /\ jobs'[j].targets = Tail(jobs[j].targets) /\ ~jobs'[j].failed
              \/ tree' = tree /\ jobs'[j].failed /\ jobs'[j].targets = jobs[j].targets
  <1>1. TypeOK BY DEF Typed
  <1>2. jobs \in Seq(JobStates) /\ tree \in [Agents -> TreeStates]
        /\ agent \in [Agents -> AgentStates]
    BY <1>1 DEF TypeOK, TreeStates, AgentStates
  <1>3. jobs[j] \in JobStates BY <1>2
  <1>4. /\ jobs[j].kind = "merge" /\ jobs[j].targets # <<>> /\ ~jobs[j].failed
        /\ run' = run /\ running' = running /\ agent' = agent /\ chan' = chan /\ cmds' = cmds
        /\ orphans' = orphans /\ runs' = runs /\ alone' = alone /\ says' = says
    BY DEF MergeTarget, MergeFails, agentVars
  <1>5. jobs[j].targets \in Seq(Agents) BY <1>3 DEF JobStates
  <1>6. Head(jobs[j].targets) \in Agents /\ Tail(jobs[j].targets) \in Seq(Agents)
    BY <1>4, <1>5
  <1> DEFINE moved == [jobs[j] EXCEPT !.targets = Tail(jobs[j].targets)]
             lost == [jobs[j] EXCEPT !.failed = TRUE]
  <1>7. moved \in JobStates /\ lost \in JobStates
    <2>1. TRUE \in BOOLEAN OBVIOUS
    <2> QED BY <1>3, <1>6, <2>1, Zenon DEF JobStates
  <1>8. /\ moved.kind = jobs[j].kind /\ moved.targets = Tail(jobs[j].targets)
        /\ moved.failed = jobs[j].failed
        /\ lost.kind = jobs[j].kind /\ lost.failed /\ lost.targets = jobs[j].targets
    BY <1>3 DEF JobStates
  <1>9. \/ /\ tree[Head(jobs[j].targets)].state = "held"
           /\ tree' = [tree EXCEPT ![Head(jobs[j].targets)].state = "merged"]
           /\ jobs' = [jobs EXCEPT ![j] = moved]
        \/ tree' = tree /\ jobs' = [jobs EXCEPT ![j] = lost]
    <2>1. CASE MergeTarget(j)
      <3>1. /\ tree[Head(jobs[j].targets)].state = "held"
            /\ tree' = [tree EXCEPT ![Head(jobs[j].targets)].state = "merged"]
            /\ jobs' = [jobs EXCEPT ![j].targets = Tail(@)]
        BY <2>1 DEF MergeTarget
      <3> QED BY <1>2, <3>1
    <2>2. CASE MergeFails(j)
      <3>1. tree' = tree /\ jobs' = [jobs EXCEPT ![j].failed = TRUE]
        BY <2>2 DEF MergeFails, agentVars
      <3> QED BY <1>2, <3>1
    <2> QED BY <2>1, <2>2
  <1> HIDE DEF moved, lost
  <1>10. jobs' \in Seq(JobStates) /\ DOMAIN jobs' = DOMAIN jobs /\ Len(jobs') = Len(jobs)
    <2>1. Len(jobs) \in Nat /\ DOMAIN jobs = 1 .. Len(jobs) BY <1>2
    <2>2. jobs' \in [1 .. Len(jobs) -> JobStates] BY SMTT(30), <1>2, <1>7, <1>9, <2>1
    <2> QED BY <2>1, <2>2
  <1>11. tree' \in [Agents -> TreeStates]
    <2> DEFINE t == Head(jobs[j].targets)
    <2>1. tree[t] \in TreeStates BY <1>2, <1>6
    <2>2. [tree[t] EXCEPT !.state = "merged"] \in TreeStates BY <2>1 DEF TreeStates
    <2> HIDE DEF t
    <2>3. tree' = tree \/ tree' = [tree EXCEPT ![t] = [tree[t] EXCEPT !.state = "merged"]]
      BY <1>2, <1>9 DEF t
    <2> QED BY <1>2, <2>2, <2>3
  <1>12. Owned' /\ Numbered' /\ Room(Left(run))' BY <1>4, NumbersKept
  <1>13. /\ run' \in RunStates /\ running' \in BOOLEAN /\ cmds' \in Seq(SUBSET Agents)
         /\ agent' \in [Agents -> AgentStates]
         /\ chan' \in [Agents -> Seq({"edit"} \union Verdicts)]
         /\ orphans' \in [Agents -> Nat] /\ runs' \in 0 .. MaxRuns /\ says' \in 0 .. MaxSays
    BY <1>1, <1>2, <1>4 DEF TypeOK
  <1>14. alone' \in BOOLEAN BY <1>1, <1>4 DEF TypeOK
  <1>15. TypeOK' BY <1>10, <1>11, <1>13, <1>14 DEF TypeOK, TreeStates, AgentStates
  <1>16. Typed' BY <1>12, <1>15 DEF Typed
  <1>17. \A k \in DOMAIN jobs : k # j => jobs'[k] = jobs[k] BY <1>2, <1>9
  <1>18. \/ /\ tree[Head(jobs[j].targets)].state = "held"
            /\ tree' = [tree EXCEPT ![Head(jobs[j].targets)].state = "merged"]
            /\ jobs'[j] = moved
         \/ tree' = tree /\ jobs'[j] = lost
    BY <1>2, <1>9
  <1>19. jobs'[j].kind = "merge" BY <1>4, <1>8, <1>18
  <1>20. \/ /\ tree[Head(jobs[j].targets)].state = "held"
            /\ tree' = [tree EXCEPT ![Head(jobs[j].targets)].state = "merged"]
            /\ jobs'[j].targets = Tail(jobs[j].targets) /\ ~jobs'[j].failed
         \/ tree' = tree /\ jobs'[j].failed /\ jobs'[j].targets = jobs[j].targets
    <2>1. CASE jobs'[j] = moved /\ tree' # tree BY <1>4, <1>8, <1>18, <2>1
    <2>2. CASE jobs'[j] = lost /\ tree' = tree BY <1>8, <2>2
    <2>3. CASE jobs'[j] = moved /\ tree[Head(jobs[j].targets)].state = "held"
               /\ tree' = [tree EXCEPT ![Head(jobs[j].targets)].state = "merged"]
      BY <1>4, <1>8, <2>3
    <2> QED BY <1>18, <2>1, <2>2, <2>3
  <1> QED BY <1>4, <1>10, <1>16, <1>17, <1>19, <1>20

-----------------------------------------------------------------------------
\* The first theorem.

\* The types hold at the start.
LEMMA InitTyped == Init => Typed
  <1> SUFFICES ASSUME Init PROVE Typed OBVIOUS
  <1>1. NoRun \in RunStates /\ ~NoRun.live
    <2>1. 0 \in {0} \union Agents /\ 0 \in 0 .. MaxRetries /\ "" \in Statuses
          /\ "none" \in {"none"} \union Verdicts /\ {} \in SUBSET Slices
          /\ <<>> \in Seq(Agents)
          /\ <<>> \in Seq([agent : Agents, done : BOOLEAN, status : Statuses])
          /\ FALSE \in BOOLEAN
      BY RunCommandAssumption DEF Statuses
    <2>2. NoRun \in RunStates BY <2>1, Zenon DEF NoRun, RunStates
    <2>3. ~NoRun.live BY DEF NoRun
    <2> QED BY <2>2, <2>3
  <1>2. agent \in [Agents -> AgentStates] /\ tree \in [Agents -> TreeStates]
    <2>1. "" \in Statuses /\ "none" \in {"none"} \union Verdicts /\ 0 \in {0} \union Agents
          /\ "none" \in {"none", "live", "ended"} /\ FALSE \in BOOLEAN
          /\ "none" \in {"none", "held", "merged"} /\ {} \in SUBSET Slices
      BY DEF Statuses
    <2>2. [state |-> "none", status |-> "", tree |-> 0, verdict |-> "none", passed |-> FALSE]
             \in AgentStates
      BY <2>1, Zenon DEF AgentStates
    <2>3. [state |-> "none", ticked |-> {}] \in TreeStates BY <2>1, Zenon DEF TreeStates
    <2> QED BY <2>2, <2>3 DEF Init
  <1>3. /\ chan \in [Agents -> Seq({"edit"} \union Verdicts)] /\ cmds \in Seq(SUBSET Agents)
        /\ orphans \in [Agents -> Nat] /\ jobs \in Seq(JobStates)
        /\ runs \in 0 .. MaxRuns /\ says \in 0 .. MaxSays
    <2>1. \A S : <<>> \in Seq(S) OBVIOUS
    <2>2. /\ chan = [a \in Agents |-> <<>>] /\ cmds = <<>> /\ orphans = [a \in Agents |-> 0]
          /\ jobs = <<>> /\ runs = 0 /\ says = 0
      BY DEF Init
    <2>3. 0 \in 0 .. MaxRuns /\ 0 \in 0 .. MaxSays BY RunCommandAssumption
    <2>4. orphans \in [Agents -> Nat] BY <2>2
    <2>5. chan \in [Agents -> Seq({"edit"} \union Verdicts)] BY <2>1, <2>2
    <2>6. cmds \in Seq(SUBSET Agents) /\ jobs \in Seq(JobStates) BY <2>1, <2>2
    <2> QED BY <2>2, <2>3, <2>4, <2>5, <2>6
  <1>4. TypeOK BY <1>1, <1>2, <1>3 DEF TypeOK, Init, AgentStates, TreeStates
  <1>5. Owned BY <1>1 DEF Init, Owned
  <1>6. Spawned = {} BY DEF Init, Spawned
  <1>7. Cardinality(Spawned) = 0
    <2>1. Cardinality({}) = 0 BY FS_EmptySet
    <2> QED BY <1>6, <2>1, Zenon
  <1>8. Numbered BY <1>6, <1>7 DEF Numbered
  <1>9. Room(Left(run))
    <2>1. Left(run) = 0 /\ runs = 0 BY <1>1 DEF Init, Left
    <2>2. 0 * (2 + MaxRetries) \in Nat
      <3>1. 0 \in 0 .. MaxRuns BY RunCommandAssumption
      <3> QED BY <3>1, RunsHaveRoom
    <2>3. runs * (2 + MaxRetries) \in Nat BY <2>1, <2>2, Zenon
    <2>4. Cardinality(Spawned) + Left(run) = 0 BY <1>7, <2>1
    <2> QED BY <2>3, <2>4 DEF Room
  <1> QED BY <1>4, <1>5, <1>8, <1>9 DEF Typed

\* Every step of an agent keeps the types and touches no run.
LEMMA AgentGoesOn ==
    ASSUME Typed, NEW a \in Agents, AgentStep(a) \/ Swallow(a)
    PROVE  AgentsGoOn /\ Typed'
  <1>1. CASE Tick(a) BY <1>1, TickGoesOn
  <1>2. CASE \E verdict \in Verdicts : Review(a, verdict) BY <1>2, ReviewGoesOn
  <1>3. CASE AgentExits(a) BY <1>3, ExitGoesOn DEF AgentExits
  <1>4. CASE Swallow(a) BY <1>4, SwallowGoesOn
  <1> QED BY <1>1, <1>2, <1>3, <1>4 DEF AgentStep

\* Every step keeps the types.
LEMMA NextTyped == Typed /\ [Next]_vars => Typed'
  <1> SUFFICES ASSUME Typed, [Next]_vars PROVE Typed' OBVIOUS
  <1>1. CASE UserStep
    <2>1. ASSUME NEW count \in 1 .. 2, AbandonStart(count) PROVE Typed'
      BY <2>1, AbandonStartTyped
    <2>2. ASSUME NEW count \in 1 .. 2, NEW gates \in BOOLEAN, StartRun(count, gates) PROVE Typed'
      BY <2>2, StartRunTyped
    <2> QED BY <1>1, <2>1, <2>2, EscapeOrClearTyped DEF UserStep
  <1>2. CASE \E a \in Agents : AgentStep(a) \/ Swallow(a) BY <1>2, AgentGoesOn
  <1>3. CASE ReceiveStep BY <1>3, ReceiveTyped DEF ReceiveStep
  <1>4. CASE JobStep
    <2> PICK j \in DOMAIN jobs : RunGates(j) \/ MergeTarget(j) \/ MergeFails(j) \/ MergeEnds(j)
      BY <1>4 DEF JobStep
    <2> QED BY RunGatesTyped, MergeStepTyped, MergeEndsTyped
  <1>5. CASE UNCHANGED vars
    <2>1. /\ run' = run /\ running' = running /\ agent' = agent /\ tree' = tree /\ chan' = chan
          /\ cmds' = cmds /\ orphans' = orphans /\ jobs' = jobs /\ runs' = runs /\ says' = says
          /\ alone' = alone
      BY <1>5 DEF vars, agentVars
    <2>2. Owned' /\ Numbered' /\ Room(Left(run))' BY <2>1, NumbersKept
    <2>3. TypeOK BY DEF Typed
    <2>4. alone' \in BOOLEAN /\ running' \in BOOLEAN BY <2>1, <2>3 DEF TypeOK
    <2>5. TypeOK' BY <2>1, <2>3, <2>4 DEF TypeOK
    <2> QED BY <2>2, <2>5 DEF Typed
  <1> QED BY <1>1, <1>2, <1>3, <1>4, <1>5 DEF Next

\* The state of the pipeline keeps its shape, whatever /run and /clear do to each other:
\* in particular no run ever asks for more agents than its retries allow.
\* (run.go, retryRun)
THEOREM TypeCorrect == Spec => []TypeOK
  <1>1. Typed => TypeOK BY DEF Typed
  <1> QED BY <1>1, InitTyped, NextTyped, PTL DEF Spec

-----------------------------------------------------------------------------
\* The second invariant: one thing at a time, and what the cycle has to show for itself.

\* A run has one command that waits for its agents, or one job, or neither, and no
\* agent is live that its command does not wait for.
Flow ==
    /\ Len(cmds) + Len(jobs) <= 1
    /\ cmds # <<>> => run.live /\ run.phase = "running" /\ cmds[1] = WaitForRunEvents(run)
    /\ jobs # <<>> => /\ run.live
                      /\ run.phase = IF jobs[1].kind = "gates" THEN "gating" ELSE "merging"
    /\ \A a \in Agents : Live(a) => cmds # <<>> /\ a \in cmds[1]

\* The owner's worktree is there until it is merged, a PASS in the transcript was said
\* in this cycle, and a merge begins with both signals.
Reviewed ==
    run.phase \in {"running", "gating", "merging"} =>
        /\ run.phase # "merging" => tree[run.owner].state = "held"
        /\ IsParallel(run) => run.owner \in ParallelAgents(run)
        /\ run.transcript = "pass" => \E a \in Cycle(run) \cap Agents : agent[a].passed
        /\ run.phase = "merging" =>
              /\ run.transcript = "pass"
              /\ \A slice \in Slices : \E t \in Targets(run) : slice \in tree[t].ticked

\* The worktrees of the run that are not merged yet are those it is going to merge.
Gathered ==
    \A t \in Agents : t >= run.owner /\ tree[t].state = "held" =>
        /\ run.phase \in {"running", "gating"} => t \in Targets(run)
        /\ run.phase = "merging" /\ jobs # <<>> => t \in ToSet(jobs[1].targets)
        /\ run.phase # "done"

\* A PASS on its way was said, and an agent that was not spawned has no worktree.
Said == \A a \in Agents : "pass" \in ToSet(chan[a]) => agent[a].passed
Unborn == \A t \in Agents : agent[t].state = "none" => tree[t].state # "held"

Orderly ==
    /\ Said /\ Unborn
    /\ alone => Flow
    /\ alone /\ run.live => Reviewed /\ Gathered

\* What a step of Update that spawns n agents does to the agents and the worktrees.
LEMMA UpdateFacts ==
    ASSUME TypeOK, NEW e \in EffectStates, NEW n \in Nat, SpawnsNext(e, n),
           NEW waiting, NEW working, Update(e, waiting, working)
    PROVE  /\ run' = e.run
           /\ cmds' = IF e.wait = {} THEN waiting ELSE Append(waiting, e.wait)
           /\ jobs' = working \o e.job
           /\ \A a \in Agents :
                 /\ agent'[a].passed = agent[a].passed /\ tree'[a].ticked = tree[a].ticked
                 /\ a \notin NextAgents(n) => agent'[a].state = agent[a].state
                                           /\ tree'[a].state = tree[a].state
                 /\ a \in NextAgents(n) => /\ agent'[a].state = "live"
                                           /\ tree'[a].state = IF TreeOf(e, a) = a THEN "held"
                                                               ELSE tree[a].state
  <1>1. /\ agent' = [a \in Agents |->
                IF a \in NextAgents(n)
                THEN [agent[a] EXCEPT !.state = "live", !.status = "running",
                                      !.tree = TreeOf(e, a)]
                ELSE agent[a]]
        /\ tree' = [a \in Agents |->
                IF a \in NextAgents(n) /\ TreeOf(e, a) = a
                THEN [tree[a] EXCEPT !.state = "held"]
                ELSE tree[a]]
    BY UpdateSpawns
  <1>2. run' = e.run /\ cmds' = (IF e.wait = {} THEN waiting ELSE Append(waiting, e.wait))
        /\ jobs' = working \o e.job
    BY Zenon DEF Update
  <1>3. agent \in [Agents -> AgentStates] /\ tree \in [Agents -> TreeStates]
    BY DEF TypeOK, AgentStates, TreeStates
  <1>4. ASSUME NEW a \in Agents
        PROVE  /\ agent'[a].passed = agent[a].passed
               /\ a \notin NextAgents(n) => agent'[a].state = agent[a].state
               /\ a \in NextAgents(n) => agent'[a].state = "live"
    <2>1. agent[a] \in AgentStates BY <1>3
    <2>2. CASE a \in NextAgents(n)
      <3>1. agent'[a] = [agent[a] EXCEPT !.state = "live", !.status = "running",
                                         !.tree = TreeOf(e, a)]
        BY <1>1, <2>2
      <3> QED BY <2>1, <2>2, <3>1 DEF AgentStates
    <2>3. CASE a \notin NextAgents(n) BY <1>1, <2>3
    <2> QED BY <2>2, <2>3
  <1>5. ASSUME NEW a \in Agents
        PROVE  /\ tree'[a].ticked = tree[a].ticked
               /\ a \notin NextAgents(n) => tree'[a].state = tree[a].state
               /\ a \in NextAgents(n) => tree'[a].state = IF TreeOf(e, a) = a THEN "held"
                                                         ELSE tree[a].state
    <2>1. tree[a] \in TreeStates BY <1>3
    <2>2. CASE a \in NextAgents(n) /\ TreeOf(e, a) = a
      <3>1. tree'[a] = [tree[a] EXCEPT !.state = "held"] BY <1>1, <2>2
      <3> QED BY <2>1, <2>2, <3>1 DEF TreeStates
    <2>3. CASE ~(a \in NextAgents(n) /\ TreeOf(e, a) = a) BY <1>1, <2>3
    <2> QED BY <2>2, <2>3
  <1> QED BY <1>2, <1>4, <1>5

\* What is said of passes and of the unborn survives a step of Update.
LEMMA UpdateSaid ==
    ASSUME TypeOK, Said, Unborn, NEW e \in EffectStates, NEW n \in Nat, SpawnsNext(e, n),
           NEW waiting, NEW working, Update(e, waiting, working),
           \A b \in Agents : ToSet(chan'[b]) \subseteq ToSet(chan[b])
    PROVE  Said' /\ Unborn'
  <1>1. \A a \in Agents :
            /\ agent'[a].passed = agent[a].passed
            /\ a \notin NextAgents(n) => agent'[a].state = agent[a].state
                                      /\ tree'[a].state = tree[a].state
            /\ a \in NextAgents(n) => agent'[a].state = "live"
    BY UpdateFacts
  <1>2. Said' BY <1>1 DEF Said
  <1>3. Unborn' BY <1>1 DEF Unborn
  <1> QED BY <1>2, <1>3

\* The number of agents an answer spawns.
SpawnCount(e) == IF e.spawn = <<>> THEN 0 ELSE 1

\* What an answer spawns: nothing, or one agent when it is a retry.
LEMMA AnswerSpawns ==
    ASSUME NEW r, LiveRun(r), NEW e,
           Outcome(r, e) \/ Waits(r, e) \/ Finishes(r, e)
    PROVE  SpawnCount(e) \in Nat /\ SpawnsNext(e, SpawnCount(e))
           /\ (~Retries(r, e) => e.spawn = <<>> /\ SpawnCount(e) = 0)
           /\ (Retries(r, e) => e.spawn = <<r.owner>> /\ SpawnCount(e) = 1)
  <1>1. CASE Retries(r, e)
    <2>1. e.spawn = <<r.owner>> /\ r.owner \in Agents BY <1>1 DEF Retries, LiveRun
    <2>2. <<r.owner>> \in [1 .. 1 -> Agents] BY <2>1
    <2>3. <<r.owner>> # <<>> OBVIOUS
    <2> QED BY <1>1, <2>1, <2>2, <2>3 DEF SpawnsNext, SpawnCount
  <1>2. CASE ~Retries(r, e)
    <2>1. e.spawn = <<>> BY <1>2 DEF Outcome, Stops, Gates, Merges, Waits, Finishes
    <2>2. <<>> \in [1 .. 0 -> Agents] OBVIOUS
    <2> QED BY <1>2, <2>1, <2>2 DEF SpawnsNext, SpawnCount
  <1> QED BY <1>1, <1>2

\* An answer leaves one thing to wait for, when it found one.
LEMMA AnswerFlow ==
    ASSUME TypeOK, LiveRun(run), NEW e \in EffectStates, Update(e, <<>>, <<>>),
           Outcome(run, e) \/ Waits(run, e) \/ Finishes(run, e),
           Waits(run, e) => run.phase = "running",
           \A a \in Agents : Live(a) => Waits(run, e) /\ a \in e.wait
    PROVE  Flow'
  <1> DEFINE n == SpawnCount(e)
  <1>1. /\ n \in Nat /\ SpawnsNext(e, n)
        /\ ~Retries(run, e) => n = 0
        /\ Retries(run, e) => n = 1
    BY AnswerSpawns
  <1>2. NextAgent \in Nat \ {0} BY SpawnedIsFinite
  <1>3. NextAgents(0) = {} /\ NextAgents(1) = {NextAgent} BY <1>2 DEF NextAgents
  <1> HIDE DEF n
  <1>4. /\ run' = e.run
        /\ cmds' = IF e.wait = {} THEN <<>> ELSE Append(<<>>, e.wait)
        /\ jobs' = <<>> \o e.job
        /\ \A a \in Agents : /\ a \notin NextAgents(n) => agent'[a].state = agent[a].state
                             /\ a \in NextAgents(n) => agent'[a].state = "live"
    <2> DEFINE none == <<>>
    <2>1. Update(e, none, none) OBVIOUS
    <2> HIDE DEF none
    <2>2. /\ run' = e.run
          /\ cmds' = IF e.wait = {} THEN none ELSE Append(none, e.wait)
          /\ jobs' = none \o e.job
          /\ \A a \in Agents : /\ a \notin NextAgents(n) => agent'[a].state = agent[a].state
                               /\ a \in NextAgents(n) => agent'[a].state = "live"
      BY <1>1, <2>1, UpdateFacts
    <2> QED BY <2>2 DEF none
  <1>5. jobs' = e.job
    <2>1. e.job \in Seq(JobStates) BY DEF EffectStates
    <2> QED BY <1>4, <2>1
  <1>6. cmds' = IF e.wait = {} THEN <<>> ELSE <<e.wait>> BY <1>4
  <1>7. CASE Waits(run, e)
    <2>1. e.job = <<>> /\ e.run.phase = "running" /\ e.run.live
          /\ e.wait = WaitForRunEvents(e.run) /\ e.spawn = <<>>
      BY <1>7 DEF Waits, LiveRun
    <2>2. n = 0 BY <2>1 DEF n, SpawnCount
    <2>3. \A a \in Agents : agent'[a].state = "live" => a \in e.wait
      BY <1>3, <1>4, <2>2 DEF Live
    <2>4. Len(cmds') + Len(jobs') <= 1
      BY <1>5, <1>6, <2>1
    <2>5. cmds' # <<>> => cmds'[1] = e.wait BY <1>6
    <2>6. \A a \in Agents : agent'[a].state = "live" => cmds' # <<>> /\ a \in cmds'[1]
      BY <1>6, <2>3
    <2>7. WaitForRunEvents(run)' = e.wait
      BY <1>4, <2>1 DEF WaitForRunEvents, IsParallel, ActiveAgents
    <2>8. jobs' = <<>> BY <1>5, <2>1
    <2> QED BY <1>4, <2>1, <2>4, <2>5, <2>6, <2>7, <2>8 DEF Flow, Live
  <1>8. CASE Retries(run, e)
    <2>1. /\ e.job = <<>> /\ e.run.phase = "running" /\ e.run.live /\ e.wait = {NextAgent}
          /\ e.run.agent = NextAgent /\ e.run.parallel = <<>>
      BY <1>8 DEF Retries, LiveRun
    <2>2. n = 1 /\ ~Waits(run, e)
      BY <1>1, <1>8 DEF Retries, Waits
    <2>3. \A a \in Agents : agent'[a].state = "live" => a \in e.wait
      BY <1>3, <1>4, <2>1, <2>2 DEF Live
    <2>4. Len(cmds') + Len(jobs') <= 1 BY <1>5, <1>6, <2>1
    <2>5. cmds' # <<>> => cmds'[1] = e.wait BY <1>6
    <2>6. \A a \in Agents : agent'[a].state = "live" => cmds' # <<>> /\ a \in cmds'[1]
      BY <1>6, <2>3
    <2>7. WaitForRunEvents(run)' = e.wait
      <3>1. run'.live /\ run'.parallel = <<>> /\ run'.agent = NextAgent BY <1>4, <2>1
      <3>2. WaitForRunEvents(run)' = {NextAgent} \ {0}
        BY <3>1 DEF WaitForRunEvents, IsParallel
      <3> QED BY <1>2, <2>1, <3>2
    <2>8. jobs' = <<>> BY <1>5, <2>1
    <2> QED BY <1>4, <2>1, <2>4, <2>5, <2>6, <2>7, <2>8 DEF Flow, Live
  <1>9. CASE ~Waits(run, e) /\ ~Retries(run, e)
    <2>1. e.wait = {} /\ LiveRun(e.run)
          /\ \/ e.job = <<>>
             \/ e.job = <<GateJob(e.run)>> /\ e.run.phase = "gating"
             \/ e.job = <<MergeJob(e.run)>> /\ e.run.phase = "merging"
      BY <1>9 DEF Outcome, Stops, Gates, Merges, Finishes, SameCycle
    <2>2. cmds' = <<>> BY <1>6, <2>1
    <2>3. \A a \in Agents : agent'[a].state # "live" BY <1>1, <1>3, <1>4, <1>9 DEF Live
    <2>4. GateJob(e.run).kind = "gates" /\ MergeJob(e.run).kind = "merge"
      BY DEF GateJob, MergeJob
    <2>5. jobs' # <<>> => e.run.phase = IF jobs'[1].kind = "gates" THEN "gating" ELSE "merging"
      <3> HIDE DEF GateJob, MergeJob
      <3> QED BY <1>5, <2>1, <2>4
    <2>6. Len(cmds') + Len(jobs') <= 1
      <3> HIDE DEF GateJob, MergeJob
      <3>1. Len(cmds') = 0 BY <2>2
      <3>2. Len(jobs') = 0 \/ Len(jobs') = 1 BY <1>5, <2>1
      <3>3. CASE Len(jobs') = 0 BY <3>1, <3>3
      <3>4. CASE Len(jobs') = 1 BY <3>1, <3>4
      <3> QED BY <3>2, <3>3, <3>4
    <2>7. e.run.live BY <2>1 DEF LiveRun
    <2> QED BY <1>4, <2>2, <2>3, <2>5, <2>6, <2>7 DEF Flow, Live
  <1> QED BY <1>7, <1>8, <1>9

\* An answer keeps what a cycle has to show, and a merge begins when it is complete.
LEMMA AnswerReviewed ==
    ASSUME TypeOK, LiveRun(run), Reviewed, NEW e \in EffectStates,
           NEW waiting, NEW working, Update(e, waiting, working),
           Outcome(run, e) \/ Waits(run, e) \/ Finishes(run, e),
           Outcome(run, e) => run.phase \in {"running", "gating"} \/ Stops(run, e),
           Waits(run, e) =>
              /\ run.phase = "running"
              /\ e.run.transcript = "pass" =>
                    run.transcript = "pass" \/ \E a \in Cycle(run) \cap Agents : agent[a].passed
    PROVE  Reviewed'
  <1> DEFINE n == SpawnCount(e)
  <1>1. n \in Nat /\ SpawnsNext(e, n) BY AnswerSpawns
  <1> HIDE DEF n
  <1>2. /\ run' = e.run
        /\ \A a \in Agents :
              /\ agent'[a].passed = agent[a].passed /\ tree'[a].ticked = tree[a].ticked
              /\ tree[a].state = "held" => tree'[a].state = "held"
    BY <1>1, UpdateFacts
  <1>3. run \in RunStates /\ run.owner \in Agents BY DEF LiveRun
  <1>4. Targets(run) \in SUBSET Agents
    <2>1. run.carried \in Seq(Agents) BY <1>3 DEF RunStates
    <2>2. ToSet(run.carried) \subseteq Agents BY <2>1, SeqSet
    <2> QED BY <1>3, <2>2, RunAgents DEF Targets
  <1> DEFINE Goal ==
        e.run.phase \in {"running", "gating", "merging"} =>
            /\ e.run.phase # "merging" => tree'[e.run.owner].state = "held"
            /\ IsParallel(e.run) => e.run.owner \in ParallelAgents(e.run)
            /\ e.run.transcript = "pass" => \E a \in Cycle(e.run) \cap Agents : agent'[a].passed
            /\ e.run.phase = "merging" =>
                  /\ e.run.transcript = "pass"
                  /\ \A slice \in Slices : \E t \in Targets(e.run) : slice \in tree'[t].ticked
  <1>5. SUFFICES Goal
    <2>1. Cycle(run)' = Cycle(e.run) /\ Targets(run)' = Targets(e.run)
          /\ IsParallel(run)' = IsParallel(e.run) /\ ParallelAgents(run)' = ParallelAgents(e.run)
      BY <1>2 DEF Cycle, Targets, IsParallel, ParallelAgents
    <2> QED BY <1>2, <2>1 DEF Reviewed
  <1>6. CASE Waits(run, e)
    <2>1. /\ e.run.phase = "running" /\ e.run.owner = run.owner
          /\ IsParallel(e.run) = IsParallel(run) /\ ParallelAgents(e.run) = ParallelAgents(run)
          /\ e.run.agent = run.agent
      BY <1>6 DEF Waits
    <2>2. Cycle(e.run) = Cycle(run) BY <2>1 DEF Cycle
    <2>3. e.run.transcript = "pass" => \E a \in Cycle(run) \cap Agents : agent[a].passed
      BY <1>6, <2>1 DEF Reviewed, Waits
    <2>4. tree[run.owner].state = "held"
          /\ (IsParallel(run) => run.owner \in ParallelAgents(run))
      BY <1>6, <2>1 DEF Reviewed, Waits
    <2> QED BY <1>2, <1>3, <2>1, <2>2, <2>3, <2>4
  <1>7. CASE Stops(run, e) \/ Finishes(run, e) BY <1>7 DEF Stops, Finishes
  <1>8. CASE Retries(run, e) /\ run.phase \in {"running", "gating"}
    <2>1. /\ e.run.phase = "running" /\ e.run.owner = run.owner /\ e.run.parallel = <<>>
          /\ e.run.transcript = "none"
      BY <1>8 DEF Retries
    <2>2. ~IsParallel(e.run) BY <2>1 DEF IsParallel
    <2>3. tree[run.owner].state = "held" BY <1>8 DEF Reviewed
    <2> QED BY <1>2, <1>3, <2>1, <2>2, <2>3
  <1>9. CASE (Gates(run, e) \/ Merges(run, e)) /\ run.phase \in {"running", "gating"}
    <2>1. SameCycle(run, e.run) BY <1>9 DEF Gates, Merges
    <2>2. /\ e.run.owner = run.owner /\ e.run.agent = run.agent /\ e.run.carried = run.carried
          /\ IsParallel(e.run) = IsParallel(run) /\ ParallelAgents(e.run) = ParallelAgents(run)
          /\ e.run.transcript = run.transcript
      BY <2>1 DEF SameCycle
    <2>3. Cycle(e.run) = Cycle(run) /\ Targets(e.run) = Targets(run)
      BY <2>2 DEF Cycle, Targets
    <2>4. /\ tree[run.owner].state = "held"
          /\ IsParallel(run) => run.owner \in ParallelAgents(run)
          /\ run.transcript = "pass" => \E a \in Cycle(run) \cap Agents : agent[a].passed
      BY <1>9 DEF Reviewed
    <2>5. CASE Gates(run, e)
      <3>1. e.run.phase = "gating" BY <2>5 DEF Gates
      <3> QED BY <1>2, <1>3, <2>2, <2>3, <2>4, <3>1
    <2>6. CASE Merges(run, e)
      <3>1. e.run.phase = "merging" /\ run.transcript = "pass" /\ PlanDone(run)
        BY <2>6 DEF Merges
      <3>2. {run.owner} \union ParallelAgents(run) \subseteq Targets(run)
        <4>1. ~IsParallel(run) => ParallelAgents(run) = {}
          BY DEF IsParallel, ParallelAgents, ToSet
        <4> QED BY <2>4, <4>1 DEF Targets
      <3>3. \A slice \in Slices : \E t \in Targets(run) : slice \in tree[t].ticked
        BY <2>4, <3>1, <3>2 DEF PlanDone
      <3>4. \A slice \in Slices : \E t \in Targets(run) : slice \in tree'[t].ticked
        BY <1>2, <1>4, <3>3
      <3> QED BY <1>2, <2>2, <2>3, <2>4, <3>1, <3>4
    <2> QED BY <1>9, <2>5, <2>6
  <1> QED BY <1>6, <1>7, <1>8, <1>9 DEF Outcome

\* An answer forgets no worktree of the run.
LEMMA AnswerGathered ==
    ASSUME TypeOK, LiveRun(run), Gathered, NEW e \in EffectStates,
           NEW waiting, Update(e, waiting, <<>>),
           Outcome(run, e) \/ Waits(run, e) \/ Finishes(run, e),
           Outcome(run, e) => run.phase \in {"running", "gating"} \/ Stops(run, e),
           Waits(run, e) => run.phase = "running",
           Finishes(run, e) => /\ run.phase = "merging" /\ jobs # <<>>
                               /\ jobs[1].targets = <<>>
    PROVE  Gathered'
  <1> DEFINE n == SpawnCount(e)  none == <<>>
  <1>1. /\ n \in Nat /\ SpawnsNext(e, n)
        /\ ~Retries(run, e) => n = 0
        /\ Retries(run, e) => n = 1 /\ e.spawn = <<run.owner>>
    BY AnswerSpawns
  <1>2. Update(e, waiting, none) OBVIOUS
  <1> HIDE DEF n, none
  <1>3. /\ run' = e.run /\ jobs' = none \o e.job
        /\ \A a \in Agents :
              /\ a \notin NextAgents(n) => tree'[a].state = tree[a].state
              /\ a \in NextAgents(n) => tree'[a].state = IF TreeOf(e, a) = a THEN "held"
                                                        ELSE tree[a].state
    BY <1>1, <1>2, UpdateFacts
  <1>4. jobs' = e.job
    <2>1. e.job \in Seq(JobStates) BY DEF EffectStates
    <2> QED BY <1>3, <2>1 DEF none
  <1>5. NextAgent \in Nat \ {0} BY SpawnedIsFinite
  <1>6. NextAgents(0) = {} /\ NextAgents(1) = {NextAgent} BY <1>5 DEF NextAgents
  <1>7. \A t \in Agents : tree'[t].state = "held" =>
            tree[t].state = "held" \/ (Retries(run, e) /\ t = run.owner)
    <2>1. CASE Retries(run, e)
      <3>1. TreeOf(e, NextAgent) = run.owner
        <4>1. NextAgent - NextAgent + 1 = 1 BY <1>5
        <4> QED BY <1>1, <2>1, <4>1 DEF TreeOf
      <3>2. \A t \in Agents : t \in NextAgents(n) <=> t = NextAgent
        <4>1. NextAgents(n) = {NextAgent} BY <1>1, <1>6, <2>1, Zenon
        <4> QED BY <4>1
      <3> QED BY <1>3, <2>1, <3>1, <3>2
    <2>2. CASE ~Retries(run, e)
      <3>1. \A t \in Agents : t \notin NextAgents(n)
        <4>1. NextAgents(n) = {} BY <1>1, <1>6, <2>2, Zenon
        <4> QED BY <4>1
      <3> QED BY <1>3, <3>1
    <2> QED BY <2>1, <2>2
  <1>8. e.run.owner = run.owner
    BY DEF Outcome, Stops, Gates, Merges, Retries, Waits, Finishes, SameCycle
  <1>9. SUFFICES ASSUME NEW t \in Agents, t >= run.owner, tree'[t].state = "held"
                 PROVE  /\ e.run.phase \in {"running", "gating"} => t \in Targets(e.run)
                        /\ e.run.phase = "merging" /\ e.job # <<>> => t \in ToSet(e.job[1].targets)
                        /\ e.run.phase # "done"
    <2>1. Targets(run)' = Targets(e.run) BY <1>3 DEF Targets, IsParallel, ParallelAgents
    <2> QED BY <1>3, <1>4, <1>8, <2>1 DEF Gathered
  <1>10. CASE Waits(run, e)
    <2>1. /\ e.run.phase = "running" /\ run.phase = "running" /\ e.run.carried = run.carried
          /\ IsParallel(e.run) = IsParallel(run) /\ ParallelAgents(e.run) = ParallelAgents(run)
          /\ ~Retries(run, e)
      BY <1>10 DEF Waits, Retries
    <2>2. Targets(e.run) = Targets(run) BY <1>8, <2>1 DEF Targets
    <2>3. t \in Targets(run) BY <1>7, <1>9, <2>1 DEF Gathered
    <2> QED BY <2>1, <2>2, <2>3
  <1>11. CASE Stops(run, e) BY <1>11 DEF Stops
  <1>12. CASE Finishes(run, e)
    <2>1. ~Retries(run, e) BY <1>12 DEF Finishes, Retries
    <2>2. t \in ToSet(jobs[1].targets) BY <1>7, <1>9, <1>12, <2>1 DEF Gathered
    <2>3. ToSet(jobs[1].targets) = {} BY <1>12 DEF ToSet
    <2> QED BY <2>2, <2>3
  <1>13. CASE Retries(run, e) /\ run.phase \in {"running", "gating"}
    <2>1. /\ e.run.phase = "running" /\ e.run.parallel = <<>>
          /\ ToSet(e.run.carried) = ToSet(run.carried) \union (ParallelAgents(run) \ {run.owner})
      BY <1>13 DEF Retries
    <2>2. Targets(run) \union {run.owner} \subseteq Targets(e.run)
      BY <1>8, <2>1 DEF Targets, IsParallel
    <2>3. t \in Targets(run) \/ t = run.owner BY <1>7, <1>9, <1>13 DEF Gathered
    <2> QED BY <2>1, <2>2, <2>3
  <1>14. CASE (Gates(run, e) \/ Merges(run, e)) /\ run.phase \in {"running", "gating"}
    <2>1. SameCycle(run, e.run) /\ ~Retries(run, e) BY <1>14 DEF Gates, Merges, Retries
    <2>2. /\ e.run.carried = run.carried /\ LiveRun(e.run)
          /\ IsParallel(e.run) = IsParallel(run) /\ ParallelAgents(e.run) = ParallelAgents(run)
      BY <2>1 DEF SameCycle
    <2>3. Targets(e.run) = Targets(run) BY <1>8, <2>2 DEF Targets
    <2>4. t \in Targets(run) BY <1>7, <1>9, <1>14, <2>1 DEF Gathered
    <2>5. CASE Gates(run, e)
      <3>1. e.run.phase = "gating" BY <2>5 DEF Gates
      <3> QED BY <2>3, <2>4, <3>1
    <2>6. CASE Merges(run, e)
      <3>1. e.run.phase = "merging" /\ e.job = <<MergeJob(e.run)>> BY <2>6 DEF Merges
      <3>2. e.job[1].targets = MergeTargets(e.run) BY <3>1 DEF MergeJob
      <3>3. ToSet(MergeTargets(e.run)) = Targets(e.run)
        BY <2>2, MergeTargetsSet DEF LiveRun
      <3> QED BY <2>3, <2>4, <3>1, <3>2, <3>3
    <2> QED BY <1>14, <2>5, <2>6
  <1> QED BY <1>10, <1>11, <1>12, <1>13, <1>14 DEF Outcome

\* No answer unsays a PASS or gives a worktree to an agent that is not spawned.
LEMMA AnswerSaid ==
    ASSUME TypeOK, Owned, Said, Unborn, NEW e \in EffectStates, IsAnswer(e),
           NEW waiting, NEW working, Update(e, waiting, working),
           \A b \in Agents : ToSet(chan'[b]) \subseteq ToSet(chan[b])
    PROVE  Said' /\ Unborn'
  <1>1. CASE run.live
    <2>1. LiveRun(run) BY <1>1 DEF LiveRun, Owned, TypeOK
    <2>2. Outcome(run, e) \/ Waits(run, e) \/ Finishes(run, e) BY <1>1 DEF IsAnswer
    <2>3. SpawnCount(e) \in Nat /\ SpawnsNext(e, SpawnCount(e)) BY <2>1, <2>2, AnswerSpawns
    <2> QED BY <2>3, UpdateSaid
  <1>2. CASE ~run.live
    <2>1. e.spawn = <<>> BY <1>2 DEF IsAnswer
    <2>2. <<>> \in [1 .. 0 -> Agents] /\ 0 \in Nat OBVIOUS
    <2>3. SpawnsNext(e, 0) BY <2>1, <2>2 DEF SpawnsNext
    <2> QED BY <2>2, <2>3, UpdateSaid
  <1> QED BY <1>1, <1>2

\* The events of an agent that can be read as done are all taken, and it is not live.
LEMMA DoneIsEnded ==
    ASSUME TypeOK, NEW a \in Agents, Readable(a), NextEvent(a) = "done"
    PROVE  ~Live(a)
  <1>1. chan[a] \in Seq({"edit"} \union Verdicts) BY DEF TypeOK
  <1>2. chan[a] # <<>> => NextEvent(a) \in {"edit"} \union Verdicts
    BY <1>1 DEF NextEvent
  <1>3. chan[a] = <<>> BY <1>2 DEF Verdicts
  <1> QED BY <1>3 DEF Readable, Live

\* The one thing a run waits for.
LEMMA OneThing ==
    ASSUME TypeOK, Flow
    PROVE  /\ \A i \in DOMAIN cmds : /\ i = 1 /\ RemoveAt(cmds, i) = <<>> /\ jobs = <<>>
                                     /\ run.live /\ run.phase = "running"
                                     /\ cmds[i] = WaitForRunEvents(run)
           /\ \A j \in DOMAIN jobs : /\ j = 1 /\ RemoveAt(jobs, j) = <<>> /\ cmds = <<>>
                                     /\ run.live /\ \A a \in Agents : ~Live(a)
                                     /\ run.phase = IF jobs[j].kind = "gates" THEN "gating"
                                                    ELSE "merging"
  <1>1. cmds \in Seq(SUBSET Agents) /\ jobs \in Seq(JobStates) BY DEF TypeOK
  <1>2. Len(cmds) \in Nat /\ Len(jobs) \in Nat /\ Len(cmds) + Len(jobs) <= 1
    BY <1>1 DEF Flow
  <1>3. ASSUME NEW i \in DOMAIN cmds
        PROVE  i = 1 /\ Len(cmds) = 1 /\ jobs = <<>> /\ cmds # <<>>
    <2>1. i \in 1 .. Len(cmds) BY <1>1
    <2>2. i = 1 /\ Len(cmds) = 1 /\ Len(jobs) = 0 BY <1>2, <2>1
    <2> QED BY <1>1, <2>2
  <1>4. ASSUME NEW j \in DOMAIN jobs
        PROVE  j = 1 /\ Len(jobs) = 1 /\ cmds = <<>> /\ jobs # <<>>
    <2>1. j \in 1 .. Len(jobs) BY <1>1
    <2>2. j \in Nat /\ 1 <= j /\ j <= Len(jobs) BY <1>2, <2>1
    <2>3. j = 1 /\ Len(jobs) = 1 /\ Len(cmds) = 0 BY <1>2, <2>2
    <2> QED BY SMTT(30), <1>1, <2>3
  <1>5. ASSUME NEW i \in DOMAIN cmds PROVE RemoveAt(cmds, i) = <<>>
    BY <1>1, <1>3, RemoveAtTyped
  <1>6. ASSUME NEW j \in DOMAIN jobs PROVE RemoveAt(jobs, j) = <<>>
    BY <1>1, <1>4, RemoveAtTyped
  <1>7. \A i \in DOMAIN cmds : run.live /\ run.phase = "running"
                             /\ cmds[i] = WaitForRunEvents(run)
    BY <1>3 DEF Flow
  <1>8. \A j \in DOMAIN jobs : /\ run.live /\ \A a \in Agents : ~Live(a)
                               /\ run.phase = IF jobs[j].kind = "gates" THEN "gating"
                                              ELSE "merging"
    BY <1>4 DEF Flow
  <1> QED BY <1>3, <1>4, <1>5, <1>6, <1>7, <1>8

\* A message of an agent.
LEMMA ReceiveOrderly ==
    ASSUME Typed, Orderly, NEW i \in DOMAIN cmds, NEW a \in cmds[i], Receive(i, a)
    PROVE  Orderly'
  <1>1. TypeOK /\ Owned BY DEF Typed
  <1>2. alone' = alone /\ \A b \in Agents : ToSet(chan'[b]) \subseteq ToSet(chan[b])
    BY ReceiveTyped
  <1>3. PICK e \in EffectStates : /\ Update(e, RemoveAt(cmds, i), jobs) /\ IsAnswer(e)
                                  /\ run.live => Answers(run, a, e)
    BY ReceiveTyped DEF Received
  <1>4. Said' /\ Unborn' BY <1>1, <1>2, <1>3, AnswerSaid DEF Orderly
  <1>5. SUFFICES ASSUME alone PROVE Flow' /\ Reviewed' /\ Gathered'
    BY <1>2, <1>4 DEF Orderly
  <1>6. Flow BY <1>5 DEF Orderly
  <1>7. /\ RemoveAt(cmds, i) = <<>> /\ jobs = <<>> /\ cmds[i] = WaitForRunEvents(run)
        /\ run.live /\ run.phase = "running" /\ i = 1
    BY <1>1, <1>6, OneThing
  <1>8. LiveRun(run) BY <1>1, <1>7 DEF LiveRun, Owned, TypeOK
  <1>9. a \in Agents /\ a \in WaitForRunEvents(run) BY <1>1, <1>7 DEF TypeOK
  <1>10. WaitForRunEvents(run) \subseteq Cycle(run)
    <2>1. ActiveAgents(run) \subseteq ParallelAgents(run) BY <1>8, RunAgents DEF LiveRun
    <2> QED BY <1>7, <2>1 DEF WaitForRunEvents, Cycle
  <1>11. Answers(run, a, e) BY <1>3, <1>7
  <1>12. Outcome(run, e) \/ Waits(run, e) BY <1>11 DEF Answers
  <1>13. \A b \in Agents : Live(b) => b \in WaitForRunEvents(run)
    BY <1>6, <1>7 DEF Flow
  <1>14. \A b \in Agents : Live(b) => Waits(run, e) /\ b \in e.wait
    <2>1. CASE Readable(a) /\ NextEvent(a) = "done"
      <3>1. ~Live(a) BY <1>1, <1>9, <2>1, DoneIsEnded
      <3>2. \/ WaitForRunEvents(run) \subseteq {a}
            \/ Waits(run, e) /\ WaitForRunEvents(run) \ {a} \subseteq e.wait
            \/ Waits(run, e) /\ WaitForRunEvents(run) = e.wait
        BY <1>9, <1>11 DEF Answers
      <3> QED BY <1>13, <3>1, <3>2
    <2>2. CASE ~(Readable(a) /\ NextEvent(a) = "done")
      <3>1. Waits(run, e) /\ e.wait = WaitForRunEvents(run) BY <1>11, <2>2 DEF Answers
      <3> QED BY <1>13, <3>1
    <2> QED BY <2>1, <2>2
  <1>15. Waits(run, e) =>
            (e.run.transcript = "pass" =>
                run.transcript = "pass" \/ \E b \in Cycle(run) \cap Agents : agent[b].passed)
    <2>1. ~Outcome(run, e) \/ ~Waits(run, e)
      <3>1. <<run.owner>> # <<>> OBVIOUS
      <3> QED BY <1>7, <3>1 DEF Outcome, Stops, Gates, Merges, Retries, Waits
    <2>2. Waits(run, e) => \/ e.run.transcript = run.transcript
                           \/ e.run.transcript \in ToSet(chan[a])
      BY <1>11, <2>1 DEF Answers
    <2>3. "pass" \in ToSet(chan[a]) => agent[a].passed BY <1>9 DEF Orderly, Said
    <2> QED BY <1>9, <1>10, <2>2, <2>3
  <1> DEFINE none == <<>>
  <1>16. Update(e, none, none) BY <1>3, <1>7
  <1>17. Flow' BY <1>1, <1>7, <1>8, <1>12, <1>14, <1>16, AnswerFlow
  <1> HIDE DEF none
  <1>18. Reviewed /\ Gathered BY <1>5, <1>7 DEF Orderly
  <1>19. Reviewed' BY <1>1, <1>7, <1>8, <1>12, <1>15, <1>16, <1>18, AnswerReviewed
  <1>20. Gathered'
    <2>1. Update(e, none, <<>>) BY <1>16 DEF none
    <2>2. ~Finishes(run, e)
      BY <1>7, <1>12 DEF Outcome, Stops, Gates, Merges, Retries, Waits, Finishes
    <2> QED BY <1>1, <1>7, <1>8, <1>12, <1>18, <2>1, <2>2, AnswerGathered
  <1> QED BY <1>17, <1>19, <1>20

\* /run, with agents of its own and worktrees of their own.
LEMMA StartOrderly ==
    ASSUME Typed, Orderly, NEW count \in 1 .. 2, NEW gates \in BOOLEAN, StartRun(count, gates)
    PROVE  Orderly'
  <1> DEFINE e == StartEffect(count, gates)
             r == FreshRun(count, gates)
             new == NextAgents(count)
  <1>1. TypeOK /\ Numbered BY DEF Typed
  <1>2. Update(e, cmds, jobs) /\ e \in EffectStates /\ SpawnsNext(e, count) BY StartRunTyped
  <1>3. alone' = (alone /\ ~AtWork) /\ chan' = chan BY Zenon DEF StartRun
  <1>4. e.run = r /\ e.wait = new /\ e.job = <<>>
        /\ e.spawn = [i \in 1 .. count |-> NextAgent + i - 1]
    BY DEF StartEffect
  <1>5. new \subseteq Agents BY StartHasRoom DEF StartRun
  <1>6. /\ LiveRun(r) /\ r.phase = "running" /\ r.transcript = "none"
        /\ r.owner = NextAgent /\ r.agent = NextAgent /\ r.carried = <<>>
        /\ IsParallel(r) <=> count = 2
        /\ count = 2 => ParallelAgents(r) = NextAgents(2) /\ ActiveAgents(r) = NextAgents(2)
    BY <1>5, FreshRunTyped
  <1>7. NextAgent \in Nat \ {0} /\ NextAgent = Cardinality(Spawned) + 1
    BY SpawnedIsFinite DEF NextAgent
  <1>8. NextAgent \in new /\ NextAgents(1) = {NextAgent} BY <1>7 DEF NextAgents
  <1>9. \A a \in new : TreeOf(e, a) = a
    BY <1>4, <1>7 DEF TreeOf, NextAgents
  <1> HIDE DEF e, r, new
  <1>10. count \in Nat OBVIOUS
  <1>11. /\ run' = e.run
         /\ cmds' = IF e.wait = {} THEN cmds ELSE Append(cmds, e.wait)
         /\ jobs' = jobs \o e.job
         /\ \A a \in Agents :
               /\ a \notin NextAgents(count) => agent'[a].state = agent[a].state
                                             /\ tree'[a].state = tree[a].state
               /\ a \in NextAgents(count) => /\ agent'[a].state = "live"
                                             /\ tree'[a].state = IF TreeOf(e, a) = a THEN "held"
                                                                 ELSE tree[a].state
    BY <1>1, <1>2, <1>10, UpdateFacts
  <1>12. \A a \in Agents :
            /\ a \notin new => agent'[a].state = agent[a].state /\ tree'[a].state = tree[a].state
            /\ a \in new => agent'[a].state = "live" /\ tree'[a].state = "held"
    BY <1>9, <1>11 DEF new
  <1>13. Said' /\ Unborn'
    <2>1. \A b \in Agents : ToSet(chan'[b]) \subseteq ToSet(chan[b]) BY <1>3
    <2> QED BY <1>1, <1>2, <1>10, <2>1, UpdateSaid DEF Orderly
  <1>14. SUFFICES ASSUME ~AtWork PROVE Flow' /\ Reviewed' /\ Gathered'
    BY <1>3, <1>13 DEF Orderly
  <1>15. cmds = <<>> /\ jobs = <<>> /\ \A a \in Agents : ~Live(a) BY <1>14 DEF AtWork
  <1>16. cmds' = <<new>> /\ jobs' = <<>> /\ run' = r
    BY <1>4, <1>8, <1>11, <1>15
  <1>17. WaitForRunEvents(r) = new
    <2>1. r.live BY <1>6 DEF LiveRun
    <2>2. CASE count = 1
      <3>1. ~IsParallel(r) BY <1>6, <2>2
      <3>2. WaitForRunEvents(r) = {NextAgent}
        BY <1>6, <1>7, <2>1, <3>1 DEF WaitForRunEvents
      <3>3. new = NextAgents(1) BY <2>2, Zenon DEF new
      <3> QED BY <1>8, <3>2, <3>3
    <2>3. CASE count = 2
      <3>1. IsParallel(r) BY <1>6, <2>3
      <3>2. WaitForRunEvents(r) = ActiveAgents(r) BY <2>1, <3>1 DEF WaitForRunEvents
      <3>3. new = NextAgents(2) BY <2>3, Zenon DEF new
      <3> QED BY <1>6, <2>3, <3>2, <3>3
    <2> QED BY <2>2, <2>3
  <1>18. /\ WaitForRunEvents(run)' = WaitForRunEvents(r) /\ Cycle(run)' = Cycle(r)
         /\ Targets(run)' = Targets(r) /\ IsParallel(run)' = IsParallel(r)
         /\ ParallelAgents(run)' = ParallelAgents(r)
    BY <1>16 DEF WaitForRunEvents, Cycle, Targets, IsParallel, ParallelAgents, ActiveAgents
  <1>19. new \subseteq Targets(r)
    <2>1. CASE count = 1
      <3>1. ~IsParallel(r) BY <1>6, <2>1
      <3>2. new = {r.owner}
        <4>1. new = NextAgents(1) BY <2>1, Zenon DEF new
        <4> QED BY <1>6, <1>8, <4>1
      <3> QED BY <3>1, <3>2 DEF Targets
    <2>2. CASE count = 2
      <3>1. IsParallel(r) /\ ParallelAgents(r) = new
        <4>1. new = NextAgents(2) BY <2>2, Zenon DEF new
        <4> QED BY <1>6, <2>2, <4>1
      <3> QED BY <3>1 DEF Targets
    <2> QED BY <2>1, <2>2
  <1>20. Flow'
    <2>1. Len(cmds') = 1 /\ Len(jobs') = 0 BY <1>16
    <2>2. \A a \in Agents : agent'[a].state = "live" => a \in new
      BY <1>12, <1>15 DEF Live
    <2>3. cmds' # <<>> /\ cmds'[1] = new BY <1>16
    <2>4. run'.live /\ run'.phase = "running" BY <1>6, <1>16 DEF LiveRun
    <2> QED BY <1>16, <1>17, <1>18, <2>1, <2>2, <2>3, <2>4 DEF Flow, Live
  <1>21. Reviewed'
    <2>1. tree'[r.owner].state = "held" BY <1>5, <1>6, <1>8, <1>12
    <2>2. IsParallel(r) => r.owner \in ParallelAgents(r)
      <3>1. NextAgent \in NextAgents(2) BY <1>7 DEF NextAgents
      <3> QED BY <1>6, <3>1
    <2> QED BY <1>6, <1>16, <1>18, <2>1, <2>2 DEF Reviewed
  <1>22. Gathered'
    <2>1. ASSUME NEW t \in Agents, t >= NextAgent, tree'[t].state = "held" PROVE t \in new
      <3>1. SUFFICES ASSUME t \notin new PROVE FALSE OBVIOUS
      <3>2. tree[t].state = "held" BY <1>12, <2>1, <3>1
      <3>3. t \in Spawned BY <3>2 DEF Spawned, Orderly, Unborn
      <3>4. Spawned = 1 .. Cardinality(Spawned) BY <1>1 DEF Numbered
      <3>5. t \in 1 .. Cardinality(Spawned) BY <3>3, <3>4, Zenon
      <3>6. Cardinality(Spawned) \in Nat BY SpawnedIsFinite
      <3>7. t <= Cardinality(Spawned) /\ t \in Nat BY <3>5, <3>6
      <3> QED BY <1>7, <2>1, <3>6, <3>7
    <2> QED BY <1>6, <1>16, <1>18, <1>19, <2>1 DEF Gathered
  <1> QED BY <1>20, <1>21, <1>22

\* /run whose second spawn fails: the run at hand is no longer alone.
LEMMA AbandonOrderly ==
    ASSUME Typed, Orderly, NEW count \in 1 .. 2, AbandonStart(count)
    PROVE  Orderly'
  <1> DEFINE spawn == [i \in 1 .. count |-> NextAgent + i - 1]
             e == [Effect(run, running) EXCEPT !.spawn = spawn]
  <1>1. TypeOK BY DEF Typed
  <1>2. Update(e, cmds, jobs) /\ alone' = FALSE /\ chan' = chan BY Zenon DEF AbandonStart
  <1>3. NextAgents(count) \subseteq Agents BY StartHasRoom DEF AbandonStart
  <1>4. NextAgent \in Nat \ {0} /\ count \in Nat BY SpawnedIsFinite
  <1>5. spawn \in [1 .. count -> Agents]
    <2>1. \A i \in 1 .. count : NextAgent + i - 1 \in NextAgents(count) BY <1>4 DEF NextAgents
    <2> QED BY <1>3, <2>1
  <1> HIDE DEF spawn
  <1>6. e = [run |-> run, running |-> running, spawn |-> spawn, wait |-> {}, job |-> <<>>]
    BY SpawnEffect
  <1>7. e \in EffectStates
    <2>1. spawn \in Seq(Agents) BY <1>4, <1>5
    <2>2. run \in RunStates /\ running \in BOOLEAN BY <1>1 DEF TypeOK
    <2>3. <<>> \in Seq(JobStates) /\ {} \in SUBSET Agents OBVIOUS
    <2> HIDE DEF e
    <2> QED BY <1>6, <2>1, <2>2, <2>3, EffectTyped
  <1>8. SpawnsNext(e, count) BY <1>5, <1>6 DEF SpawnsNext
  <1> HIDE DEF e
  <1>9. \A b \in Agents : ToSet(chan'[b]) \subseteq ToSet(chan[b]) BY <1>2
  <1>10. Said' /\ Unborn' BY <1>1, <1>2, <1>4, <1>7, <1>8, <1>9, UpdateSaid DEF Orderly
  <1> QED BY <1>2, <1>10 DEF Orderly

\* Esc, and what the agents and the readers that nobody waits for do.
LEMMA GoOnOrderly ==
    ASSUME Typed, Orderly, AgentsGoOn
    PROVE  Orderly'
  <1>1. /\ run' = run /\ cmds' = cmds /\ jobs' = jobs /\ alone' = alone
        /\ \A b \in Agents :
              /\ agent'[b].state = "none" <=> agent[b].state = "none"
              /\ agent'[b].state = "live" => agent[b].state = "live"
              /\ agent[b].passed => agent'[b].passed
              /\ tree'[b].state = tree[b].state /\ tree[b].ticked \subseteq tree'[b].ticked
              /\ "pass" \in ToSet(chan'[b]) => "pass" \in ToSet(chan[b]) \/ agent'[b].passed
    BY DEF AgentsGoOn
  <1>2. run \in RunStates BY DEF Typed, TypeOK
  <1>3. Said' /\ Unborn' BY <1>1 DEF Orderly, Said, Unborn
  <1>4. /\ WaitForRunEvents(run)' = WaitForRunEvents(run) /\ Cycle(run)' = Cycle(run)
        /\ Targets(run)' = Targets(run) /\ (IsParallel(run)' <=> IsParallel(run))
        /\ ParallelAgents(run)' = ParallelAgents(run)
    BY <1>1 DEF WaitForRunEvents, Cycle, Targets, IsParallel, ParallelAgents, ActiveAgents
  <1>5. alone => Flow'
    <2>1. SUFFICES ASSUME alone PROVE Flow' OBVIOUS
    <2>2. Flow BY <2>1 DEF Orderly
    <2> QED BY <1>1, <1>4, <2>2 DEF Flow, Live
  <1>6. alone /\ run.live => Reviewed' /\ Gathered'
    <2>1. SUFFICES ASSUME alone, run.live PROVE Reviewed' /\ Gathered' OBVIOUS
    <2>2. Reviewed /\ Gathered BY <2>1 DEF Orderly
    <2>3. run.owner \in Agents BY <2>1 DEF Typed, Owned
    <2>4. Targets(run) \subseteq Agents
      <3>1. run.carried \in Seq(Agents) BY <1>2 DEF RunStates
      <3>2. ToSet(run.carried) \subseteq Agents BY <3>1, SeqSet
      <3> QED BY <1>2, <2>3, <3>2, RunAgents DEF Targets
    <2>5. Gathered' BY <1>1, <1>4, <2>2 DEF Gathered
    <2>6. run.transcript = "pass" /\ run.phase \in {"running", "gating", "merging"} =>
             \E a \in Cycle(run) \cap Agents : agent'[a].passed
      BY <1>1, <2>2 DEF Reviewed
    <2>7. run.phase = "merging" =>
             \A slice \in Slices : \E t \in Targets(run) : slice \in tree'[t].ticked
      BY <1>1, <2>2, <2>4 DEF Reviewed
    <2>8. /\ run.phase \in {"running", "gating"} => tree'[run.owner].state = "held"
          /\ run.phase \in {"running", "gating", "merging"} /\ IsParallel(run) =>
                run.owner \in ParallelAgents(run)
          /\ run.phase = "merging" => run.transcript = "pass"
      BY <1>1, <2>2, <2>3 DEF Reviewed
    <2>9. Reviewed' BY <1>1, <1>4, <2>6, <2>7, <2>8 DEF Reviewed
    <2> QED BY <2>5, <2>9
  <1> QED BY <1>1, <1>3, <1>5, <1>6 DEF Orderly

\* /clear: a run that is at work is no longer alone, and one that is not leaves nothing.
LEMMA ClearOrderly ==
    ASSUME Typed, Orderly, Clear
    PROVE  Orderly'
  <1>1. /\ run' = NoRun /\ alone' = (alone /\ ~AtWork)
        /\ agent' = agent /\ tree' = tree /\ chan' = chan /\ cmds' = cmds /\ jobs' = jobs
    BY Zenon DEF Clear, agentVars
  <1>2. Said' /\ Unborn' BY <1>1 DEF Orderly, Said, Unborn
  <1>3. ~run'.live BY <1>1 DEF NoRun
  <1>4. ASSUME ~AtWork PROVE Flow'
    <2>1. cmds' = <<>> /\ jobs' = <<>> /\ \A a \in Agents : agent'[a].state # "live"
      BY <1>1, <1>4 DEF AtWork, Live
    <2>2. Len(cmds') = 0 /\ Len(jobs') = 0 BY <2>1
    <2> QED BY <2>1, <2>2 DEF Flow, Live
  <1> QED BY <1>1, <1>2, <1>3, <1>4 DEF Orderly

\* The results of the gates.
LEMMA RunGatesOrderly ==
    ASSUME Typed, Orderly, NEW j \in DOMAIN jobs, RunGates(j)
    PROVE  Orderly'
  <1>1. TypeOK /\ Owned BY DEF Typed
  <1>2. alone' = alone /\ chan' = chan /\ jobs[j].kind = "gates" BY RunGatesTyped
  <1>3. PICK e \in EffectStates : /\ Update(e, cmds, RemoveAt(jobs, j)) /\ IsAnswer(e)
                                  /\ run.live => Outcome(run, e)
    BY RunGatesTyped DEF GatesTold
  <1>4. Said' /\ Unborn' BY <1>1, <1>2, <1>3, AnswerSaid DEF Orderly
  <1>5. SUFFICES ASSUME alone PROVE Flow' /\ Reviewed' /\ Gathered'
    BY <1>2, <1>4 DEF Orderly
  <1>6. Flow BY <1>5 DEF Orderly
  <1>7. /\ RemoveAt(jobs, j) = <<>> /\ cmds = <<>> /\ run.live /\ run.phase = "gating"
        /\ \A a \in Agents : ~Live(a)
    BY <1>1, <1>2, <1>6, OneThing
  <1>8. LiveRun(run) /\ Outcome(run, e) BY <1>1, <1>3, <1>7 DEF LiveRun, Owned, TypeOK
  <1>9. Reviewed /\ Gathered BY <1>5, <1>7 DEF Orderly
  <1>10. ~Waits(run, e) /\ ~Finishes(run, e)
    <2>1. \A x : <<x>> # <<>> OBVIOUS
    <2> QED BY <1>7, <1>8, <2>1 DEF Outcome, Stops, Gates, Merges, Retries, Waits, Finishes
  <1> DEFINE none == <<>>
  <1>11. Update(e, none, none) BY <1>3, <1>7
  <1>12. Flow' BY <1>1, <1>7, <1>8, <1>10, <1>11, AnswerFlow
  <1>13. Gathered'
    <2> HIDE DEF none
    <2>1. Update(e, none, <<>>) BY <1>11 DEF none
    <2> QED BY <1>1, <1>7, <1>8, <1>9, <1>10, <2>1, AnswerGathered
  <1> HIDE DEF none
  <1>14. Reviewed' BY <1>1, <1>7, <1>8, <1>9, <1>10, <1>11, AnswerReviewed
  <1> QED BY <1>12, <1>13, <1>14

\* The result of a merge.
LEMMA MergeEndsOrderly ==
    ASSUME Typed, Orderly, NEW j \in DOMAIN jobs, MergeEnds(j)
    PROVE  Orderly'
  <1>1. TypeOK /\ Owned BY DEF Typed
  <1>2. /\ alone' = alone /\ chan' = chan /\ jobs[j].kind = "merge"
        /\ jobs[j].targets = <<>> \/ jobs[j].failed
    BY MergeEndsTyped
  <1>3. PICK e \in EffectStates :
            /\ Update(e, cmds, RemoveAt(jobs, j)) /\ IsAnswer(e)
            /\ run.live => IF jobs[j].failed THEN Stops(run, e) ELSE Finishes(run, e)
    BY MergeEndsTyped DEF MergeTold
  <1>4. Said' /\ Unborn' BY <1>1, <1>2, <1>3, AnswerSaid DEF Orderly
  <1>5. SUFFICES ASSUME alone PROVE Flow' /\ Reviewed' /\ Gathered'
    BY <1>2, <1>4 DEF Orderly
  <1>6. Flow BY <1>5 DEF Orderly
  <1>7. /\ j = 1 /\ RemoveAt(jobs, j) = <<>> /\ cmds = <<>> /\ run.live
        /\ run.phase = "merging" /\ \A a \in Agents : ~Live(a)
    BY <1>1, <1>2, <1>6, OneThing
  <1>8. LiveRun(run) BY <1>1, <1>7 DEF LiveRun, Owned, TypeOK
  <1>9. Stops(run, e) \/ (Finishes(run, e) /\ jobs[j].targets = <<>>) BY <1>2, <1>3, <1>7
  <1>10. Reviewed /\ Gathered BY <1>5, <1>7 DEF Orderly
  <1>11. /\ ~Waits(run, e)
         /\ Outcome(run, e) \/ Finishes(run, e)
         /\ Outcome(run, e) => Stops(run, e)
         /\ Finishes(run, e) => jobs[j].targets = <<>>
    BY <1>7, <1>9 DEF Outcome, Stops, Gates, Merges, Retries, Waits, Finishes
  <1>12. jobs # <<>>
    <2>1. Len(<<>>) = 0 /\ DOMAIN <<>> = {} OBVIOUS
    <2> QED BY <2>1
  <1> DEFINE none == <<>>
  <1>13. Update(e, none, none) BY <1>3, <1>7
  <1>14. Flow' BY <1>1, <1>7, <1>8, <1>11, <1>13, AnswerFlow
  <1>15. Gathered'
    <2> HIDE DEF none
    <2>1. Update(e, none, <<>>) BY <1>13 DEF none
    <2> QED BY <1>1, <1>7, <1>8, <1>10, <1>11, <1>12, <2>1, AnswerGathered
  <1> HIDE DEF none
  <1>16. Reviewed' BY <1>1, <1>7, <1>8, <1>10, <1>11, <1>13, AnswerReviewed
  <1> QED BY <1>14, <1>15, <1>16

\* A merge takes the worktrees one by one, and those that are left are its targets.
LEMMA MergeStepOrderly ==
    ASSUME Typed, Orderly, NEW j \in DOMAIN jobs, MergeTarget(j) \/ MergeFails(j)
    PROVE  Orderly'
  <1>1. TypeOK BY DEF Typed
  <1>2. /\ jobs[j].kind = "merge" /\ jobs[j].targets # <<>> /\ ~jobs[j].failed
        /\ run' = run /\ agent' = agent /\ chan' = chan /\ cmds' = cmds /\ alone' = alone
        /\ DOMAIN jobs' = DOMAIN jobs /\ Len(jobs') = Len(jobs) /\ jobs'[j].kind = "merge"
    BY MergeStepTyped
  <1>3. \/ /\ tree[Head(jobs[j].targets)].state = "held"
           /\ tree' = [tree EXCEPT ![Head(jobs[j].targets)].state = "merged"]
           /\ jobs'[j].targets = Tail(jobs[j].targets)
        \/ tree' = tree /\ jobs'[j].targets = jobs[j].targets
    BY MergeStepTyped
  <1>4. tree \in [Agents -> TreeStates] BY <1>1 DEF TypeOK, TreeStates
  <1>5. jobs[j].targets \in Seq(Agents)
    <2>1. jobs[j] \in JobStates BY <1>1 DEF TypeOK
    <2> QED BY <2>1 DEF JobStates
  <1>6. Head(jobs[j].targets) \in Agents
        /\ ToSet(jobs[j].targets) = {Head(jobs[j].targets)} \union ToSet(Tail(jobs[j].targets))
    BY <1>2, <1>5, TailSet
  <1>7. \A t \in Agents :
            /\ tree'[t].ticked = tree[t].ticked
            /\ tree'[t].state = "held" => tree[t].state = "held"
            /\ tree'[t].state = "held" /\ t \in ToSet(jobs[j].targets) =>
                  t \in ToSet(jobs'[j].targets)
    <2> DEFINE h == Head(jobs[j].targets)
    <2>1. h \in Agents /\ ToSet(jobs[j].targets) = {h} \union ToSet(Tail(jobs[j].targets))
      BY <1>6
    <2>2. \/ /\ tree' = [tree EXCEPT ![h] = [tree[h] EXCEPT !.state = "merged"]]
             /\ jobs'[j].targets = Tail(jobs[j].targets)
          \/ tree' = tree /\ jobs'[j].targets = jobs[j].targets
      BY <1>3
    <2> HIDE DEF h
    <2>3. tree[h] \in TreeStates BY <1>4, <2>1
    <2>4. [tree[h] EXCEPT !.state = "merged"].ticked = tree[h].ticked
          /\ [tree[h] EXCEPT !.state = "merged"].state = "merged"
      BY <2>3 DEF TreeStates
    <2> QED BY <1>4, <2>1, <2>2, <2>4
  <1>8. Said' /\ Unborn'
    <2>1. Said /\ Unborn BY DEF Orderly
    <2>2. Said' BY <1>2, <2>1 DEF Said
    <2>3. \A t \in Agents : tree'[t].state = "held" => tree[t].state = "held" BY <1>7
    <2>4. Unborn' BY <1>2, <2>1, <2>3 DEF Unborn
    <2> QED BY <2>2, <2>4
  <1>9. SUFFICES ASSUME alone PROVE Flow' /\ Reviewed' /\ Gathered'
    BY <1>2, <1>8 DEF Orderly
  <1>10. Flow BY <1>9 DEF Orderly
  <1>11. /\ j = 1 /\ cmds = <<>> /\ run.live /\ run.phase = "merging"
         /\ \A a \in Agents : ~Live(a)
    BY <1>1, <1>2, <1>10, OneThing
  <1>12. Reviewed /\ Gathered BY <1>9, <1>11 DEF Orderly
  <1>13. run \in RunStates /\ run.owner \in Agents
    BY <1>1, <1>11 DEF Typed, TypeOK, Owned
  <1>14. Targets(run) \subseteq Agents
    <2>1. run.carried \in Seq(Agents) BY <1>13 DEF RunStates
    <2>2. ToSet(run.carried) \subseteq Agents BY <2>1, SeqSet
    <2> QED BY <1>13, <2>2, RunAgents DEF Targets
  <1>15. /\ Cycle(run)' = Cycle(run) /\ Targets(run)' = Targets(run)
         /\ (IsParallel(run)' <=> IsParallel(run)) /\ ParallelAgents(run)' = ParallelAgents(run)
    BY <1>2 DEF Cycle, Targets, IsParallel, ParallelAgents
  <1>16. Flow'
    <2>1. Len(cmds') + Len(jobs') <= 1 BY <1>2, <1>10 DEF Flow
    <2>2. \A a \in Agents : agent'[a].state # "live" BY <1>2, <1>11 DEF Live
    <2> QED BY <1>2, <1>11, <2>1, <2>2 DEF Flow, Live
  <1>17. Reviewed'
    <2>1. \A slice \in Slices : \E t \in Targets(run) : slice \in tree'[t].ticked
      BY <1>7, <1>11, <1>12, <1>14 DEF Reviewed
    <2>2. run.transcript = "pass" /\ (IsParallel(run) => run.owner \in ParallelAgents(run))
          /\ \E a \in Cycle(run) \cap Agents : agent[a].passed
      BY <1>11, <1>12 DEF Reviewed
    <2> QED BY <1>2, <1>11, <1>15, <2>1, <2>2 DEF Reviewed
  <1>18. Gathered'
    <2>1. jobs # <<>>
      <3>1. DOMAIN <<>> = {} OBVIOUS
      <3> QED BY <3>1
    <2>2. \A t \in Agents : t >= run.owner /\ tree[t].state = "held" =>
              t \in ToSet(jobs[j].targets)
      BY <1>11, <1>12, <2>1 DEF Gathered
    <2>3. ASSUME NEW t \in Agents, t >= run.owner, tree'[t].state = "held"
          PROVE  t \in ToSet(jobs'[j].targets)
      <3>1. /\ tree[t].state = "held"
            /\ t \in ToSet(jobs[j].targets) => t \in ToSet(jobs'[j].targets)
        BY <1>7, <2>3
      <3> QED BY <2>2, <2>3, <3>1
    <2> QED BY <1>2, <1>11, <2>3 DEF Gathered
  <1> QED BY <1>16, <1>17, <1>18

-----------------------------------------------------------------------------
\* The invariant, and the theorems.

\* The invariant holds at the start.
LEMMA InitOrderly == Init => Orderly
  <1> SUFFICES ASSUME Init PROVE Orderly OBVIOUS
  <1>1. \A a \in Agents : chan[a] = <<>> /\ agent[a].state = "none" /\ tree[a].state = "none"
    BY DEF Init
  <1>2. cmds = <<>> /\ jobs = <<>> /\ ~run.live BY DEF Init, NoRun
  <1>3. ToSet(<<>>) = {} BY DEF ToSet
  <1>4. Said /\ Unborn BY <1>1, <1>3 DEF Said, Unborn
  <1>5. Flow
    <2>1. Len(cmds) = 0 /\ Len(jobs) = 0 BY <1>2
    <2> QED BY <1>1, <1>2, <2>1 DEF Flow, Live
  <1> QED BY <1>2, <1>4, <1>5 DEF Orderly

\* Every step keeps it.
LEMMA NextOrderly == Typed /\ Orderly /\ [Next]_vars => Orderly'
  <1> SUFFICES ASSUME Typed, Orderly, [Next]_vars PROVE Orderly' OBVIOUS
  <1>1. CASE UserStep
    <2>1. ASSUME NEW count \in 1 .. 2, AbandonStart(count) PROVE Orderly'
      BY <2>1, AbandonOrderly
    <2>2. ASSUME NEW count \in 1 .. 2, NEW gates \in BOOLEAN, StartRun(count, gates)
          PROVE  Orderly'
      BY <2>2, StartOrderly
    <2>3. CASE Escape
      <3>1. AgentsGoOn BY <2>3, Zenon DEF Escape, agentVars, AgentsGoOn
      <3> QED BY <3>1, GoOnOrderly
    <2> QED BY <1>1, <2>1, <2>2, <2>3, ClearOrderly DEF UserStep
  <1>2. CASE \E a \in Agents : AgentStep(a) \/ Swallow(a)
    BY <1>2, AgentGoesOn, GoOnOrderly
  <1>3. CASE ReceiveStep BY <1>3, ReceiveOrderly DEF ReceiveStep
  <1>4. CASE JobStep
    <2> PICK j \in DOMAIN jobs : RunGates(j) \/ MergeTarget(j) \/ MergeFails(j) \/ MergeEnds(j)
      BY <1>4 DEF JobStep
    <2> QED BY RunGatesOrderly, MergeStepOrderly, MergeEndsOrderly
  <1>5. CASE UNCHANGED vars
    <2>1. AgentsGoOn BY <1>5, Zenon DEF vars, agentVars, AgentsGoOn
    <2> QED BY <2>1, GoOnOrderly
  <1> QED BY <1>1, <1>2, <1>3, <1>4, <1>5 DEF Next

\* It holds in every behaviour.
LEMMA AlwaysOrderly == Spec => [](Typed /\ Orderly)
  BY InitTyped, InitOrderly, NextTyped, NextOrderly, PTL DEF Spec

\* A worktree is committed, merged and removed only when no agent works in it: as
\* long as a run is alone, no agent at all is live while a job is running.
\* (handleRunAgentDone, mergeRunTargets)
THEOREM MergeWaits == Spec => []MergeWaitsForAgents
  <1>1. Typed /\ Orderly => MergeWaitsForAgents
    <2>1. TypeOK /\ (alone => Flow) => MergeWaitsForAgents
      BY OneThing DEF MergeWaitsForAgents
    <2> QED BY <2>1 DEF Typed, Orderly
  <1> QED BY <1>1, AlwaysOrderly, PTL

\* What is merged had a PASS in its last cycle, and every slice of the plan is ticked
\* in a worktree of the merge: neither signal outlives the cycle it was given in.
\* (verifyRunComplete, retryRun)
THEOREM MergeIsReviewed == Spec => []MergeNeedsReview
  <1>1. Typed /\ Orderly => MergeNeedsReview
    <2> SUFFICES ASSUME Typed, Orderly, alone, run.live, run.phase = "merging"
                 PROVE  /\ \E a \in CycleAgents : agent[a].passed
                        /\ \A slice \in Slices : \E t \in ToSet(MergeTargets(run)) :
                              slice \in tree[t].ticked
      BY DEF MergeNeedsReview
    <2>1. Reviewed BY DEF Orderly
    <2>2. CycleAgents = Cycle(run) BY DEF CycleAgents, Cycle
    <2>3. ToSet(MergeTargets(run)) = Targets(run)
      BY MergeTargetsSet DEF Typed, TypeOK, Owned
    <2>4. /\ \E a \in Cycle(run) : agent[a].passed
          /\ \A slice \in Slices : \E t \in Targets(run) : slice \in tree[t].ticked
      BY <2>1 DEF Reviewed
    <2> QED BY <2>2, <2>3, <2>4
  <1> QED BY <1>1, AlwaysOrderly, PTL

\* A run that is done has merged every worktree it opened, those it carried over from
\* the agents of an earlier cycle too.  (collapseParallel, mergeTargets)
THEOREM NothingIsLeft == Spec => []NothingLeftBehind
  <1>1. Typed /\ Orderly => NothingLeftBehind
    BY DEF Orderly, Gathered, NothingLeftBehind
  <1> QED BY <1>1, AlwaysOrderly, PTL

=============================================================================
