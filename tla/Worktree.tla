------------------------------- MODULE Worktree -------------------------------
(***************************************************************************)
(* The worktrees of the subagents (src/internal/subagent/worktree.go) and  *)
(* the flow that merges them back (src/internal/tui/run.go), one step for  *)
(* each git command, because only Create holds the manager's mutex while   *)
(* git runs.  An agent is also the thread that works for it: Create, then  *)
(* the merge or the abandoned spawn's Cleanup.  Exit is the thread of      *)
(* CleanupAll.  The user edits the main tree and stashes on her own.       *)
(*                                                                         *)
(* The stash message is unique to a Create, so an agent names its entry.   *)
(* git stash list, rev-parse and merge --abort do not fail here.           *)
(***************************************************************************)
EXTENDS Integers, Sequences, FiniteSets, SequencesExt

CONSTANTS
    Agents,     \* the agents that get a worktree, each with a name of its own
    Items,      \* the pieces of work the user leaves uncommitted, each once
    UserStashes, \* bound: how often the user stashes or pops
    Serial      \* the list of stashes changes in one place at a time

User == "user"
Exit == "exit"
NoOne == "nobody"
Actors == Agents \cup {Exit}

\* maxPasses of CleanupAll.
MaxPasses == 3

ASSUME WorktreeAssumption ==
    /\ {User, Exit, NoOne} \cap Agents = {}
    /\ UserStashes \in Nat
    /\ Serial \in BOOLEAN

VARIABLES
    pc,       \* where a thread stands
    mu,       \* who holds WorktreeManager.mu across git commands
    closed,   \* WorktreeManager.closed
    active,   \* WorktreeManager.active: none, plain, or stashed (with a StashMsg)
    before,   \* beforeCount of stashBeforeWorktreeAdd
    keeps,    \* the thread's copy of the info has a StashMsg
    target,   \* the agent a thread works on
    todo,     \* the snapshot CleanupAll works through
    passes,   \* the passes CleanupAll has begun
    errs,     \* cleanupWorktree met an error
    told,     \* the agents whose entry an error named as still stashed
    pop,      \* where a thread stands in popStashByMessage, and what it returned
    slot,     \* the stash@{N} a thread looked up last, 0 for none
    object,   \* the object of the entry it looked up
    tree,     \* the user's work in the main working tree
    stash,    \* the stash list, newest first: who pushed it, and what
    made,     \* the work the user has done so far
    userLeft, \* how often the user will still stash or pop
    ref,      \* the agents whose branch exists
    attached, \* the agents whose branch is checked out in their worktree
    work      \* what the worktree holds: none, old (from an earlier run), dirty, tip
              \* (committed), saved (the backup branch is at the tip), merged

ownVars == <<target, keeps, errs, told>>
threadVars == <<pc, ownVars>>
managerVars == <<mu, closed, active, before>>
exitVars == <<todo, passes>>
popVars == <<pop, slot, object>>
stashVars == <<tree, stash>>
userVars == <<made, userLeft>>
aroundVars == <<exitVars, slot, object, stashVars, userVars>>
repoVars == <<ref, attached, work>>
worldVars == <<exitVars, popVars, stashVars, userVars, repoVars>>
vars == <<threadVars, managerVars, worldVars>>

Creating == {"counting", "pushing", "recounting", "adding", "staging", "undoing"}
Merging == {"committed", "backedUp", "merged"}
Cleaning == {"removing", "deleting", "restoring"}
Ended == {"done", "failed", "rejected"}
Popped == {"restored", "gone", "refused"}

Goto(x, from, to) == pc[x] = from /\ pc' = [pc EXCEPT ![x] = to]

\* Where the entry of an agent is, 0 when it is not in the list.
Position(a) == SelectInSeq(stash, LAMBDA e : e.by = a)

Push(by) == stash' = <<[by |-> by, items |-> tree]>> \o stash

\* Nobody else is between a look at the list and the change it is for.
ListFree ==
    Serial => \A x \in Actors : pop[x] # "drop" /\ pc[x] \notin {"pushing", "recounting"}

-----------------------------------------------------------------------------
\* An earlier run of the same name left nothing or its worktree; a branch that is
\* not checked out is used like a new one.
Init ==
    /\ pc = [x \in Actors |-> IF x = Exit THEN "up" ELSE "idle"]
    /\ mu = NoOne
    /\ closed = FALSE
    /\ active = [a \in Agents |-> "none"]
    /\ before = [a \in Agents |-> 0]
    /\ keeps = [x \in Actors |-> FALSE]
    /\ target = [x \in Actors |-> IF x = Exit THEN NoOne ELSE x]
    /\ todo = {}
    /\ passes = 0
    /\ errs = [x \in Actors |-> FALSE]
    /\ told = {}
    /\ pop = [x \in Actors |-> "off"]
    /\ slot = [x \in Actors |-> 0]
    /\ object = [x \in Actors |-> {}]
    /\ tree = {}
    /\ stash = <<>>
    /\ made = {}
    /\ userLeft = UserStashes
    /\ attached \in SUBSET Agents
    /\ ref = attached
    /\ work = [a \in Agents |-> IF a \in attached THEN "old" ELSE "none"]

-----------------------------------------------------------------------------
(***************************************************************************)
(* The user.                                                               *)
(***************************************************************************)
UserEdits(item) ==
    /\ item \notin made
    /\ made' = made \cup {item}
    /\ tree' = tree \cup {item}
    /\ UNCHANGED <<threadVars, managerVars, exitVars, popVars, stash, userLeft, repoVars>>

UserStash ==
    /\ userLeft > 0 /\ ListFree
    /\ tree # {}
    /\ Push(User)
    /\ tree' = {}
    /\ userLeft' = userLeft - 1
    /\ UNCHANGED <<threadVars, managerVars, exitVars, popVars, made, repoVars>>

\* The user pops the newest entry, whoever pushed it.
UserPop ==
    /\ userLeft > 0 /\ ListFree
    /\ stash # <<>> /\ Head(stash).items \cap tree = {}
    /\ tree' = tree \cup Head(stash).items
    /\ stash' = Tail(stash)
    /\ userLeft' = userLeft - 1
    /\ UNCHANGED <<threadVars, managerVars, exitVars, popVars, made, repoVars>>

-----------------------------------------------------------------------------
(***************************************************************************)
(* create: the mutex is held from the first look at the manager to the     *)
(* last.                                                                   *)
(***************************************************************************)
\* The manager is shut down, or the base does not resolve.
CreateRefused(a) ==
    /\ mu = NoOne
    /\ Goto(a, "idle", "rejected")
    /\ UNCHANGED <<ownVars, managerVars, worldVars>>

\* claimExistingWorktree: the branch is attached to the very worktree.
CreateReuses(a) ==
    /\ mu = NoOne /\ ~closed
    /\ a \in attached
    /\ Goto(a, "idle", "created")
    /\ active' = [active EXCEPT ![a] = "plain"]
    /\ UNCHANGED <<ownVars, mu, closed, before, worldVars>>

CreateBegins(a) ==
    /\ mu = NoOne /\ ~closed
    /\ a \notin attached
    /\ Goto(a, "idle", "counting")
    /\ mu' = a
    /\ UNCHANGED <<ownVars, closed, active, before, worldVars>>

\* stashBeforeWorktreeAdd: count, push, count again.
CountStash(a) ==
    /\ ListFree
    /\ Goto(a, "counting", "pushing")
    /\ before' = [before EXCEPT ![a] = Len(stash)]
    /\ UNCHANGED <<ownVars, mu, closed, active, worldVars>>

PushStash(a) ==
    /\ Goto(a, "pushing", "recounting")
    /\ IF tree = {}
       THEN UNCHANGED stashVars
       ELSE /\ Push(a)
            /\ tree' = {}
    /\ UNCHANGED <<ownVars, managerVars, exitVars, popVars, userVars, repoVars>>

PushFails(a) ==
    /\ Goto(a, "pushing", "rejected")
    /\ before' = [before EXCEPT ![a] = 0]
    /\ mu' = NoOne
    /\ UNCHANGED <<ownVars, closed, active, worldVars>>

Recount(a) ==
    /\ Goto(a, "recounting", "adding")
    /\ keeps' = [keeps EXCEPT ![a] = Len(stash) > before[a]]
    /\ before' = [before EXCEPT ![a] = 0]
    /\ UNCHANGED <<target, errs, told, mu, closed, active, worldVars>>

\* addWorktree, on the branch that is there or on a new one.
AddWorktree(a) ==
    /\ Goto(a, "adding", "staging")
    /\ ref' = ref \cup {a}
    /\ attached' = attached \cup {a}
    /\ UNCHANGED <<ownVars, managerVars, exitVars, popVars, stashVars, userVars, work>>

\* What was stashed is put back before the error is returned.
Undo(a) ==
    pop' = [pop EXCEPT ![a] = IF keeps[a] THEN "find" ELSE "restored"]

AddFails(a) ==
    /\ Goto(a, "adding", "undoing")
    /\ Undo(a)
    /\ UNCHANGED <<ownVars, managerVars, aroundVars, repoVars>>

\* The index cannot be moved to the base: its branch stays, the worktree too
\* when git would not remove it.
StageFails(a) ==
    /\ Goto(a, "staging", "undoing")
    /\ Undo(a)
    /\ attached' \in {attached, attached \ {a}}
    /\ UNCHANGED <<ownVars, managerVars, aroundVars, ref, work>>

\* The error is returned, with the stash's own when it could not be restored.
CreateFailed(a) ==
    /\ pop[a] \in Popped
    /\ Goto(a, "undoing", "rejected")
    /\ told' = IF pop[a] = "refused" THEN told \cup {a} ELSE told
    /\ keeps' = [keeps EXCEPT ![a] = FALSE]
    /\ pop' = [pop EXCEPT ![a] = "off"]
    /\ mu' = NoOne
    /\ UNCHANGED <<target, errs, closed, active, before, aroundVars, repoVars>>

CreateSucceeds(a) ==
    /\ Goto(a, "staging", "created")
    /\ active' = [active EXCEPT ![a] = IF keeps[a] THEN "stashed" ELSE "plain"]
    /\ keeps' = [keeps EXCEPT ![a] = FALSE]
    /\ mu' = NoOne
    /\ UNCHANGED <<target, errs, told, closed, before, worldVars>>

-----------------------------------------------------------------------------
(***************************************************************************)
(* popStashByMessage, by any thread, for the agent it works on.            *)
(***************************************************************************)
PopFind(x) ==
    LET at == Position(target[x]) IN
    /\ pop[x] = "find"
    /\ slot' = [slot EXCEPT ![x] = at]
    /\ object' = [object EXCEPT ![x] = IF at = 0 THEN {} ELSE stash[at].items]
    /\ pop' = [pop EXCEPT ![x] = IF at = 0 THEN "gone" ELSE "apply"]
    /\ UNCHANGED <<threadVars, managerVars, exitVars, stashVars, userVars, repoVars>>

\* stash apply takes the object, and refuses to write over what the tree holds.
PopApply(x) ==
    /\ pop[x] = "apply"
    /\ object[x] \cap tree = {}
    /\ tree' = tree \cup object[x]
    /\ pop' = [pop EXCEPT ![x] = "refind"]
    /\ object' = [object EXCEPT ![x] = {}]
    /\ UNCHANGED <<threadVars, managerVars, exitVars, slot, stash, userVars, repoVars>>

PopEnds(x, outcome) ==
    /\ pop' = [pop EXCEPT ![x] = outcome]
    /\ slot' = [slot EXCEPT ![x] = 0]
    /\ object' = [object EXCEPT ![x] = {}]

\* Slip: an entry that could not be applied is dropped, to keep the list short.
PopRefusedDropping(x) ==
    /\ pop[x] = "apply"
    /\ PopEnds(x, "refused")
    /\ stash' = SelectSeq(stash, LAMBDA e : e.by # target[x])
    /\ UNCHANGED <<threadVars, managerVars, exitVars, tree, userVars, repoVars>>

\* It collides with the tree, or with what a merge brought.
PopRefused(x) ==
    /\ pop[x] = "apply"
    /\ PopEnds(x, "refused")
    /\ UNCHANGED <<threadVars, managerVars, exitVars, stashVars, userVars, repoVars>>

\* Slip: the position found before the apply is trusted.
PopRefindTrusting(x) ==
    /\ pop[x] = "refind" /\ ListFree
    /\ pop' = [pop EXCEPT ![x] = "drop"]
    /\ UNCHANGED <<threadVars, managerVars, aroundVars, repoVars>>

\* dropStashEntry looks the entry up again ...
PopRefind(x) ==
    /\ pop[x] = "refind" /\ ListFree
    /\ slot' = [slot EXCEPT ![x] = Position(target[x])]
    /\ pop' = [pop EXCEPT ![x] = IF Position(target[x]) = 0 THEN "restored" ELSE "drop"]
    /\ UNCHANGED <<threadVars, managerVars, exitVars, object, stashVars, userVars, repoVars>>

\* ... and drops what is at that position now; an error of the drop is ignored.
PopDrop(x) ==
    /\ pop[x] = "drop"
    /\ \/ stash' = IF slot[x] \in DOMAIN stash THEN RemoveAt(stash, slot[x]) ELSE stash
       \/ UNCHANGED stash
    /\ PopEnds(x, "restored")
    /\ UNCHANGED <<threadVars, managerVars, exitVars, tree, userVars, repoVars>>

-----------------------------------------------------------------------------
(***************************************************************************)
(* The agent, and mergeRunTargets or the abandoned spawn.                  *)
(***************************************************************************)
\* The agent writes into its worktree while its run lasts.
AgentWorks(a) ==
    /\ pc[a] \in {"created", "working"}
    /\ a \in attached
    /\ pc' = [pc EXCEPT ![a] = "working"]
    /\ work' = [work EXCEPT ![a] = "dirty"]
    /\ UNCHANGED <<ownVars, managerVars, exitVars, popVars, stashVars, userVars, ref, attached>>

\* abandonSpawn: the agent never ran.
Abandon(a) ==
    /\ Goto(a, "created", "cleaning")
    /\ UNCHANGED <<ownVars, managerVars, worldVars>>

\* The manager knows the agent, or recoverWorktreeInfo finds its worktree.
Known(a) == active[a] # "none" \/ a \in attached

\* mergeRunTargets takes one target after the other.
CommitAll(a) ==
    /\ mu = NoOne /\ a \in attached
    /\ \A b \in Agents : pc[b] \notin Merging
    /\ Goto(a, "working", "committed")
    /\ work' = [work EXCEPT ![a] = IF @ \in {"old", "dirty"} THEN "tip" ELSE @]
    /\ UNCHANGED <<ownVars, managerVars, exitVars, popVars, stashVars, userVars, ref, attached>>

CreateBackupBranch(a) ==
    /\ mu = NoOne /\ Known(a) /\ a \in ref
    /\ Goto(a, "committed", "backedUp")
    /\ work' = [work EXCEPT ![a] = IF @ = "tip" THEN "saved" ELSE @]
    /\ UNCHANGED <<ownVars, managerVars, exitVars, popVars, stashVars, userVars, ref, attached>>

\* MergeBack looks the info up, merges, and restores what the info says was stashed.
MergeBack(a) ==
    /\ mu = NoOne /\ Known(a) /\ a \in ref
    /\ Goto(a, "backedUp", "merged")
    /\ work' = [work EXCEPT ![a] = IF @ = "saved" THEN "merged" ELSE @]
    /\ pop' = [pop EXCEPT ![a] = IF active[a] = "stashed" THEN "find" ELSE "restored"]
    /\ UNCHANGED <<ownVars, managerVars, aroundVars, ref, attached>>

\* Slip: the flow goes on to Cleanup after a conflict.
FlowStopsLate(a) ==
    /\ pc[a] \in {"working", "committed", "backedUp"}
    /\ pc' = [pc EXCEPT ![a] = IF @ = "backedUp" THEN "cleaning" ELSE "done"]
    /\ UNCHANGED <<ownVars, managerVars, worldVars>>

\* A step fails, or the merge conflicts and is aborted: the worktree is preserved.
FlowStops(a) ==
    /\ pc[a] \in {"working", "committed", "backedUp"}
    /\ pc' = [pc EXCEPT ![a] = "done"]
    /\ UNCHANGED <<ownVars, managerVars, worldVars>>

\* The merge is in; a restore that failed is an error and stops the flow too.
MergeReturns(a) ==
    /\ pop[a] \in Popped
    /\ Goto(a, "merged", IF pop[a] = "refused" THEN "done" ELSE "cleaning")
    /\ told' = IF pop[a] = "refused" THEN told \cup {a} ELSE told
    /\ pop' = [pop EXCEPT ![a] = "off"]
    /\ UNCHANGED <<target, keeps, errs, managerVars, aroundVars, repoVars>>

-----------------------------------------------------------------------------
(***************************************************************************)
(* Cleanup, CleanupAll, and the cleanupWorktree of both.                   *)
(***************************************************************************)
\* The manager is closed, or has no such agent any more.
CleanupNothing(a) ==
    /\ mu = NoOne
    /\ closed \/ active[a] = "none"
    /\ Goto(a, "cleaning", "done")
    /\ UNCHANGED <<ownVars, managerVars, worldVars>>

Cleanup(a) ==
    /\ mu = NoOne /\ ~closed
    /\ active[a] # "none"
    /\ Goto(a, "cleaning", "removing")
    /\ keeps' = [keeps EXCEPT ![a] = active[a] = "stashed"]
    /\ errs' = [errs EXCEPT ![a] = FALSE]
    /\ active' = [active EXCEPT ![a] = "none"]
    /\ UNCHANGED <<target, told, mu, closed, before, worldVars>>

\* worktree remove, and the directory by hand when git would not.
RemoveWorktree(x) ==
    /\ Goto(x, "removing", "deleting")
    /\ attached' = attached \ {target[x]}
    /\ work' = [work EXCEPT ![target[x]] = "none"]
    /\ \/ UNCHANGED errs
       \/ target[x] \in attached /\ errs' = [errs EXCEPT ![x] = TRUE]
    /\ UNCHANGED <<target, keeps, told, managerVars, exitVars, popVars, stashVars, userVars, ref>>

\* branch -D; a branch that is not there is no error.
DeleteBranch(x) ==
    /\ Goto(x, "deleting", "restoring")
    /\ \/ ref' = ref \ {target[x]} /\ UNCHANGED errs
       \/ target[x] \in ref /\ errs' = [errs EXCEPT ![x] = TRUE] /\ UNCHANGED ref
    /\ pop' = [pop EXCEPT ![x] = IF keeps[x] THEN "find" ELSE "restored"]
    /\ UNCHANGED <<target, keeps, told, managerVars, aroundVars, attached, work>>

\* Slip: a failed cleanup does not put the entry back for another try.
SettleForgetting(x) ==
    /\ mu = NoOne
    /\ pop[x] \in Popped
    /\ Goto(x, "restoring", IF x = Exit THEN "passing" ELSE "done")
    /\ pop' = [pop EXCEPT ![x] = "off"]
    /\ keeps' = [keeps EXCEPT ![x] = FALSE]
    /\ target' = IF x = Exit THEN [target EXCEPT ![x] = NoOne] ELSE target
    /\ UNCHANGED <<errs, told, managerVars, aroundVars, repoVars>>

\* The end of cleanupWorktree: with any error the entry is active again.
Settle(x) ==
    LET failed == errs[x] \/ pop[x] = "refused"
    IN  /\ mu = NoOne
        /\ pop[x] \in Popped
        /\ Goto(x, "restoring", IF x = Exit THEN "passing" ELSE "done")
        /\ active' = IF failed
                     THEN [active EXCEPT ![target[x]] = IF keeps[x] THEN "stashed" ELSE "plain"]
                     ELSE active
        /\ pop' = [pop EXCEPT ![x] = "off"]
        /\ keeps' = [keeps EXCEPT ![x] = FALSE]
        /\ errs' = [errs EXCEPT ![x] = FALSE]
        /\ target' = IF x = Exit THEN [target EXCEPT ![x] = NoOne] ELSE target
        /\ UNCHANGED <<told, mu, closed, before, aroundVars, repoVars>>

\* CleanupAll refuses every later Create and Cleanup.
CloseManager ==
    /\ mu = NoOne
    /\ Goto(Exit, "up", "waiting")
    /\ closed' = TRUE
    /\ UNCHANGED <<ownVars, mu, active, before, worldVars>>

Remaining == {a \in Agents : active[a] # "none"}

\* Slip: the cleanups in flight are not waited for.
MayPassAtOnce ==
    /\ mu = NoOne
    /\ pc[Exit] \in {"waiting", "passing"} /\ todo = {}

\* inflight.Wait before the first pass, the whole snapshot before the next.
MayPass ==
    /\ mu = NoOne
    /\ \/ pc[Exit] = "waiting" /\ \A a \in Agents : pc[a] \notin Cleaning
       \/ pc[Exit] = "passing" /\ todo = {}

\* The snapshot is all that is active.
BeginPass ==
    /\ MayPass
    /\ passes < MaxPasses
    /\ Remaining # {}
    /\ pc' = [pc EXCEPT ![Exit] = "passing"]
    /\ todo' = {<<a, active[a] = "stashed">> : a \in Remaining}
    /\ active' = [a \in Agents |-> "none"]
    /\ passes' = passes + 1
    /\ UNCHANGED <<ownVars, mu, closed, before, popVars, stashVars, userVars, repoVars>>

CleanNext ==
    \E e \in todo :
        /\ Goto(Exit, "passing", "removing")
        /\ target' = [target EXCEPT ![Exit] = e[1]]
        /\ keeps' = [keeps EXCEPT ![Exit] = e[2]]
        /\ todo' = todo \ {e}
        /\ UNCHANGED <<errs, told, managerVars, passes, popVars, stashVars, userVars, repoVars>>

\* Nothing is active any more, or three passes were not enough.
CleanupAllEnds ==
    /\ MayPass
    /\ Remaining = {} \/ passes = MaxPasses
    /\ pc' = [pc EXCEPT ![Exit] = IF Remaining = {} THEN "done" ELSE "failed"]
    /\ passes' = 0
    /\ UNCHANGED <<ownVars, managerVars, todo, popVars, stashVars, userVars, repoVars>>

-----------------------------------------------------------------------------
CreateStep(a) ==
    \/ CreateRefused(a) \/ CreateReuses(a) \/ CreateBegins(a)
    \/ CountStash(a) \/ PushStash(a) \/ PushFails(a) \/ Recount(a)
    \/ AddWorktree(a) \/ AddFails(a) \/ StageFails(a) \/ CreateFailed(a) \/ CreateSucceeds(a)

FlowStep(a) ==
    \/ Abandon(a) \/ CommitAll(a) \/ CreateBackupBranch(a) \/ MergeBack(a)
    \/ FlowStops(a) \/ MergeReturns(a) \/ CleanupNothing(a) \/ Cleanup(a)

PopStep(x) ==
    PopFind(x) \/ PopApply(x) \/ PopRefused(x) \/ PopRefind(x) \/ PopDrop(x)

CleanupStep(x) == RemoveWorktree(x) \/ DeleteBranch(x) \/ Settle(x)

ExitStep == CloseManager \/ BeginPass \/ CleanNext \/ CleanupAllEnds

Finished ==
    /\ \A x \in Actors : pc[x] \in Ended
    /\ UNCHANGED vars

Next ==
    \/ \E item \in Items : UserEdits(item)
    \/ UserStash \/ UserPop
    \/ \E a \in Agents : CreateStep(a) \/ AgentWorks(a) \/ FlowStep(a)
    \/ \E x \in Actors : PopStep(x) \/ CleanupStep(x)
    \/ ExitStep
    \/ Finished

Spec == Init /\ [][Next]_vars

-----------------------------------------------------------------------------
Holders == Agents \cup {User}

TypeOK ==
    /\ pc \in [Actors -> Creating \cup Merging \cup Cleaning \cup Ended \cup
                        {"idle", "created", "working", "cleaning", "up", "waiting", "passing"}]
    /\ mu \in Agents \cup {NoOne}
    /\ closed \in BOOLEAN
    /\ active \in [Agents -> {"none", "plain", "stashed"}]
    /\ before \in [Agents -> Nat]
    /\ keeps \in [Actors -> BOOLEAN]
    /\ target \in [Actors -> Agents \cup {NoOne}]
    /\ todo \subseteq Agents \X BOOLEAN
    /\ passes \in 0..MaxPasses
    /\ errs \in [Actors -> BOOLEAN]
    /\ told \subseteq Agents
    /\ pop \in [Actors -> Popped \cup {"off", "find", "apply", "refind", "drop"}]
    /\ slot \in [Actors -> Nat]
    /\ tree \subseteq Items
    /\ stash \in Seq([by : Holders, items : SUBSET Items])
    /\ object \in [Actors -> SUBSET Items]
    /\ made \subseteq Items
    /\ userLeft \in 0..UserStashes
    /\ attached \subseteq ref /\ ref \subseteq Agents
    /\ work \in [Agents -> {"none", "old", "dirty", "tip", "saved", "merged"}]

Stashed == UNION {e.items : e \in ToSet(stash)}

\* Whatever fails, and whoever stashes in between, the user's uncommitted work
\* is in the main tree or in the list (worktree.go:102-118).
UserWorkKept == made \subseteq tree \cup Stashed

\* An entry leaves the list by the thread that has applied it, or with its
\* items in the tree: the rule of the stash lifecycle (worktree.go:110-113).
LeavesOnlyApplied ==
    [][\A e \in ToSet(stash) \ ToSet(stash') :
          \/ e.items \subseteq tree'
          \/ \E x \in Actors : target[x] = e.by /\ pop[x] = "drop" /\ pop'[x] # "drop"]_vars

\* The entry of an agent holds work that is nowhere else.
OnlyCopy(a) ==
    \E e \in ToSet(stash) :
        /\ e.by = a
        /\ ~ e.items \subseteq tree \cup UNION {f.items : f \in ToSet(stash) \ {e}}

\* No entry with the only copy is forgotten: the manager, a thread or the
\* snapshot of CleanupAll still knows of it, or an error has named it
\* (worktree.go:418-420, 546-551, 587-600).
NothingForgotten ==
    \A a \in Agents :
        OnlyCopy(a) =>
            \/ active[a] = "stashed"
            \/ pc[a] = "recounting"
            \/ \E x \in Actors : target[x] = a /\ keeps[x]
            \/ <<a, TRUE>> \in todo
            \/ a \in told

\* The agent's own work is gone with its worktree only once it is merged and
\* backed up, unless the program is being shut down (run.go:1467-1502).
AgentWorkKept ==
    [][\A a \in attached \ attached' :
          \/ work[a] \in {"none", "old", "merged"}
          \/ target[Exit] = a]_vars

\* When CleanupAll returns no error nothing is active, no worktree of a spawn
\* is left, nobody is at work on one, and no only copy is untold
\* (worktree.go:719-772).
ShutdownClean ==
    pc[Exit] = "done" =>
        /\ Remaining = {}
        /\ \A a \in Agents :
            /\ pc[a] \notin Creating \cup Cleaning
            /\ a \in attached => pc[a] \in {"idle", "rejected"}
            /\ OnlyCopy(a) => a \in told
=============================================================================
