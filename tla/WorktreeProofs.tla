---------------------------- MODULE WorktreeProofs ----------------------------
(***************************************************************************)
(* What is proved about the worktrees, for any set of agents, any work of  *)
(* the user and any number of stashes.                                     *)
(*                                                                         *)
(* Structure is inductive whatever Serial is: whose turn it is, who owns a *)
(* worktree, what it holds, what is in the list.  Counted and Guarded need *)
(* Serial, and say what keeps the user's work: the newest entry with a     *)
(* piece of it is the entry of the user herself, or of an agent somebody   *)
(* still knows of and no thread has put back yet.                          *)
(***************************************************************************)
EXTENDS Worktree, SequenceTheorems, WellFoundedInduction, TLAPS

\* Create has not returned a worktree.
Unstarted == {"idle", "rejected"} \cup Creating

\* CleanupAll's snapshot has the agent.
Listed(a) == \E k \in BOOLEAN : <<a, k>> \in todo

\* Where the threads can stand, and what each of them holds there: the mutex during
\* Create, a target for CleanupAll while it cleans, a restore only at its three places.
Threads ==
    /\ pc[Exit] \in {"up", "waiting", "passing", "done", "failed"} \cup Cleaning
    /\ \A a \in Agents :
        /\ pc[a] \notin {"up", "waiting", "passing", "failed"} 
        /\ target[a] = a
        /\ pc[a] \in Creating <=> mu = a
    /\ target[Exit] # NoOne <=> pc[Exit] \in Cleaning
    /\ \A x \in Actors :
        /\ pop[x] # "off" => pc[x] \in {"undoing", "merged", "restoring"}
        /\ keeps[x] => pc[x] \in {"adding", "staging", "undoing"} \cup Cleaning

\* A closed manager lets no Create go on, and no Cleanup once the passes have begun.
Closing ==
    /\ closed <=> pc[Exit] # "up"
    /\ closed => mu = NoOne
    /\ pc[Exit] \notin {"up", "waiting"} => \A a \in Agents : pc[a] \notin Cleaning
    /\ pc[Exit] \in {"up", "waiting", "done", "failed"} => todo = {}
    /\ pc[Exit] = "done" => \A a \in Agents : active[a] = "none"

ListedTwice(a) == <<a, TRUE>> \in todo /\ <<a, FALSE>> \in todo

\* The manager, the snapshot and a thread that cleans never have an agent at the same
\* time, so that no worktree is cleaned twice.
OwnedOnce(a) ==
    /\ pc[a] \in Unstarted \cup Cleaning => active[a] = "none" /\ ~Listed(a) /\ target[Exit] # a
    /\ Listed(a) \/ target[Exit] = a => active[a] = "none"
    /\ target[Exit] = a => ~Listed(a)
    /\ ~ListedTwice(a)

OneOwner == \A a \in Agents : OwnedOnce(a)

\* Somebody will remove the worktree.
HasOwner(a) ==
        \/ pc[a] \in Unstarted \cup {"removing"}
        \/ active[a] # "none"
        \/ Listed(a)
        \/ pc[Exit] = "removing" /\ target[Exit] = a

Owned == \A a \in attached : HasOwner(a)

\* How far the merge has got with the work in the worktree.
WorkSafe ==
    \A a \in Agents :
        /\ pc[a] \in Unstarted \cup {"created"} => work[a] \in {"none", "old"}
        /\ pc[a] = "working" => work[a] \in {"none", "dirty"}
        /\ pc[a] = "committed" => work[a] \in {"none", "tip"}
        /\ pc[a] = "backedUp" => work[a] \in {"none", "saved"}
        /\ pc[a] = "merged" => work[a] \in {"none", "merged"}
        /\ pc[a] \in Cleaning \cup {"cleaning"} => work[a] \in {"none", "old", "merged"}

Entry == [by : Holders, items : SUBSET Items]

HasEntry(a) == \E i \in DOMAIN stash : stash[i].by = a
\* A thread is between a look at the list and the change it is for.
AtList(x) == pop[x] = "drop" \/ pc[x] \in {"pushing", "recounting"}

\* An agent has one entry.
Unique ==
    \A i, j \in DOMAIN stash : stash[i].by = stash[j].by /\ stash[i].by # User => i = j

\* An agent has one entry, and none before its push.
OneEntryEach ==
    /\ Unique
    /\ \A a \in Agents : pc[a] \in {"idle", "counting", "pushing"} => ~HasEntry(a)

\* What a thread is about to apply is what the list holds for its agent.
Fetched ==
    \A x \in Actors : pop[x] = "apply" =>
        \A i \in DOMAIN stash : stash[i].by = target[x] => stash[i].items \subseteq object[x]

\* All that is in the tree, in the list or fetched is work the user has done.
Accounted ==
    /\ tree \subseteq made
    /\ \A i \in DOMAIN stash : stash[i].items \subseteq made
    /\ \A x \in Actors : object[x] \subseteq made

\* One thread at a time is at the list, and what it saw is still so.
Counted ==
    /\ \A x, y \in Actors : AtList(x) /\ AtList(y) => x = y
    /\ \A x \in Actors : pop[x] = "drop" =>
          slot[x] \in DOMAIN stash /\ stash[slot[x]].by = target[x]
    /\ \A a \in Agents :
          /\ pc[a] = "pushing" => before[a] = Len(stash)
          /\ pc[a] = "recounting" /\ HasEntry(a) => Len(stash) > before[a]

Reserved(a) == <<a, TRUE>> \in todo

\* Somebody knows of the entry, as in NothingForgotten.
Remembered(a) ==
    \/ active[a] = "stashed"
    \/ pc[a] = "recounting"
    \/ keeps[a]
    \/ target[Exit] = a /\ keeps[Exit]
    \/ Reserved(a)
    \/ a \in told

\* A thread that has put an entry back, or found it gone, and will forget of it.
Spent(x) == pop[x] \in {"refind", "drop"} \/ (keeps[x] /\ pop[x] \in {"restored", "gone"})

\* An entry that nobody drops or forgets next.
Held(by) ==
    \/ by = User
    \/ /\ Remembered(by)
       /\ ~Spent(by)
       /\ target[Exit] = by => ~Spent(Exit)

\* The newest entry with the piece of work is held.
Sheltered(item) ==
    \E i \in DOMAIN stash, by \in Holders :
        /\ item \in stash[i].items
        /\ \A j \in 1 .. i - 1 : item \notin stash[j].items
        /\ stash[i].by = by /\ Held(by)

Guarded == \A item \in made \ tree : Sheltered(item)

\* The names are distinct.
LEMMA Names ==
  /\ User \notin Actors /\ NoOne \notin Actors /\ Exit \notin Agents
  /\ Exit \in Actors /\ Agents \subseteq Actors
  /\ \A x \in Actors : x \in Agents \/ x = Exit
  BY WorktreeAssumption DEF Actors, User, Exit, NoOne

\* The list is a sequence of entries.
LEMMA StashTyped == TypeOK => stash \in Seq(Entry) /\ tree \subseteq Items
  BY DEF TypeOK, Entry

\* A push moves every entry down by one, and puts the user's work on top.
LEMMA PushShifts ==
  ASSUME NEW by \in Holders, TypeOK, Push(by)
  PROVE  /\ stash' \in Seq(Entry)
         /\ Len(stash') = Len(stash) + 1
         /\ DOMAIN stash = 1 .. Len(stash) /\ DOMAIN stash' = 1 .. Len(stash) + 1
         /\ stash'[1].by = by /\ stash'[1].items = tree
         /\ \A i \in DOMAIN stash : stash'[i + 1] = stash[i]
         /\ \A i \in DOMAIN stash' \ {1} : i - 1 \in DOMAIN stash /\ stash'[i] = stash[i - 1]
  <1> DEFINE new == <<[by |-> by, items |-> tree]>>
  <1>a. stash \in Seq(Entry) /\ tree \subseteq Items BY StashTyped
  <1>1. new \in Seq(Entry) /\ Len(new) = 1 /\ new[1] = [by |-> by, items |-> tree]
    BY <1>a DEF Entry
  <1>2. stash' = new \o stash BY DEF Push
  <1> HIDE DEF new
  <1>3. /\ stash' \in Seq(Entry) /\ Len(stash') = Len(new) + Len(stash)
        /\ \A i \in 1 .. Len(new) + Len(stash) :
              stash'[i] = IF i <= Len(new) THEN new[i] ELSE stash[i - Len(new)]
    BY <1>1, <1>a, <1>2, ConcatProperties, Zenon
  <1>4. DOMAIN stash = 1 .. Len(stash) /\ DOMAIN stash' = 1 .. Len(stash') BY <1>a, <1>3
  <1>b. Len(stash) \in Nat BY <1>a
  <1>5. stash'[1] = [by |-> by, items |-> tree] BY <1>1, <1>3, <1>b
  <1>8. stash'[1].by = by /\ stash'[1].items = tree BY <1>5
  <1>6. \A i \in DOMAIN stash : stash'[i + 1] = stash[i] BY <1>1, <1>3, <1>4, <1>b
  <1>7. \A i \in DOMAIN stash' \ {1} : i - 1 \in DOMAIN stash /\ stash'[i] = stash[i - 1]
    BY <1>1, <1>3, <1>4, <1>b
  <1> QED BY <1>1, <1>3, <1>4, <1>b, <1>6, <1>7, <1>8

\* A pop moves them up by one.
LEMMA PopShifts ==
  ASSUME TypeOK, stash # <<>>, stash' = Tail(stash)
  PROVE  /\ stash' \in Seq(Entry)
         /\ 1 \in DOMAIN stash /\ Head(stash) = stash[1]
         /\ Len(stash') = Len(stash) - 1
         /\ \A i \in DOMAIN stash' : i + 1 \in DOMAIN stash /\ stash'[i] = stash[i + 1]
         /\ \A i \in DOMAIN stash \ {1} : i - 1 \in DOMAIN stash'
  BY StashTyped

\* A drop moves up those behind the entry.
LEMMA DropShifts ==
  ASSUME NEW k \in DOMAIN stash, TypeOK, stash' = RemoveAt(stash, k)
  PROVE  /\ stash' \in Seq(Entry)
         /\ Len(stash') = Len(stash) - 1
         /\ \A i \in DOMAIN stash' : 
              /\ i < k => i \in DOMAIN stash /\ stash'[i] = stash[i]
              /\ i >= k => i + 1 \in DOMAIN stash /\ stash'[i] = stash[i + 1]
         /\ \A i \in DOMAIN stash :
              /\ i < k => i \in DOMAIN stash'
              /\ i > k => i - 1 \in DOMAIN stash'
  <1> DEFINE front == SubSeq(stash, 1, k - 1)
             back == SubSeq(stash, k + 1, Len(stash))
  <1>a. stash \in Seq(Entry) BY StashTyped
  <1>1. k \in 1 .. Len(stash) BY <1>a
  <1>2. /\ front \in Seq(Entry) /\ Len(front) = k - 1
        /\ \A i \in 1 .. k - 1 : front[i] = stash[i]
    BY <1>a, <1>1
  <1>3. /\ back \in Seq(Entry) /\ Len(back) = Len(stash) - k
        /\ \A i \in 1 .. Len(stash) - k : back[i] = stash[k + i]
    BY <1>a, <1>1
  <1>4. stash' = front \o back BY DEF RemoveAt
  <1> HIDE DEF front, back
  <1>5. /\ stash' \in Seq(Entry) /\ Len(stash') = Len(front) + Len(back)
        /\ \A i \in 1 .. Len(front) + Len(back) :
              stash'[i] = IF i <= Len(front) THEN front[i] ELSE back[i - Len(front)]
    <2>1. front \in Seq(Entry) /\ back \in Seq(Entry) BY <1>2, <1>3
    <2> QED BY <2>1, <1>4, ConcatProperties, ZenonT(30)
  <1>8. Len(front) + Len(back) = Len(stash) - 1 /\ Len(stash) \in Nat BY <1>a, <1>1, <1>2, <1>3
  <1>6. DOMAIN stash = 1 .. Len(stash) /\ DOMAIN stash' = 1 .. Len(stash') BY <1>a, <1>5
  <1>7. ASSUME NEW i \in DOMAIN stash'
        PROVE  /\ i < k => i \in DOMAIN stash /\ stash'[i] = stash[i]
               /\ i >= k => i + 1 \in DOMAIN stash /\ stash'[i] = stash[i + 1]
    <2>1. i \in 1 .. Len(stash) - 1 BY <1>a, <1>5, <1>6, <1>8
    <2>2. CASE i < k BY <1>1, <1>2, <1>5, <1>6, <1>8, <2>1, <2>2
    <2>3. CASE i >= k
      <3>1. i - (k - 1) \in 1 .. Len(stash) - k BY <1>1, <2>1, <2>3
      <3>2. stash'[i] = back[i - (k - 1)] BY SMTT(30), <1>1, <1>2, <1>5, <1>8, <2>1, <2>3
      <3>3. back[i - (k - 1)] = stash[k + (i - (k - 1))] BY <1>3, <3>1
      <3>4. k + (i - (k - 1)) = i + 1 BY <1>1, <2>1
      <3> QED BY <1>1, <1>6, <2>1, <2>3, <3>2, <3>3, <3>4
    <2> QED BY <1>1, <2>1, <2>2, <2>3
  <1>9. \A i \in DOMAIN stash :
           /\ i < k => i \in DOMAIN stash'
           /\ i > k => i - 1 \in DOMAIN stash'
    BY <1>1, <1>5, <1>6, <1>8
  <1>10. Len(stash') = Len(stash) - 1 BY <1>5, <1>8
  <1> QED BY <1>9, <1>10, <1>1, <1>5, <1>6, <1>7, <1>8

\* What a drop does to the list.
LEMMA DropOutcome ==
  ASSUME NEW x \in Actors, PopDrop(x)
  PROVE  stash' = stash \/ (slot[x] \in DOMAIN stash /\ stash' = RemoveAt(stash, slot[x]))
  BY DEF PopDrop

\* No entry comes into the list by a drop.
LEMMA DropSelects ==
  ASSUME TypeOK, NEW k \in DOMAIN stash, stash' = RemoveAt(stash, k)
  PROVE  \A i \in DOMAIN stash' : \E j \in DOMAIN stash : stash'[i] = stash[j]
  <1>1. /\ k \in Int /\ DOMAIN stash' \subseteq Int
        /\ \A i \in DOMAIN stash' :
              /\ i < k => i \in DOMAIN stash /\ stash'[i] = stash[i]
              /\ i >= k => i + 1 \in DOMAIN stash /\ stash'[i] = stash[i + 1]
    BY DropShifts, StashTyped
  <1> QED BY <1>1

\* The position of an agent's entry is that of an entry of the agent, or 0.
LEMMA PositionIsRight ==
  ASSUME TypeOK, NEW a
  PROVE  /\ Position(a) \in Nat
         /\ Position(a) = 0 => ~HasEntry(a)
         /\ Position(a) # 0 => Position(a) \in DOMAIN stash /\ stash[Position(a)].by = a
  <1> DEFINE at == {i \in 1 .. Len(stash) : stash[i].by = a}
  <1>1. Position(a) = IF at # {} THEN Min(at) ELSE 0 BY DEF Position, SelectInSeq
  <1>2. at # {} => Min(at) \in at
    <2> SUFFICES ASSUME at # {} PROVE Min(at) \in at OBVIOUS
    <2> DEFINE R == {pair \in Nat \X Nat : pair[1] < pair[2]}
    <2>1. IsWellFoundedOn(R, Nat) BY NatLessThanWellFounded DEF OpToRel
    <2>2. at \subseteq Nat OBVIOUS
    <2>3. PICK x \in at : \A y \in at : ~(<<y, x>> \in R)
      <3> HIDE DEF R, at
      <3> QED BY <2>1, <2>2, WFMin
    <2>4. ASSUME NEW y \in at PROVE x =< y
      <3>1. y \in Nat /\ x \in Nat /\ <<y, x>> \in Nat \X Nat BY <2>2
      <3>2. ~(y < x) BY <2>3, <3>1
      <3> QED BY <3>1, <3>2
    <2> HIDE DEF at
    <2> QED BY <2>4 DEF Min
  <1>3. DOMAIN stash = 1 .. Len(stash) /\ Len(stash) \in Nat BY StashTyped
  <1> QED BY <1>1, <1>2, <1>3 DEF HasEntry

\* A thread that cleans or restores works on an agent.
LEMMA TargetIsAgent ==
  ASSUME TypeOK, Threads, NEW x \in Actors, pc[x] \in Cleaning \/ pop[x] # "off"
  PROVE  target[x] \in Agents
  <1>1. CASE x \in Agents BY <1>1 DEF Threads
  <1>2. CASE x = Exit
    <2>1. pc[Exit] \in Cleaning BY <1>2, Names DEF Threads, Cleaning
    <2>2. target[Exit] # NoOne BY <2>1 DEF Threads
    <2> QED BY <1>2, <2>2, Names DEF TypeOK
  <1> QED BY <1>1, <1>2, Names

\* An agent's entry is still its only one after a push, a pop or a drop.
LEMMA PushKeepsUnique ==
  ASSUME NEW by \in Holders, TypeOK, Push(by), Unique, by = User \/ ~HasEntry(by)
  PROVE  Unique' /\ \A b \in Agents : HasEntry(b)' <=> (HasEntry(b) \/ b = by)
  <1>1. /\ Len(stash) \in Nat /\ DOMAIN stash = 1 .. Len(stash)
        /\ DOMAIN stash' = 1 .. Len(stash) + 1
        /\ stash'[1].by = by
        /\ \A i \in DOMAIN stash : stash'[i + 1] = stash[i]
        /\ \A i \in DOMAIN stash' \ {1} : i - 1 \in DOMAIN stash /\ stash'[i] = stash[i - 1]
    BY PushShifts, StashTyped
  <1>2. ASSUME NEW i \in DOMAIN stash', NEW j \in DOMAIN stash',
               stash'[i].by = stash'[j].by, stash'[i].by # User
        PROVE  i = j
    <2>1. i = 1 => j = 1 BY <1>1, <1>2 DEF HasEntry
    <2>2. j = 1 => i = 1 BY <1>1, <1>2 DEF HasEntry
    <2>3. CASE i # 1 /\ j # 1 BY <1>1, <1>2, <2>3 DEF Unique
    <2> QED BY <2>1, <2>2, <2>3
  <1>3. ASSUME NEW b \in Agents PROVE HasEntry(b)' <=> (HasEntry(b) \/ b = by)
    <2>1. HasEntry(b)' => HasEntry(b) \/ b = by BY <1>1 DEF HasEntry
    <2>2. b = by => HasEntry(b)' BY <1>1 DEF HasEntry
    <2>3. HasEntry(b) => HasEntry(b)' BY <1>1 DEF HasEntry
    <2> QED BY <2>1, <2>2, <2>3
  <1> QED BY <1>2, <1>3 DEF Unique

\* A pop leaves one entry to an agent, and adds none.
LEMMA PopKeepsUnique ==
  ASSUME TypeOK, stash # <<>>, stash' = Tail(stash), Unique
  PROVE  Unique' /\ \A b \in Agents : HasEntry(b)' => HasEntry(b)
  <1>1. \A i \in DOMAIN stash' : i + 1 \in DOMAIN stash /\ stash'[i] = stash[i + 1]
    BY PopShifts
  <1>2. DOMAIN stash' \subseteq Int BY PopShifts
  <1>3. Unique' BY <1>1, <1>2 DEF Unique
  <1> QED BY <1>1, <1>3 DEF HasEntry

\* So does a drop.
LEMMA DropKeepsUnique ==
  ASSUME NEW k \in DOMAIN stash, TypeOK, stash' = RemoveAt(stash, k), Unique
  PROVE  Unique' /\ \A b \in Agents : HasEntry(b)' => HasEntry(b)
  <1>1. /\ k \in Int /\ DOMAIN stash' \subseteq Int
        /\ \A i \in DOMAIN stash' :
              /\ i < k => i \in DOMAIN stash /\ stash'[i] = stash[i]
              /\ i >= k => i + 1 \in DOMAIN stash /\ stash'[i] = stash[i + 1]
    BY DropShifts
  <1>2. ASSUME NEW i \in DOMAIN stash', NEW j \in DOMAIN stash',
               stash'[i].by = stash'[j].by, stash'[i].by # User
        PROVE  i = j
    <2>1. CASE i < k /\ j < k BY <1>1, <1>2, <2>1 DEF Unique
    <2>2. CASE i < k /\ j >= k BY <1>1, <1>2, <2>2 DEF Unique
    <2>3. CASE i >= k /\ j < k BY <1>1, <1>2, <2>3 DEF Unique
    <2>4. CASE i >= k /\ j >= k BY <1>1, <1>2, <2>4 DEF Unique
    <2> QED BY <1>1, <2>1, <2>2, <2>3, <2>4
  <1>3. ASSUME NEW b \in Agents PROVE HasEntry(b)' => HasEntry(b)
    BY <1>1 DEF HasEntry
  <1> QED BY <1>2, <1>3 DEF Unique

\* CleanNext takes one agent of the snapshot, with its flag.
LEMMA Taken ==
  ASSUME TypeOK, CleanNext
  PROVE  \E a \in Agents, k \in BOOLEAN :
            /\ <<a, k>> \in todo
            /\ Goto(Exit, "passing", "removing")
            /\ target' = [target EXCEPT ![Exit] = a]
            /\ keeps' = [keeps EXCEPT ![Exit] = k]
            /\ todo' = todo \ {<<a, k>>}
            /\ UNCHANGED <<errs, told, managerVars, passes, popVars, stashVars, userVars, repoVars>>
  <1>1. PICK e \in todo :
            /\ Goto(Exit, "passing", "removing")
            /\ target' = [target EXCEPT ![Exit] = e[1]]
            /\ keeps' = [keeps EXCEPT ![Exit] = e[2]]
            /\ todo' = todo \ {e}
            /\ UNCHANGED <<errs, told, managerVars, passes, popVars, stashVars, userVars, repoVars>>
    BY DEF CleanNext
  <1>2. PICK a \in Agents, k \in BOOLEAN : e = <<a, k>> BY DEF TypeOK
  <1> QED BY <1>1, <1>2

\* The snapshot has what is active, with the flag that says whether it is stashed.
LEMMA Snapshot ==
  ASSUME TypeOK, BeginPass, NEW b \in Agents
  PROVE  /\ <<b, TRUE>> \in todo' <=> active[b] = "stashed"
         /\ <<b, FALSE>> \in todo' <=> active[b] = "plain"
  <1>1. todo' = {<<a, active[a] = "stashed">> : a \in Remaining} BY DEF BeginPass
  <1>2. b \in Remaining <=> active[b] \in {"stashed", "plain"} BY DEF Remaining, TypeOK
  <1>3. ASSUME NEW k \in BOOLEAN
        PROVE  <<b, k>> \in todo' <=> b \in Remaining /\ k = (active[b] = "stashed")
    <2>1. ASSUME <<b, k>> \in todo' PROVE b \in Remaining /\ k = (active[b] = "stashed")
      <3>1. PICK a \in Remaining : <<b, k>> = <<a, active[a] = "stashed">> BY <1>1, <2>1
      <3> QED BY <3>1
    <2>2. ASSUME b \in Remaining, k = (active[b] = "stashed") PROVE <<b, k>> \in todo'
      BY <1>1, <2>2
    <2> QED BY <2>1, <2>2
  <1>4. <<b, TRUE>> \in todo' <=> b \in Remaining /\ active[b] = "stashed"
    BY <1>3
  <1>5. <<b, FALSE>> \in todo' <=> b \in Remaining /\ ~(active[b] = "stashed")
    BY <1>3
  <1> QED BY <1>2, <1>4, <1>5

\* Every step keeps Threads.
LEMMA NextThreads ==
  ASSUME TypeOK, Threads, OneOwner, [Next]_vars PROVE Threads'
  <1> USE Names
    DEF TypeOK, Threads, OneOwner, OwnedOnce, Goto, Creating, Merging, Cleaning, Ended, Popped,
        ownVars, threadVars, managerVars, exitVars, popVars, stashVars, userVars, aroundVars,
        repoVars, worldVars, vars
  <1>1. ASSUME NEW item \in Items, UserEdits(item) PROVE Threads' BY <1>1 DEF UserEdits
  <1>2. CASE UserStash BY <1>2 DEF UserStash, Push
  <1>3. CASE UserPop BY <1>3 DEF UserPop
  <1>4. ASSUME NEW a \in Agents, CreateRefused(a) PROVE Threads' BY <1>4 DEF CreateRefused
  <1>5. ASSUME NEW a \in Agents, CreateReuses(a) PROVE Threads' BY <1>5 DEF CreateReuses
  <1>6. ASSUME NEW a \in Agents, CreateBegins(a) PROVE Threads' BY <1>6 DEF CreateBegins
  <1>7. ASSUME NEW a \in Agents, CountStash(a) PROVE Threads' BY <1>7 DEF CountStash
  <1>8. ASSUME NEW a \in Agents, PushStash(a) PROVE Threads' BY <1>8 DEF PushStash, Push
  <1>9. ASSUME NEW a \in Agents, PushFails(a) PROVE Threads' BY <1>9 DEF PushFails
  <1>10. ASSUME NEW a \in Agents, Recount(a) PROVE Threads' BY <1>10 DEF Recount
  <1>11. ASSUME NEW a \in Agents, AddWorktree(a) PROVE Threads' BY <1>11 DEF AddWorktree
  <1>12. ASSUME NEW a \in Agents, AddFails(a) PROVE Threads' BY <1>12 DEF AddFails, Undo
  <1>13. ASSUME NEW a \in Agents, StageFails(a) PROVE Threads' BY <1>13 DEF StageFails, Undo
  <1>14. ASSUME NEW a \in Agents, CreateFailed(a) PROVE Threads' BY <1>14 DEF CreateFailed
  <1>15. ASSUME NEW a \in Agents, CreateSucceeds(a) PROVE Threads' BY <1>15 DEF CreateSucceeds
  <1>16. ASSUME NEW a \in Agents, AgentWorks(a) PROVE Threads' BY <1>16 DEF AgentWorks
  <1>17. ASSUME NEW a \in Agents, Abandon(a) PROVE Threads' BY <1>17 DEF Abandon
  <1>18. ASSUME NEW a \in Agents, CommitAll(a) PROVE Threads' BY <1>18 DEF CommitAll
  <1>19. ASSUME NEW a \in Agents, CreateBackupBranch(a) PROVE Threads'
    BY <1>19 DEF CreateBackupBranch, Known
  <1>20. ASSUME NEW a \in Agents, MergeBack(a) PROVE Threads' BY <1>20 DEF MergeBack, Known
  <1>21. ASSUME NEW a \in Agents, FlowStops(a) PROVE Threads' BY <1>21 DEF FlowStops
  <1>22. ASSUME NEW a \in Agents, MergeReturns(a) PROVE Threads' BY <1>22 DEF MergeReturns
  <1>23. ASSUME NEW a \in Agents, CleanupNothing(a) PROVE Threads' BY <1>23 DEF CleanupNothing
  <1>24. ASSUME NEW a \in Agents, Cleanup(a) PROVE Threads' BY <1>24 DEF Cleanup
  <1>25. ASSUME NEW x \in Actors, PopFind(x) PROVE Threads' BY <1>25 DEF PopFind
  <1>26. ASSUME NEW x \in Actors, PopApply(x) PROVE Threads' BY <1>26 DEF PopApply
  <1>27. ASSUME NEW x \in Actors, PopRefused(x) PROVE Threads' BY <1>27 DEF PopRefused, PopEnds
  <1>28. ASSUME NEW x \in Actors, PopRefind(x) PROVE Threads' BY <1>28 DEF PopRefind
  <1>29. ASSUME NEW x \in Actors, PopDrop(x) PROVE Threads' BY <1>29 DEF PopDrop, PopEnds
  <1>30. ASSUME NEW x \in Actors, RemoveWorktree(x) PROVE Threads' BY <1>30 DEF RemoveWorktree
  <1>31. ASSUME NEW x \in Actors, DeleteBranch(x) PROVE Threads' BY <1>31 DEF DeleteBranch
  <1>32. ASSUME NEW x \in Actors, Settle(x) PROVE Threads' BY <1>32 DEF Settle
  <1>33. CASE CloseManager
    <2>1. pc' = [pc EXCEPT ![Exit] = "waiting"] /\ UNCHANGED <<target, mu, pop, keeps>>
      BY <1>33 DEF CloseManager
    <2>2. pc[Exit] = "up" BY <1>33 DEF CloseManager
    <2> QED BY <2>1, <2>2
  <1>34. CASE BeginPass BY <1>34 DEF BeginPass, MayPass, Remaining
  <1>35. CASE CleanNext
    <2>1. PICK a \in Agents, k \in BOOLEAN :
            /\ <<a, k>> \in todo
            /\ Goto(Exit, "passing", "removing")
            /\ target' = [target EXCEPT ![Exit] = a]
            /\ keeps' = [keeps EXCEPT ![Exit] = k]
            /\ todo' = todo \ {<<a, k>>}
            /\ UNCHANGED <<errs, told, managerVars, passes, popVars, stashVars, userVars, repoVars>>
      BY <1>35, Taken
    <2> QED BY <2>1
  <1>36. CASE CleanupAllEnds BY <1>36 DEF CleanupAllEnds, MayPass, Remaining
  <1>37. CASE UNCHANGED vars BY <1>37
  <1> QED BY <1>1, <1>2, <1>3, <1>4, <1>5, <1>6, <1>7, <1>8, <1>9, <1>10, <1>11, <1>12, <1>13,
             <1>14, <1>15, <1>16, <1>17, <1>18, <1>19, <1>20, <1>21, <1>22, <1>23, <1>24,
             <1>25, <1>26, <1>27, <1>28, <1>29, <1>30, <1>31, <1>32, <1>33, <1>34, <1>35,
             <1>36, <1>37
    DEF Next, CreateStep, FlowStep, PopStep, CleanupStep, ExitStep, Finished

\* Every step keeps Closing.
LEMMA NextClosing ==
  ASSUME TypeOK, Threads, Closing, OneOwner, [Next]_vars PROVE Closing'
  <1> USE Names
    DEF TypeOK, Threads, Closing, Goto, Creating, Merging, Cleaning, Ended, Popped, ownVars,
        threadVars, managerVars, exitVars, popVars, stashVars, userVars, aroundVars, repoVars,
        worldVars, vars
  <1>1. ASSUME NEW item \in Items, UserEdits(item) PROVE Closing' BY <1>1 DEF UserEdits
  <1>2. CASE UserStash BY <1>2 DEF UserStash, Push
  <1>3. CASE UserPop BY <1>3 DEF UserPop
  <1>4. ASSUME NEW a \in Agents, CreateRefused(a) PROVE Closing' BY <1>4 DEF CreateRefused
  <1>5. ASSUME NEW a \in Agents, CreateReuses(a) PROVE Closing' BY <1>5 DEF CreateReuses
  <1>6. ASSUME NEW a \in Agents, CreateBegins(a) PROVE Closing' BY <1>6 DEF CreateBegins
  <1>7. ASSUME NEW a \in Agents, CountStash(a) PROVE Closing' BY <1>7 DEF CountStash
  <1>8. ASSUME NEW a \in Agents, PushStash(a) PROVE Closing' BY <1>8 DEF PushStash, Push
  <1>9. ASSUME NEW a \in Agents, PushFails(a) PROVE Closing' BY <1>9 DEF PushFails
  <1>10. ASSUME NEW a \in Agents, Recount(a) PROVE Closing' BY <1>10 DEF Recount
  <1>11. ASSUME NEW a \in Agents, AddWorktree(a) PROVE Closing' BY <1>11 DEF AddWorktree
  <1>12. ASSUME NEW a \in Agents, AddFails(a) PROVE Closing' BY <1>12 DEF AddFails, Undo
  <1>13. ASSUME NEW a \in Agents, StageFails(a) PROVE Closing' BY <1>13 DEF StageFails, Undo
  <1>14. ASSUME NEW a \in Agents, CreateFailed(a) PROVE Closing' BY <1>14 DEF CreateFailed
  <1>15. ASSUME NEW a \in Agents, CreateSucceeds(a) PROVE Closing' BY <1>15 DEF CreateSucceeds
  <1>16. ASSUME NEW a \in Agents, AgentWorks(a) PROVE Closing' BY <1>16 DEF AgentWorks
  <1>17. ASSUME NEW a \in Agents, Abandon(a) PROVE Closing' BY <1>17 DEF Abandon
  <1>18. ASSUME NEW a \in Agents, CommitAll(a) PROVE Closing' BY <1>18 DEF CommitAll
  <1>19. ASSUME NEW a \in Agents, CreateBackupBranch(a) PROVE Closing'
    BY <1>19 DEF CreateBackupBranch, Known
  <1>20. ASSUME NEW a \in Agents, MergeBack(a) PROVE Closing' BY <1>20 DEF MergeBack, Known
  <1>21. ASSUME NEW a \in Agents, FlowStops(a) PROVE Closing' BY <1>21 DEF FlowStops
  <1>22. ASSUME NEW a \in Agents, MergeReturns(a) PROVE Closing' BY <1>22 DEF MergeReturns
  <1>23. ASSUME NEW a \in Agents, CleanupNothing(a) PROVE Closing' BY <1>23 DEF CleanupNothing
  <1>24. ASSUME NEW a \in Agents, Cleanup(a) PROVE Closing' BY <1>24 DEF Cleanup
  <1>25. ASSUME NEW x \in Actors, PopFind(x) PROVE Closing' BY <1>25 DEF PopFind
  <1>26. ASSUME NEW x \in Actors, PopApply(x) PROVE Closing' BY <1>26 DEF PopApply
  <1>27. ASSUME NEW x \in Actors, PopRefused(x) PROVE Closing' BY <1>27 DEF PopRefused, PopEnds
  <1>28. ASSUME NEW x \in Actors, PopRefind(x) PROVE Closing' BY <1>28 DEF PopRefind
  <1>29. ASSUME NEW x \in Actors, PopDrop(x) PROVE Closing' BY <1>29 DEF PopDrop, PopEnds
  <1>30. ASSUME NEW x \in Actors, RemoveWorktree(x) PROVE Closing' BY <1>30 DEF RemoveWorktree
  <1>31. ASSUME NEW x \in Actors, DeleteBranch(x) PROVE Closing' BY <1>31 DEF DeleteBranch
  <1>32. ASSUME NEW x \in Actors, Settle(x) PROVE Closing' BY <1>32 DEF Settle
  <1>33. CASE CloseManager BY <1>33 DEF CloseManager
  <1>34. CASE BeginPass BY <1>34 DEF BeginPass, MayPass, Remaining
  <1>35. CASE CleanNext
    <2>1. PICK a \in Agents, k \in BOOLEAN :
            /\ <<a, k>> \in todo
            /\ Goto(Exit, "passing", "removing")
            /\ target' = [target EXCEPT ![Exit] = a]
            /\ keeps' = [keeps EXCEPT ![Exit] = k]
            /\ todo' = todo \ {<<a, k>>}
            /\ UNCHANGED <<errs, told, managerVars, passes, popVars, stashVars, userVars, repoVars>>
      BY <1>35, Taken
    <2> QED BY <2>1
  <1>36. CASE CleanupAllEnds BY <1>36 DEF CleanupAllEnds, MayPass, Remaining
  <1>37. CASE UNCHANGED vars BY <1>37
  <1> QED BY <1>1, <1>2, <1>3, <1>4, <1>5, <1>6, <1>7, <1>8, <1>9, <1>10, <1>11, <1>12, <1>13,
             <1>14, <1>15, <1>16, <1>17, <1>18, <1>19, <1>20, <1>21, <1>22, <1>23, <1>24,
             <1>25, <1>26, <1>27, <1>28, <1>29, <1>30, <1>31, <1>32, <1>33, <1>34, <1>35,
             <1>36, <1>37
    DEF Next, CreateStep, FlowStep, PopStep, CleanupStep, ExitStep, Finished

\* Every step keeps OneOwner: what is taken from one owner is handed to one other.
LEMMA NextOneOwner ==
  ASSUME TypeOK, Threads, Closing, OneOwner, [Next]_vars PROVE OneOwner'
  <1> USE Names
    DEF TypeOK, Threads, Closing, OwnedOnce, Unstarted, Goto, Creating, Merging, Cleaning,
        Ended, Popped, ownVars, threadVars, managerVars, exitVars, popVars, stashVars, userVars,
        aroundVars, repoVars, worldVars, vars
  <1> SUFFICES ASSUME NEW b \in Agents PROVE OwnedOnce(b)'
    BY DEF OneOwner
  <1>a. todo' = todo => (Listed(b)' <=> Listed(b)) /\ (ListedTwice(b)' <=> ListedTwice(b))
    BY DEF Listed, ListedTwice
  <1>b. OwnedOnce(b) /\ OwnedOnce(b)' \in BOOLEAN BY DEF OneOwner
  <1>1. ASSUME NEW item \in Items, UserEdits(item) PROVE OwnedOnce(b)'
    BY <1>1, <1>a, <1>b DEF UserEdits
  <1>2. CASE UserStash BY <1>2, <1>a, <1>b DEF UserStash, Push
  <1>3. CASE UserPop BY <1>3, <1>a, <1>b DEF UserPop
  <1>4. ASSUME NEW a \in Agents, CreateRefused(a) PROVE OwnedOnce(b)'
    BY <1>4, <1>a, <1>b DEF CreateRefused
  <1>5. ASSUME NEW a \in Agents, CreateReuses(a) PROVE OwnedOnce(b)'
    BY <1>5, <1>a, <1>b DEF CreateReuses
  <1>6. ASSUME NEW a \in Agents, CreateBegins(a) PROVE OwnedOnce(b)'
    BY <1>6, <1>a, <1>b DEF CreateBegins
  <1>7. ASSUME NEW a \in Agents, CountStash(a) PROVE OwnedOnce(b)'
    BY <1>7, <1>a, <1>b DEF CountStash
  <1>8. ASSUME NEW a \in Agents, PushStash(a) PROVE OwnedOnce(b)'
    BY <1>8, <1>a, <1>b DEF PushStash, Push
  <1>9. ASSUME NEW a \in Agents, PushFails(a) PROVE OwnedOnce(b)'
    BY <1>9, <1>a, <1>b DEF PushFails
  <1>10. ASSUME NEW a \in Agents, Recount(a) PROVE OwnedOnce(b)'
    BY <1>10, <1>a, <1>b DEF Recount
  <1>11. ASSUME NEW a \in Agents, AddWorktree(a) PROVE OwnedOnce(b)'
    BY <1>11, <1>a, <1>b DEF AddWorktree
  <1>12. ASSUME NEW a \in Agents, AddFails(a) PROVE OwnedOnce(b)'
    BY <1>12, <1>a, <1>b DEF AddFails, Undo
  <1>13. ASSUME NEW a \in Agents, StageFails(a) PROVE OwnedOnce(b)'
    BY <1>13, <1>a, <1>b DEF StageFails, Undo
  <1>14. ASSUME NEW a \in Agents, CreateFailed(a) PROVE OwnedOnce(b)'
    BY <1>14, <1>a, <1>b DEF CreateFailed
  <1>15. ASSUME NEW a \in Agents, CreateSucceeds(a) PROVE OwnedOnce(b)'
    BY <1>15, <1>a, <1>b DEF CreateSucceeds
  <1>16. ASSUME NEW a \in Agents, AgentWorks(a) PROVE OwnedOnce(b)'
    BY <1>16, <1>a, <1>b DEF AgentWorks
  <1>17. ASSUME NEW a \in Agents, Abandon(a) PROVE OwnedOnce(b)'
    BY <1>17, <1>a, <1>b DEF Abandon
  <1>18. ASSUME NEW a \in Agents, CommitAll(a) PROVE OwnedOnce(b)'
    BY <1>18, <1>a, <1>b DEF CommitAll
  <1>19. ASSUME NEW a \in Agents, CreateBackupBranch(a) PROVE OwnedOnce(b)'
    BY <1>19, <1>a, <1>b DEF CreateBackupBranch, Known
  <1>20. ASSUME NEW a \in Agents, MergeBack(a) PROVE OwnedOnce(b)'
    BY <1>20, <1>a, <1>b DEF MergeBack, Known
  <1>21. ASSUME NEW a \in Agents, FlowStops(a) PROVE OwnedOnce(b)'
    BY <1>21, <1>a, <1>b DEF FlowStops
  <1>22. ASSUME NEW a \in Agents, MergeReturns(a) PROVE OwnedOnce(b)'
    BY <1>22, <1>a, <1>b DEF MergeReturns
  <1>23. ASSUME NEW a \in Agents, CleanupNothing(a) PROVE OwnedOnce(b)'
    BY <1>23, <1>a, <1>b DEF CleanupNothing
  <1>24. ASSUME NEW a \in Agents, Cleanup(a) PROVE OwnedOnce(b)'
    BY <1>24, <1>a, <1>b DEF Cleanup
  <1>25. ASSUME NEW x \in Actors, PopFind(x) PROVE OwnedOnce(b)'
    BY <1>25, <1>a, <1>b DEF PopFind
  <1>26. ASSUME NEW x \in Actors, PopApply(x) PROVE OwnedOnce(b)'
    BY <1>26, <1>a, <1>b DEF PopApply
  <1>27. ASSUME NEW x \in Actors, PopRefused(x) PROVE OwnedOnce(b)'
    BY <1>27, <1>a, <1>b DEF PopRefused, PopEnds
  <1>28. ASSUME NEW x \in Actors, PopRefind(x) PROVE OwnedOnce(b)'
    BY <1>28, <1>a, <1>b DEF PopRefind
  <1>29. ASSUME NEW x \in Actors, PopDrop(x) PROVE OwnedOnce(b)'
    BY <1>29, <1>a, <1>b DEF PopDrop, PopEnds
  <1>30. ASSUME NEW x \in Actors, RemoveWorktree(x) PROVE OwnedOnce(b)'
    BY <1>30, <1>a, <1>b DEF RemoveWorktree
  <1>31. ASSUME NEW x \in Actors, DeleteBranch(x) PROVE OwnedOnce(b)'
    BY <1>31, <1>a, <1>b DEF DeleteBranch
  <1>32. ASSUME NEW x \in Actors, Settle(x) PROVE OwnedOnce(b)' BY <1>32, <1>a, <1>b DEF Settle
  <1>33. CASE CloseManager BY <1>33, <1>a, <1>b DEF CloseManager
  <1>34. CASE BeginPass
    <2>1. Listed(b)' => b \in Remaining BY <1>34, Snapshot DEF Listed, Remaining
    <2>2. ~ListedTwice(b)' BY <1>34, Snapshot DEF ListedTwice
    <2> QED BY <1>34, <2>1, <2>2, <1>b DEF BeginPass, MayPass, Remaining
  <1>35. CASE CleanNext
    <2>1. PICK a \in Agents, k \in BOOLEAN :
            /\ <<a, k>> \in todo
            /\ Goto(Exit, "passing", "removing")
            /\ target' = [target EXCEPT ![Exit] = a]
            /\ keeps' = [keeps EXCEPT ![Exit] = k]
            /\ todo' = todo \ {<<a, k>>}
            /\ UNCHANGED <<errs, told, managerVars, passes, popVars, stashVars, userVars, repoVars>>
      BY <1>35, Taken
    <2>2. Listed(b)' => Listed(b) BY <2>1 DEF Listed
    <2>3. ListedTwice(b)' => ListedTwice(b) BY <2>1 DEF ListedTwice
    <2>4. a = b => Listed(b) BY <2>1 DEF Listed
    <2>5. a = b => ~Listed(b)'
      BY <2>1, <1>b DEF Listed, ListedTwice
    <2> QED BY <2>1, <2>2, <2>3, <2>4, <2>5, <1>b
  <1>36. CASE CleanupAllEnds BY <1>36, <1>a, <1>b DEF CleanupAllEnds, MayPass, Remaining
  <1>37. CASE UNCHANGED vars BY <1>37, <1>a, <1>b
  <1> QED BY <1>1, <1>2, <1>3, <1>4, <1>5, <1>6, <1>7, <1>8, <1>9, <1>10, <1>11, <1>12, <1>13,
             <1>14, <1>15, <1>16, <1>17, <1>18, <1>19, <1>20, <1>21, <1>22, <1>23, <1>24,
             <1>25, <1>26, <1>27, <1>28, <1>29, <1>30, <1>31, <1>32, <1>33, <1>34, <1>35,
             <1>36, <1>37
    DEF Next, CreateStep, FlowStep, PopStep, CleanupStep, ExitStep, Finished

\* Every step keeps Owned: a worktree is with its owner until it is gone.
LEMMA NextOwned ==
  ASSUME TypeOK, Threads, Closing, OneOwner, Owned, [Next]_vars PROVE Owned'
  <1> USE Names
    DEF TypeOK, Threads, OwnedOnce, HasOwner, Unstarted, Goto, Creating, Merging, Cleaning,
        Ended, Popped, ownVars, threadVars, managerVars, exitVars, popVars, stashVars, userVars,
        aroundVars, repoVars, worldVars, vars
  <1> SUFFICES ASSUME NEW b \in attached' PROVE HasOwner(b)'
    BY DEF Owned
  <1>a. todo' = todo /\ b \in Agents => (Listed(b)' <=> Listed(b))
    BY DEF Listed
  <1>b. b \in attached => b \in Agents /\ OwnedOnce(b) /\ HasOwner(b) BY DEF OneOwner, Owned
  <1>1. ASSUME NEW item \in Items, UserEdits(item) PROVE HasOwner(b)'
    BY <1>1, <1>a, <1>b DEF UserEdits
  <1>2. CASE UserStash BY <1>2, <1>a, <1>b DEF UserStash, Push
  <1>3. CASE UserPop BY <1>3, <1>a, <1>b DEF UserPop
  <1>4. ASSUME NEW a \in Agents, CreateRefused(a) PROVE HasOwner(b)'
    BY <1>4, <1>a, <1>b DEF CreateRefused
  <1>5. ASSUME NEW a \in Agents, CreateReuses(a) PROVE HasOwner(b)'
    BY <1>5, <1>a, <1>b DEF CreateReuses
  <1>6. ASSUME NEW a \in Agents, CreateBegins(a) PROVE HasOwner(b)'
    BY <1>6, <1>a, <1>b DEF CreateBegins
  <1>7. ASSUME NEW a \in Agents, CountStash(a) PROVE HasOwner(b)'
    BY <1>7, <1>a, <1>b DEF CountStash
  <1>8. ASSUME NEW a \in Agents, PushStash(a) PROVE HasOwner(b)'
    BY <1>8, <1>a, <1>b DEF PushStash, Push
  <1>9. ASSUME NEW a \in Agents, PushFails(a) PROVE HasOwner(b)'
    BY <1>9, <1>a, <1>b DEF PushFails
  <1>10. ASSUME NEW a \in Agents, Recount(a) PROVE HasOwner(b)' BY <1>10, <1>a, <1>b DEF Recount
  <1>11. ASSUME NEW a \in Agents, AddWorktree(a) PROVE HasOwner(b)'
    BY <1>11, <1>a, <1>b DEF AddWorktree
  <1>12. ASSUME NEW a \in Agents, AddFails(a) PROVE HasOwner(b)'
    BY <1>12, <1>a, <1>b DEF AddFails, Undo
  <1>13. ASSUME NEW a \in Agents, StageFails(a) PROVE HasOwner(b)'
    BY <1>13, <1>a, <1>b DEF StageFails, Undo
  <1>14. ASSUME NEW a \in Agents, CreateFailed(a) PROVE HasOwner(b)'
    BY <1>14, <1>a, <1>b DEF CreateFailed
  <1>15. ASSUME NEW a \in Agents, CreateSucceeds(a) PROVE HasOwner(b)'
    BY <1>15, <1>a, <1>b DEF CreateSucceeds
  <1>16. ASSUME NEW a \in Agents, AgentWorks(a) PROVE HasOwner(b)'
    BY <1>16, <1>a, <1>b DEF AgentWorks
  <1>17. ASSUME NEW a \in Agents, Abandon(a) PROVE HasOwner(b)' BY <1>17, <1>a, <1>b DEF Abandon
  <1>18. ASSUME NEW a \in Agents, CommitAll(a) PROVE HasOwner(b)'
    BY <1>18, <1>a, <1>b DEF CommitAll
  <1>19. ASSUME NEW a \in Agents, CreateBackupBranch(a) PROVE HasOwner(b)'
    BY <1>19, <1>a, <1>b DEF CreateBackupBranch, Known
  <1>20. ASSUME NEW a \in Agents, MergeBack(a) PROVE HasOwner(b)'
    BY <1>20, <1>a, <1>b DEF MergeBack, Known
  <1>21. ASSUME NEW a \in Agents, FlowStops(a) PROVE HasOwner(b)'
    BY <1>21, <1>a, <1>b DEF FlowStops
  <1>22. ASSUME NEW a \in Agents, MergeReturns(a) PROVE HasOwner(b)'
    BY <1>22, <1>a, <1>b DEF MergeReturns
  <1>23. ASSUME NEW a \in Agents, CleanupNothing(a) PROVE HasOwner(b)'
    BY <1>23, <1>a, <1>b DEF CleanupNothing
  <1>24. ASSUME NEW a \in Agents, Cleanup(a) PROVE HasOwner(b)' BY <1>24, <1>a, <1>b DEF Cleanup
  <1>25. ASSUME NEW x \in Actors, PopFind(x) PROVE HasOwner(b)' BY <1>25, <1>a, <1>b DEF PopFind
  <1>26. ASSUME NEW x \in Actors, PopApply(x) PROVE HasOwner(b)'
    BY <1>26, <1>a, <1>b DEF PopApply
  <1>27. ASSUME NEW x \in Actors, PopRefused(x) PROVE HasOwner(b)'
    BY <1>27, <1>a, <1>b DEF PopRefused, PopEnds
  <1>28. ASSUME NEW x \in Actors, PopRefind(x) PROVE HasOwner(b)'
    BY <1>28, <1>a, <1>b DEF PopRefind
  <1>29. ASSUME NEW x \in Actors, PopDrop(x) PROVE HasOwner(b)'
    BY <1>29, <1>a, <1>b DEF PopDrop, PopEnds
  <1>30. ASSUME NEW x \in Actors, RemoveWorktree(x) PROVE HasOwner(b)'
    BY <1>30, <1>a, <1>b DEF RemoveWorktree
  <1>31. ASSUME NEW x \in Actors, DeleteBranch(x) PROVE HasOwner(b)'
    BY <1>31, <1>a, <1>b DEF DeleteBranch
  <1>32. ASSUME NEW x \in Actors, Settle(x) PROVE HasOwner(b)' BY <1>32, <1>a, <1>b DEF Settle
  <1>33. CASE CloseManager BY <1>33, <1>a, <1>b DEF CloseManager
  <1>34. CASE BeginPass
    <2>2. b \in Remaining => Listed(b)'
      <3> SUFFICES ASSUME b \in Remaining PROVE Listed(b)' OBVIOUS
      <3>1. b \in Agents /\ active[b] \in {"stashed", "plain"} BY DEF Remaining
      <3> QED BY <1>34, <3>1, Snapshot DEF Listed
    <2>3. ~Listed(b) BY <1>34 DEF BeginPass, MayPass, Listed, Closing
    <2> QED BY <1>34, <2>2, <2>3, <1>b DEF BeginPass, MayPass, Remaining
  <1>35. CASE CleanNext
    <2>1. PICK a \in Agents, k \in BOOLEAN :
            /\ <<a, k>> \in todo
            /\ Goto(Exit, "passing", "removing")
            /\ target' = [target EXCEPT ![Exit] = a]
            /\ keeps' = [keeps EXCEPT ![Exit] = k]
            /\ todo' = todo \ {<<a, k>>}
            /\ UNCHANGED <<errs, told, managerVars, passes, popVars, stashVars, userVars, repoVars>>
      BY <1>35, Taken
    <2>2. a # b /\ b \in Agents => (Listed(b)' <=> Listed(b)) BY <2>1 DEF Listed
    <2> QED BY <2>1, <2>2, <1>b
  <1>36. CASE CleanupAllEnds BY <1>36, <1>a, <1>b DEF CleanupAllEnds, MayPass, Remaining
  <1>37. CASE UNCHANGED vars BY <1>37, <1>a, <1>b
  <1> QED BY <1>1, <1>2, <1>3, <1>4, <1>5, <1>6, <1>7, <1>8, <1>9, <1>10, <1>11, <1>12, <1>13,
             <1>14, <1>15, <1>16, <1>17, <1>18, <1>19, <1>20, <1>21, <1>22, <1>23, <1>24,
             <1>25, <1>26, <1>27, <1>28, <1>29, <1>30, <1>31, <1>32, <1>33, <1>34, <1>35,
             <1>36, <1>37
    DEF Next, CreateStep, FlowStep, PopStep, CleanupStep, ExitStep, Finished

\* Every step keeps WorkSafe.
LEMMA NextWorkSafe ==
  ASSUME TypeOK, Threads, OneOwner, WorkSafe, [Next]_vars PROVE WorkSafe'
  <1> USE Names
    DEF TypeOK, Threads, OneOwner, OwnedOnce, WorkSafe, Unstarted, Goto, Creating, Merging,
        Cleaning, Ended, Popped, ownVars, threadVars, managerVars, exitVars, popVars, stashVars,
        userVars, aroundVars, repoVars, worldVars, vars
  <1>1. ASSUME NEW item \in Items, UserEdits(item) PROVE WorkSafe' BY <1>1 DEF UserEdits
  <1>2. CASE UserStash BY <1>2 DEF UserStash, Push
  <1>3. CASE UserPop BY <1>3 DEF UserPop
  <1>4. ASSUME NEW a \in Agents, CreateRefused(a) PROVE WorkSafe' BY <1>4 DEF CreateRefused
  <1>5. ASSUME NEW a \in Agents, CreateReuses(a) PROVE WorkSafe' BY <1>5 DEF CreateReuses
  <1>6. ASSUME NEW a \in Agents, CreateBegins(a) PROVE WorkSafe' BY <1>6 DEF CreateBegins
  <1>7. ASSUME NEW a \in Agents, CountStash(a) PROVE WorkSafe' BY <1>7 DEF CountStash
  <1>8. ASSUME NEW a \in Agents, PushStash(a) PROVE WorkSafe' BY <1>8 DEF PushStash, Push
  <1>9. ASSUME NEW a \in Agents, PushFails(a) PROVE WorkSafe' BY <1>9 DEF PushFails
  <1>10. ASSUME NEW a \in Agents, Recount(a) PROVE WorkSafe' BY <1>10 DEF Recount
  <1>11. ASSUME NEW a \in Agents, AddWorktree(a) PROVE WorkSafe' BY <1>11 DEF AddWorktree
  <1>12. ASSUME NEW a \in Agents, AddFails(a) PROVE WorkSafe' BY <1>12 DEF AddFails, Undo
  <1>13. ASSUME NEW a \in Agents, StageFails(a) PROVE WorkSafe' BY <1>13 DEF StageFails, Undo
  <1>14. ASSUME NEW a \in Agents, CreateFailed(a) PROVE WorkSafe' BY <1>14 DEF CreateFailed
  <1>15. ASSUME NEW a \in Agents, CreateSucceeds(a) PROVE WorkSafe' BY <1>15 DEF CreateSucceeds
  <1>16. ASSUME NEW a \in Agents, AgentWorks(a) PROVE WorkSafe' BY <1>16 DEF AgentWorks
  <1>17. ASSUME NEW a \in Agents, Abandon(a) PROVE WorkSafe' BY <1>17 DEF Abandon
  <1>18. ASSUME NEW a \in Agents, CommitAll(a) PROVE WorkSafe' BY <1>18 DEF CommitAll
  <1>19. ASSUME NEW a \in Agents, CreateBackupBranch(a) PROVE WorkSafe'
    BY <1>19 DEF CreateBackupBranch, Known
  <1>20. ASSUME NEW a \in Agents, MergeBack(a) PROVE WorkSafe' BY <1>20 DEF MergeBack, Known
  <1>21. ASSUME NEW a \in Agents, FlowStops(a) PROVE WorkSafe' BY <1>21 DEF FlowStops
  <1>22. ASSUME NEW a \in Agents, MergeReturns(a) PROVE WorkSafe' BY <1>22 DEF MergeReturns
  <1>23. ASSUME NEW a \in Agents, CleanupNothing(a) PROVE WorkSafe' BY <1>23 DEF CleanupNothing
  <1>24. ASSUME NEW a \in Agents, Cleanup(a) PROVE WorkSafe' BY <1>24 DEF Cleanup
  <1>25. ASSUME NEW x \in Actors, PopFind(x) PROVE WorkSafe' BY <1>25 DEF PopFind
  <1>26. ASSUME NEW x \in Actors, PopApply(x) PROVE WorkSafe' BY <1>26 DEF PopApply
  <1>27. ASSUME NEW x \in Actors, PopRefused(x) PROVE WorkSafe' BY <1>27 DEF PopRefused, PopEnds
  <1>28. ASSUME NEW x \in Actors, PopRefind(x) PROVE WorkSafe' BY <1>28 DEF PopRefind
  <1>29. ASSUME NEW x \in Actors, PopDrop(x) PROVE WorkSafe' BY <1>29 DEF PopDrop, PopEnds
  <1>30. ASSUME NEW x \in Actors, RemoveWorktree(x) PROVE WorkSafe' BY <1>30 DEF RemoveWorktree
  <1>31. ASSUME NEW x \in Actors, DeleteBranch(x) PROVE WorkSafe' BY <1>31 DEF DeleteBranch
  <1>32. ASSUME NEW x \in Actors, Settle(x) PROVE WorkSafe' BY <1>32 DEF Settle
  <1>33. CASE CloseManager BY <1>33 DEF CloseManager
  <1>34. CASE BeginPass BY <1>34 DEF BeginPass, MayPass, Remaining
  <1>35. CASE CleanNext
    <2>1. PICK a \in Agents, k \in BOOLEAN :
            /\ <<a, k>> \in todo
            /\ Goto(Exit, "passing", "removing")
            /\ target' = [target EXCEPT ![Exit] = a]
            /\ keeps' = [keeps EXCEPT ![Exit] = k]
            /\ todo' = todo \ {<<a, k>>}
            /\ UNCHANGED <<errs, told, managerVars, passes, popVars, stashVars, userVars, repoVars>>
      BY <1>35, Taken
    <2> QED BY <2>1
  <1>36. CASE CleanupAllEnds BY <1>36 DEF CleanupAllEnds, MayPass, Remaining
  <1>37. CASE UNCHANGED vars BY <1>37
  <1> QED BY <1>1, <1>2, <1>3, <1>4, <1>5, <1>6, <1>7, <1>8, <1>9, <1>10, <1>11, <1>12, <1>13,
             <1>14, <1>15, <1>16, <1>17, <1>18, <1>19, <1>20, <1>21, <1>22, <1>23, <1>24,
             <1>25, <1>26, <1>27, <1>28, <1>29, <1>30, <1>31, <1>32, <1>33, <1>34, <1>35,
             <1>36, <1>37
    DEF Next, CreateStep, FlowStep, PopStep, CleanupStep, ExitStep, Finished

\* Noting an error keeps the type of errs.
LEMMA ErrorNoted ==
  ASSUME errs \in [Actors -> BOOLEAN], NEW x \in Actors,
         errs' = errs \/ errs' = [errs EXCEPT ![x] = TRUE]
  PROVE  errs' \in [Actors -> BOOLEAN]
  OBVIOUS

\* Every step keeps the types.
LEMMA NextTypes ==
  ASSUME TypeOK, Threads, OneOwner, Owned, [Next]_vars PROVE TypeOK'
  <1> USE Names
    DEF TypeOK, Threads, Goto, Creating, Merging, Cleaning, Ended, Popped, ownVars, threadVars,
        managerVars, exitVars, popVars, stashVars, userVars, aroundVars, repoVars, worldVars,
        vars
  <1>1. ASSUME NEW item \in Items, UserEdits(item) PROVE TypeOK' BY <1>1 DEF UserEdits
  <1>2. CASE UserStash
    <2>1. stash' \in Seq(Entry)
      BY <1>2, PushShifts DEF UserStash, Holders
    <2>2. tree' = {} /\ userLeft' \in 0 .. UserStashes
      BY <1>2, WorktreeAssumption DEF UserStash
    <2> QED BY <1>2, <2>1, <2>2 DEF UserStash, Entry
  <1>3. CASE UserPop
    <2>1. stash' \in Seq(Entry) /\ Head(stash) \in Entry
      BY <1>3, PopShifts DEF UserPop
    <2>2. userLeft' \in 0 .. UserStashes BY <1>3, WorktreeAssumption DEF UserPop
    <2>3. tree' \subseteq Items BY <1>3, <2>1 DEF UserPop, Entry
    <2> QED BY <1>3, <2>1, <2>2, <2>3 DEF UserPop, Entry
  <1>4. ASSUME NEW a \in Agents, CreateRefused(a) PROVE TypeOK' BY <1>4 DEF CreateRefused
  <1>5. ASSUME NEW a \in Agents, CreateReuses(a) PROVE TypeOK' BY <1>5 DEF CreateReuses
  <1>6. ASSUME NEW a \in Agents, CreateBegins(a) PROVE TypeOK' BY <1>6 DEF CreateBegins
  <1>7. ASSUME NEW a \in Agents, CountStash(a) PROVE TypeOK' BY <1>7 DEF CountStash
  <1>8. ASSUME NEW a \in Agents, PushStash(a) PROVE TypeOK'
    <2>1. CASE tree = {} BY <1>8, <2>1 DEF PushStash
    <2>2. CASE tree # {}
      <3>1. stash' \in Seq(Entry)
        BY <1>8, <2>2, PushShifts DEF PushStash, Holders
      <3> QED BY <1>8, <2>2, <3>1 DEF PushStash, Entry
    <2> QED BY <2>1, <2>2
  <1>9. ASSUME NEW a \in Agents, PushFails(a) PROVE TypeOK' BY <1>9 DEF PushFails
  <1>10. ASSUME NEW a \in Agents, Recount(a) PROVE TypeOK' BY <1>10 DEF Recount
  <1>11. ASSUME NEW a \in Agents, AddWorktree(a) PROVE TypeOK' BY <1>11 DEF AddWorktree
  <1>12. ASSUME NEW a \in Agents, AddFails(a) PROVE TypeOK' BY <1>12 DEF AddFails, Undo
  <1>13. ASSUME NEW a \in Agents, StageFails(a) PROVE TypeOK' BY <1>13 DEF StageFails, Undo
  <1>14. ASSUME NEW a \in Agents, CreateFailed(a) PROVE TypeOK' BY <1>14 DEF CreateFailed
  <1>15. ASSUME NEW a \in Agents, CreateSucceeds(a) PROVE TypeOK' BY <1>15 DEF CreateSucceeds
  <1>16. ASSUME NEW a \in Agents, AgentWorks(a) PROVE TypeOK' BY <1>16 DEF AgentWorks
  <1>17. ASSUME NEW a \in Agents, Abandon(a) PROVE TypeOK' BY <1>17 DEF Abandon
  <1>18. ASSUME NEW a \in Agents, CommitAll(a) PROVE TypeOK' BY <1>18 DEF CommitAll
  <1>19. ASSUME NEW a \in Agents, CreateBackupBranch(a) PROVE TypeOK'
    BY <1>19 DEF CreateBackupBranch, Known
  <1>20. ASSUME NEW a \in Agents, MergeBack(a) PROVE TypeOK' BY <1>20 DEF MergeBack, Known
  <1>21. ASSUME NEW a \in Agents, FlowStops(a) PROVE TypeOK' BY <1>21 DEF FlowStops
  <1>22. ASSUME NEW a \in Agents, MergeReturns(a) PROVE TypeOK'
    BY SMTT(30), <1>22 DEF MergeReturns
  <1>23. ASSUME NEW a \in Agents, CleanupNothing(a) PROVE TypeOK' BY <1>23 DEF CleanupNothing
  <1>24. ASSUME NEW a \in Agents, Cleanup(a) PROVE TypeOK' BY <1>24 DEF Cleanup
  <1>25. ASSUME NEW x \in Actors, PopFind(x) PROVE TypeOK'
    <2> DEFINE at == Position(target[x])
    <2>1. at \in Nat /\ (at # 0 => stash[at].items \subseteq Items)
      <3>1. at \in Nat /\ (at # 0 => at \in DOMAIN stash) BY PositionIsRight
      <3>2. \A i \in DOMAIN stash : stash[i] \in Entry BY StashTyped
      <3> HIDE DEF at
      <3> QED BY <3>1, <3>2 DEF Entry
    <2>2. /\ slot' = [slot EXCEPT ![x] = at]
          /\ object' = [object EXCEPT ![x] = IF at = 0 THEN {} ELSE stash[at].items]
          /\ pop' = [pop EXCEPT ![x] = IF at = 0 THEN "gone" ELSE "apply"]
          /\ UNCHANGED <<threadVars, managerVars, exitVars, stashVars, userVars, repoVars>>
      BY <1>25 DEF PopFind
    <2> HIDE DEF at
    <2> QED BY <2>1, <2>2
  <1>26. ASSUME NEW x \in Actors, PopApply(x) PROVE TypeOK' BY <1>26 DEF PopApply
  <1>27. ASSUME NEW x \in Actors, PopRefused(x) PROVE TypeOK' BY <1>27 DEF PopRefused, PopEnds
  <1>28. ASSUME NEW x \in Actors, PopRefind(x) PROVE TypeOK'
    <2>1. Position(target[x]) \in Nat BY PositionIsRight
    <2> QED BY <1>28, <2>1 DEF PopRefind
  <1>29. ASSUME NEW x \in Actors, PopDrop(x) PROVE TypeOK'
    <2>1. stash' \in Seq(Entry)
      <3>1. CASE stash' = stash BY <3>1, StashTyped
      <3>2. CASE slot[x] \in DOMAIN stash /\ stash' = RemoveAt(stash, slot[x])
        BY <3>2, DropShifts
      <3> QED BY <1>29, <3>1, <3>2, DropOutcome
    <2> QED BY <1>29, <2>1 DEF PopDrop, PopEnds, Entry
  <1>30. ASSUME NEW x \in Actors, RemoveWorktree(x) PROVE TypeOK'
    <2>1. target[x] \in Agents BY <1>30, TargetIsAgent DEF RemoveWorktree
    <2>2. work' = [work EXCEPT ![target[x]] = "none"] /\ attached' \subseteq attached
      BY <1>30 DEF RemoveWorktree
    <2>3. work' \in [Agents -> {"none", "old", "dirty", "tip", "saved", "merged"}]
      BY <2>1, <2>2
    <2>4. errs' \in [Actors -> BOOLEAN]
      <3>1. errs' = errs \/ errs' = [errs EXCEPT ![x] = TRUE] BY <1>30 DEF RemoveWorktree
      <3>2. errs \in [Actors -> BOOLEAN] OBVIOUS
      <3> QED BY <3>1, <3>2, ErrorNoted
    <2> QED BY <1>30, <2>2, <2>3, <2>4 DEF RemoveWorktree
  <1>31. ASSUME NEW x \in Actors, DeleteBranch(x) PROVE TypeOK'
    <2>1. target[x] \in Agents /\ target[x] \notin attached
      <3>1. target[x] \in Agents BY <1>31, TargetIsAgent DEF DeleteBranch
      <3>2. OwnedOnce(target[x]) /\ (target[x] \in attached => HasOwner(target[x]))
        BY <3>1 DEF OneOwner, Owned
      <3> QED BY <1>31, <3>1, <3>2 DEF DeleteBranch, OwnedOnce, HasOwner, Unstarted
    <2>2. errs' \in [Actors -> BOOLEAN]
      <3>1. errs' = errs \/ errs' = [errs EXCEPT ![x] = TRUE] BY <1>31 DEF DeleteBranch
      <3>2. errs \in [Actors -> BOOLEAN] OBVIOUS
      <3> QED BY <3>1, <3>2, ErrorNoted
    <2>3. attached' \subseteq ref' /\ ref' \subseteq Agents BY <1>31, <2>1 DEF DeleteBranch
    <2> QED BY <1>31, <2>2, <2>3 DEF DeleteBranch
  <1>32. ASSUME NEW x \in Actors, Settle(x) PROVE TypeOK' BY <1>32 DEF Settle
  <1>33. CASE CloseManager BY <1>33 DEF CloseManager
  <1>34. CASE BeginPass
    <2>1. todo' \subseteq Agents \X BOOLEAN
      <3> SUFFICES ASSUME NEW e \in todo' PROVE e \in Agents \X BOOLEAN OBVIOUS
      <3>1. PICK a \in Agents : e = <<a, active[a] = "stashed">>
        BY <1>34 DEF BeginPass, Remaining
      <3> DEFINE k == active[a] = "stashed"
      <3>2. k \in BOOLEAN OBVIOUS
      <3>3. e = <<a, k>> BY <3>1
      <3> HIDE DEF k
      <3> QED BY <3>2, <3>3
    <2>2. passes' \in 0 .. MaxPasses BY <1>34 DEF BeginPass, MaxPasses
    <2>3. active' \in [Agents -> {"none", "plain", "stashed"}] BY <1>34 DEF BeginPass
    <2> QED BY <1>34, <2>1, <2>2, <2>3 DEF BeginPass
  <1>35. CASE CleanNext
    <2>1. PICK a \in Agents, k \in BOOLEAN :
            /\ <<a, k>> \in todo
            /\ Goto(Exit, "passing", "removing")
            /\ target' = [target EXCEPT ![Exit] = a]
            /\ keeps' = [keeps EXCEPT ![Exit] = k]
            /\ todo' = todo \ {<<a, k>>}
            /\ UNCHANGED <<errs, told, managerVars, passes, popVars, stashVars, userVars, repoVars>>
      BY <1>35, Taken
    <2> QED BY <2>1
  <1>36. CASE CleanupAllEnds
    <2>1. passes' \in 0 .. MaxPasses BY <1>36 DEF CleanupAllEnds, MaxPasses
    <2> QED BY <1>36, <2>1 DEF CleanupAllEnds
  <1>37. CASE UNCHANGED vars BY <1>37
  <1> QED BY <1>1, <1>2, <1>3, <1>4, <1>5, <1>6, <1>7, <1>8, <1>9, <1>10, <1>11, <1>12, <1>13,
             <1>14, <1>15, <1>16, <1>17, <1>18, <1>19, <1>20, <1>21, <1>22, <1>23, <1>24,
             <1>25, <1>26, <1>27, <1>28, <1>29, <1>30, <1>31, <1>32, <1>33, <1>34, <1>35,
             <1>36, <1>37
    DEF Next, CreateStep, FlowStep, PopStep, CleanupStep, ExitStep, Finished

\* Every step keeps OneEntryEach: only the push of an agent adds an entry of its own.
LEMMA NextOneEntryEach ==
  ASSUME TypeOK, Threads, OneOwner, OneEntryEach, [Next]_vars PROVE OneEntryEach'
  <1> USE Names
    DEF TypeOK, Threads, OneEntryEach, Goto, Creating, Merging, Cleaning, Ended, Popped,
        ownVars, threadVars, managerVars, exitVars, popVars, stashVars, userVars, aroundVars,
        repoVars, worldVars, vars
  <1>a. stash' = stash => (Unique' <=> Unique) /\ \A b \in Agents : HasEntry(b)' <=> HasEntry(b)
    BY DEF Unique, HasEntry
  <1>1. ASSUME NEW item \in Items, UserEdits(item) PROVE OneEntryEach'
    BY <1>1, <1>a DEF UserEdits
  <1>2. CASE UserStash
    <2>1. Push(User) /\ User \in Holders BY <1>2 DEF UserStash, Holders
    <2>2. Unique' /\ \A b \in Agents : HasEntry(b)' <=> (HasEntry(b) \/ b = User)
      BY <2>1, PushKeepsUnique
    <2> QED BY <1>2, <2>2 DEF UserStash
  <1>3. CASE UserPop
    BY <1>3, PopKeepsUnique DEF UserPop
  <1>4. ASSUME NEW a \in Agents, CreateRefused(a) PROVE OneEntryEach'
    BY <1>4, <1>a DEF CreateRefused
  <1>5. ASSUME NEW a \in Agents, CreateReuses(a) PROVE OneEntryEach'
    BY <1>5, <1>a DEF CreateReuses
  <1>6. ASSUME NEW a \in Agents, CreateBegins(a) PROVE OneEntryEach'
    BY <1>6, <1>a DEF CreateBegins
  <1>7. ASSUME NEW a \in Agents, CountStash(a) PROVE OneEntryEach' BY <1>7, <1>a DEF CountStash
  <1>8. ASSUME NEW a \in Agents, PushStash(a) PROVE OneEntryEach'
    <2>1. CASE tree = {} BY <1>8, <1>a, <2>1 DEF PushStash
    <2>2. CASE tree # {}
      <3>1. Push(a) /\ a \in Holders /\ ~HasEntry(a) BY <1>8, <2>2 DEF PushStash, Holders
      <3>2. Unique' /\ \A b \in Agents : HasEntry(b)' <=> (HasEntry(b) \/ b = a)
        BY <3>1, PushKeepsUnique
      <3> QED BY <1>8, <3>2 DEF PushStash
    <2> QED BY <2>1, <2>2
  <1>9. ASSUME NEW a \in Agents, PushFails(a) PROVE OneEntryEach' BY <1>9, <1>a DEF PushFails
  <1>10. ASSUME NEW a \in Agents, Recount(a) PROVE OneEntryEach' BY <1>10, <1>a DEF Recount
  <1>11. ASSUME NEW a \in Agents, AddWorktree(a) PROVE OneEntryEach'
    BY <1>11, <1>a DEF AddWorktree
  <1>12. ASSUME NEW a \in Agents, AddFails(a) PROVE OneEntryEach'
    BY <1>12, <1>a DEF AddFails, Undo
  <1>13. ASSUME NEW a \in Agents, StageFails(a) PROVE OneEntryEach'
    BY <1>13, <1>a DEF StageFails, Undo
  <1>14. ASSUME NEW a \in Agents, CreateFailed(a) PROVE OneEntryEach'
    BY <1>14, <1>a DEF CreateFailed
  <1>15. ASSUME NEW a \in Agents, CreateSucceeds(a) PROVE OneEntryEach'
    BY <1>15, <1>a DEF CreateSucceeds
  <1>16. ASSUME NEW a \in Agents, AgentWorks(a) PROVE OneEntryEach'
    BY <1>16, <1>a DEF AgentWorks
  <1>17. ASSUME NEW a \in Agents, Abandon(a) PROVE OneEntryEach' BY <1>17, <1>a DEF Abandon
  <1>18. ASSUME NEW a \in Agents, CommitAll(a) PROVE OneEntryEach' BY <1>18, <1>a DEF CommitAll
  <1>19. ASSUME NEW a \in Agents, CreateBackupBranch(a) PROVE OneEntryEach'
    BY <1>19, <1>a DEF CreateBackupBranch, Known
  <1>20. ASSUME NEW a \in Agents, MergeBack(a) PROVE OneEntryEach'
    BY <1>20, <1>a DEF MergeBack, Known
  <1>21. ASSUME NEW a \in Agents, FlowStops(a) PROVE OneEntryEach' BY <1>21, <1>a DEF FlowStops
  <1>22. ASSUME NEW a \in Agents, MergeReturns(a) PROVE OneEntryEach'
    BY <1>22, <1>a DEF MergeReturns
  <1>23. ASSUME NEW a \in Agents, CleanupNothing(a) PROVE OneEntryEach'
    BY <1>23, <1>a DEF CleanupNothing
  <1>24. ASSUME NEW a \in Agents, Cleanup(a) PROVE OneEntryEach' BY <1>24, <1>a DEF Cleanup
  <1>25. ASSUME NEW x \in Actors, PopFind(x) PROVE OneEntryEach' BY <1>25, <1>a DEF PopFind
  <1>26. ASSUME NEW x \in Actors, PopApply(x) PROVE OneEntryEach' BY <1>26, <1>a DEF PopApply
  <1>27. ASSUME NEW x \in Actors, PopRefused(x) PROVE OneEntryEach'
    BY <1>27, <1>a DEF PopRefused, PopEnds
  <1>28. ASSUME NEW x \in Actors, PopRefind(x) PROVE OneEntryEach' BY <1>28, <1>a DEF PopRefind
  <1>29. ASSUME NEW x \in Actors, PopDrop(x) PROVE OneEntryEach'
    <2>1. CASE stash' = stash BY <1>29, <2>1, <1>a DEF PopDrop
    <2>2. CASE stash' # stash
      <3>1. slot[x] \in DOMAIN stash /\ stash' = RemoveAt(stash, slot[x])
        BY <1>29, <2>2 DEF PopDrop
      <3>2. Unique' /\ \A b \in Agents : HasEntry(b)' => HasEntry(b)
        BY <3>1, DropKeepsUnique
      <3>3. \A b \in Agents : pc'[b] \in {"idle", "counting", "pushing"} => pc'[b] = pc[b]
        BY <1>29 DEF PopDrop, PopEnds
      <3> QED BY <3>2, <3>3
    <2> QED BY <2>1, <2>2
  <1>30. ASSUME NEW x \in Actors, RemoveWorktree(x) PROVE OneEntryEach'
    BY <1>30, <1>a DEF RemoveWorktree
  <1>31. ASSUME NEW x \in Actors, DeleteBranch(x) PROVE OneEntryEach'
    BY <1>31, <1>a DEF DeleteBranch
  <1>32. ASSUME NEW x \in Actors, Settle(x) PROVE OneEntryEach' BY <1>32, <1>a DEF Settle
  <1>33. CASE CloseManager BY <1>33, <1>a DEF CloseManager
  <1>34. CASE BeginPass BY <1>34, <1>a DEF BeginPass, MayPass, Remaining
  <1>35. CASE CleanNext
    <2>1. PICK a \in Agents, k \in BOOLEAN :
            /\ <<a, k>> \in todo
            /\ Goto(Exit, "passing", "removing")
            /\ target' = [target EXCEPT ![Exit] = a]
            /\ keeps' = [keeps EXCEPT ![Exit] = k]
            /\ todo' = todo \ {<<a, k>>}
            /\ UNCHANGED <<errs, told, managerVars, passes, popVars, stashVars, userVars, repoVars>>
      BY <1>35, Taken
    <2> QED BY <2>1, <1>a
  <1>36. CASE CleanupAllEnds BY <1>36, <1>a DEF CleanupAllEnds, MayPass, Remaining
  <1>37. CASE UNCHANGED vars BY <1>37, <1>a
  <1> QED BY <1>1, <1>2, <1>3, <1>4, <1>5, <1>6, <1>7, <1>8, <1>9, <1>10, <1>11, <1>12, <1>13,
             <1>14, <1>15, <1>16, <1>17, <1>18, <1>19, <1>20, <1>21, <1>22, <1>23, <1>24,
             <1>25, <1>26, <1>27, <1>28, <1>29, <1>30, <1>31, <1>32, <1>33, <1>34, <1>35,
             <1>36, <1>37
    DEF Next, CreateStep, FlowStep, PopStep, CleanupStep, ExitStep, Finished

\* Every step keeps Fetched: what is looked up is what the only entry of the agent holds.
LEMMA NextFetched ==
  ASSUME TypeOK, Threads, OneOwner, OneEntryEach, Fetched, [Next]_vars PROVE Fetched'
  <1> USE Names
    DEF TypeOK, Threads, Fetched, Goto, Creating, Merging, Cleaning, Ended, Popped, ownVars,
        threadVars, managerVars, exitVars, popVars, stashVars, userVars, aroundVars, repoVars,
        worldVars, vars
  <1>1. ASSUME NEW item \in Items, UserEdits(item) PROVE Fetched' BY <1>1 DEF UserEdits
  <1>2. CASE UserStash
    <2>1. \A x \in Actors : pop[x] = "apply" => target[x] \in Agents
      BY TargetIsAgent
    <2>2. \A i \in DOMAIN stash' \ {1} : i - 1 \in DOMAIN stash /\ stash'[i] = stash[i - 1]
      BY <1>2, PushShifts DEF UserStash, Holders
    <2>3. stash'[1].by = User
      BY <1>2, PushShifts DEF UserStash, Holders
    <2>4. UNCHANGED <<pop, target, object>> /\ User \notin Agents BY <1>2 DEF UserStash
    <2> QED BY SMTT(30), <2>1, <2>2, <2>3, <2>4
  <1>3. CASE UserPop BY <1>3 DEF UserPop
  <1>4. ASSUME NEW a \in Agents, CreateRefused(a) PROVE Fetched' BY <1>4 DEF CreateRefused
  <1>5. ASSUME NEW a \in Agents, CreateReuses(a) PROVE Fetched' BY <1>5 DEF CreateReuses
  <1>6. ASSUME NEW a \in Agents, CreateBegins(a) PROVE Fetched' BY <1>6 DEF CreateBegins
  <1>7. ASSUME NEW a \in Agents, CountStash(a) PROVE Fetched' BY <1>7 DEF CountStash
  <1>8. ASSUME NEW a \in Agents, PushStash(a) PROVE Fetched'
    <2>1. CASE tree = {} BY <1>8, <2>1 DEF PushStash
    <2>2. CASE tree # {}
      <3>1. \A x \in Actors : pop[x] = "apply" => target[x] # a
        <4>1. pop[a] = "off" /\ target[Exit] # a
          BY <1>8 DEF PushStash, OneOwner, OwnedOnce, Unstarted
        <4> QED BY <4>1
      <3>2. \A i \in DOMAIN stash' \ {1} : i - 1 \in DOMAIN stash /\ stash'[i] = stash[i - 1]
        BY <1>8, <2>2, PushShifts DEF PushStash, Holders
      <3>3. stash'[1].by = a
        BY <1>8, <2>2, PushShifts DEF PushStash, Holders
      <3>4. UNCHANGED <<pop, target, object>> BY <1>8 DEF PushStash
      <3>5. ASSUME NEW x \in Actors, pop'[x] = "apply", NEW i \in DOMAIN stash',
                   stash'[i].by = target'[x]
            PROVE  stash'[i].items \subseteq object'[x]
        <4>1. i # 1 BY <3>1, <3>3, <3>4, <3>5
        <4> QED BY <3>2, <3>4, <3>5, <4>1
      <3> QED BY <3>5
    <2> QED BY <2>1, <2>2
  <1>9. ASSUME NEW a \in Agents, PushFails(a) PROVE Fetched' BY <1>9 DEF PushFails
  <1>10. ASSUME NEW a \in Agents, Recount(a) PROVE Fetched' BY <1>10 DEF Recount
  <1>11. ASSUME NEW a \in Agents, AddWorktree(a) PROVE Fetched' BY <1>11 DEF AddWorktree
  <1>12. ASSUME NEW a \in Agents, AddFails(a) PROVE Fetched' BY <1>12 DEF AddFails, Undo
  <1>13. ASSUME NEW a \in Agents, StageFails(a) PROVE Fetched' BY <1>13 DEF StageFails, Undo
  <1>14. ASSUME NEW a \in Agents, CreateFailed(a) PROVE Fetched' BY <1>14 DEF CreateFailed
  <1>15. ASSUME NEW a \in Agents, CreateSucceeds(a) PROVE Fetched' BY <1>15 DEF CreateSucceeds
  <1>16. ASSUME NEW a \in Agents, AgentWorks(a) PROVE Fetched' BY <1>16 DEF AgentWorks
  <1>17. ASSUME NEW a \in Agents, Abandon(a) PROVE Fetched' BY <1>17 DEF Abandon
  <1>18. ASSUME NEW a \in Agents, CommitAll(a) PROVE Fetched' BY <1>18 DEF CommitAll
  <1>19. ASSUME NEW a \in Agents, CreateBackupBranch(a) PROVE Fetched'
    BY <1>19 DEF CreateBackupBranch, Known
  <1>20. ASSUME NEW a \in Agents, MergeBack(a) PROVE Fetched' BY <1>20 DEF MergeBack, Known
  <1>21. ASSUME NEW a \in Agents, FlowStops(a) PROVE Fetched' BY <1>21 DEF FlowStops
  <1>22. ASSUME NEW a \in Agents, MergeReturns(a) PROVE Fetched' BY <1>22 DEF MergeReturns
  <1>23. ASSUME NEW a \in Agents, CleanupNothing(a) PROVE Fetched' BY <1>23 DEF CleanupNothing
  <1>24. ASSUME NEW a \in Agents, Cleanup(a) PROVE Fetched' BY <1>24 DEF Cleanup
  <1>25. ASSUME NEW x \in Actors, PopFind(x) PROVE Fetched'
    <2> DEFINE at == Position(target[x])
    <2>1. at # 0 => at \in DOMAIN stash /\ stash[at].by = target[x]
      BY PositionIsRight
    <2>2. /\ object' = [object EXCEPT ![x] = IF at = 0 THEN {} ELSE stash[at].items]
          /\ pop' = [pop EXCEPT ![x] = IF at = 0 THEN "gone" ELSE "apply"]
          /\ UNCHANGED <<target, stash>>
      BY <1>25 DEF PopFind
    <2>3. target[x] \in Agents BY <1>25, TargetIsAgent DEF PopFind
    <2> HIDE DEF at
    <2>4. \A i \in DOMAIN stash : stash[i].by = target[x] /\ at # 0 => i = at
      <3>1. target[x] # User BY <2>3
      <3> QED BY <2>1, <3>1 DEF OneEntryEach, Unique
    <2>5. at # 0 => object'[x] = stash[at].items BY <2>2
    <2>6. pop'[x] = "apply" => at # 0 BY <2>2
    <2>7. \A y \in Actors \ {x} : pop'[y] = pop[y] /\ object'[y] = object[y] BY <2>2
    <2> QED BY <2>2, <2>4, <2>5, <2>6, <2>7
  <1>26. ASSUME NEW x \in Actors, PopApply(x) PROVE Fetched' BY <1>26 DEF PopApply
  <1>27. ASSUME NEW x \in Actors, PopRefused(x) PROVE Fetched' BY <1>27 DEF PopRefused, PopEnds
  <1>28. ASSUME NEW x \in Actors, PopRefind(x) PROVE Fetched' BY <1>28 DEF PopRefind
  <1>29. ASSUME NEW x \in Actors, PopDrop(x) PROVE Fetched'
    <2>1. \A i \in DOMAIN stash' : \E j \in DOMAIN stash : stash'[i] = stash[j]
      BY <1>29, DropOutcome, DropSelects
    <2> QED BY SMTT(30), <1>29, <2>1 DEF PopDrop, PopEnds
  <1>30. ASSUME NEW x \in Actors, RemoveWorktree(x) PROVE Fetched' BY <1>30 DEF RemoveWorktree
  <1>31. ASSUME NEW x \in Actors, DeleteBranch(x) PROVE Fetched' BY <1>31 DEF DeleteBranch
  <1>32. ASSUME NEW x \in Actors, Settle(x) PROVE Fetched' BY <1>32 DEF Settle
  <1>33. CASE CloseManager BY <1>33 DEF CloseManager
  <1>34. CASE BeginPass BY <1>34 DEF BeginPass, MayPass, Remaining
  <1>35. CASE CleanNext
    <2>1. PICK a \in Agents, k \in BOOLEAN :
            /\ <<a, k>> \in todo
            /\ Goto(Exit, "passing", "removing")
            /\ target' = [target EXCEPT ![Exit] = a]
            /\ keeps' = [keeps EXCEPT ![Exit] = k]
            /\ todo' = todo \ {<<a, k>>}
            /\ UNCHANGED <<errs, told, managerVars, passes, popVars, stashVars, userVars, repoVars>>
      BY <1>35, Taken
    <2>2. pop[Exit] = "off" /\ pop' = pop /\ stash' = stash /\ object' = object BY <2>1
    <2> QED BY <2>1, <2>2
  <1>36. CASE CleanupAllEnds BY <1>36 DEF CleanupAllEnds, MayPass, Remaining
  <1>37. CASE UNCHANGED vars BY <1>37
  <1> QED BY <1>1, <1>2, <1>3, <1>4, <1>5, <1>6, <1>7, <1>8, <1>9, <1>10, <1>11, <1>12, <1>13,
             <1>14, <1>15, <1>16, <1>17, <1>18, <1>19, <1>20, <1>21, <1>22, <1>23, <1>24,
             <1>25, <1>26, <1>27, <1>28, <1>29, <1>30, <1>31, <1>32, <1>33, <1>34, <1>35,
             <1>36, <1>37
    DEF Next, CreateStep, FlowStep, PopStep, CleanupStep, ExitStep, Finished

\* Every step keeps Accounted.
LEMMA NextAccounted ==
  ASSUME TypeOK, Threads, Fetched, Accounted, [Next]_vars PROVE Accounted'
  <1> USE Names
    DEF TypeOK, Threads, Accounted, Goto, Creating, Merging, Cleaning, Ended, Popped, ownVars,
        threadVars, managerVars, exitVars, popVars, stashVars, userVars, aroundVars, repoVars,
        worldVars, vars
  <1>1. ASSUME NEW item \in Items, UserEdits(item) PROVE Accounted' BY <1>1 DEF UserEdits
  <1>2. CASE UserStash
    <2>1. \A i \in DOMAIN stash' \ {1} : i - 1 \in DOMAIN stash /\ stash'[i] = stash[i - 1]
      BY <1>2, PushShifts DEF UserStash, Holders
    <2>2. stash'[1].items = tree
      BY <1>2, PushShifts DEF UserStash, Holders
    <2> QED BY <1>2, <2>1, <2>2 DEF UserStash
  <1>3. CASE UserPop BY <1>3 DEF UserPop
  <1>4. ASSUME NEW a \in Agents, CreateRefused(a) PROVE Accounted' BY <1>4 DEF CreateRefused
  <1>5. ASSUME NEW a \in Agents, CreateReuses(a) PROVE Accounted' BY <1>5 DEF CreateReuses
  <1>6. ASSUME NEW a \in Agents, CreateBegins(a) PROVE Accounted' BY <1>6 DEF CreateBegins
  <1>7. ASSUME NEW a \in Agents, CountStash(a) PROVE Accounted' BY <1>7 DEF CountStash
  <1>8. ASSUME NEW a \in Agents, PushStash(a) PROVE Accounted'
    <2>1. CASE tree = {} BY <1>8, <2>1 DEF PushStash
    <2>2. CASE tree # {}
      <3>1. \A i \in DOMAIN stash' \ {1} : i - 1 \in DOMAIN stash /\ stash'[i] = stash[i - 1]
        BY <1>8, <2>2, PushShifts DEF PushStash, Holders
      <3>2. stash'[1].items = tree
        BY <1>8, <2>2, PushShifts DEF PushStash, Holders
      <3> QED BY <1>8, <2>2, <3>1, <3>2 DEF PushStash
    <2> QED BY <2>1, <2>2
  <1>9. ASSUME NEW a \in Agents, PushFails(a) PROVE Accounted' BY <1>9 DEF PushFails
  <1>10. ASSUME NEW a \in Agents, Recount(a) PROVE Accounted' BY <1>10 DEF Recount
  <1>11. ASSUME NEW a \in Agents, AddWorktree(a) PROVE Accounted' BY <1>11 DEF AddWorktree
  <1>12. ASSUME NEW a \in Agents, AddFails(a) PROVE Accounted' BY <1>12 DEF AddFails, Undo
  <1>13. ASSUME NEW a \in Agents, StageFails(a) PROVE Accounted' BY <1>13 DEF StageFails, Undo
  <1>14. ASSUME NEW a \in Agents, CreateFailed(a) PROVE Accounted' BY <1>14 DEF CreateFailed
  <1>15. ASSUME NEW a \in Agents, CreateSucceeds(a) PROVE Accounted' BY <1>15 DEF CreateSucceeds
  <1>16. ASSUME NEW a \in Agents, AgentWorks(a) PROVE Accounted' BY <1>16 DEF AgentWorks
  <1>17. ASSUME NEW a \in Agents, Abandon(a) PROVE Accounted' BY <1>17 DEF Abandon
  <1>18. ASSUME NEW a \in Agents, CommitAll(a) PROVE Accounted' BY <1>18 DEF CommitAll
  <1>19. ASSUME NEW a \in Agents, CreateBackupBranch(a) PROVE Accounted'
    BY <1>19 DEF CreateBackupBranch, Known
  <1>20. ASSUME NEW a \in Agents, MergeBack(a) PROVE Accounted' BY <1>20 DEF MergeBack, Known
  <1>21. ASSUME NEW a \in Agents, FlowStops(a) PROVE Accounted' BY <1>21 DEF FlowStops
  <1>22. ASSUME NEW a \in Agents, MergeReturns(a) PROVE Accounted' BY <1>22 DEF MergeReturns
  <1>23. ASSUME NEW a \in Agents, CleanupNothing(a) PROVE Accounted' BY <1>23 DEF CleanupNothing
  <1>24. ASSUME NEW a \in Agents, Cleanup(a) PROVE Accounted' BY <1>24 DEF Cleanup
  <1>25. ASSUME NEW x \in Actors, PopFind(x) PROVE Accounted'
    <2> DEFINE at == Position(target[x])
    <2>1. at # 0 => at \in DOMAIN stash BY PositionIsRight
    <2>2. /\ object' = [object EXCEPT ![x] = IF at = 0 THEN {} ELSE stash[at].items]
          /\ UNCHANGED <<made, tree, stash>>
      BY <1>25 DEF PopFind
    <2> HIDE DEF at
    <2> QED BY <2>1, <2>2
  <1>26. ASSUME NEW x \in Actors, PopApply(x) PROVE Accounted' BY <1>26 DEF PopApply
  <1>27. ASSUME NEW x \in Actors, PopRefused(x) PROVE Accounted'
    BY <1>27 DEF PopRefused, PopEnds
  <1>28. ASSUME NEW x \in Actors, PopRefind(x) PROVE Accounted' BY <1>28 DEF PopRefind
  <1>29. ASSUME NEW x \in Actors, PopDrop(x) PROVE Accounted'
    <2>1. \A i \in DOMAIN stash' : \E j \in DOMAIN stash : stash'[i] = stash[j]
      BY <1>29, DropOutcome, DropSelects
    <2>2. \A i \in DOMAIN stash' : stash'[i].items \subseteq made BY <2>1
    <2>3. UNCHANGED <<tree, made>> BY <1>29 DEF PopDrop
    <2>4. \A y \in Actors : object'[y] \subseteq made BY <1>29 DEF PopDrop, PopEnds
    <2> QED BY <2>2, <2>3, <2>4
  <1>30. ASSUME NEW x \in Actors, RemoveWorktree(x) PROVE Accounted' BY <1>30 DEF RemoveWorktree
  <1>31. ASSUME NEW x \in Actors, DeleteBranch(x) PROVE Accounted' BY <1>31 DEF DeleteBranch
  <1>32. ASSUME NEW x \in Actors, Settle(x) PROVE Accounted' BY <1>32 DEF Settle
  <1>33. CASE CloseManager BY <1>33 DEF CloseManager
  <1>34. CASE BeginPass BY <1>34 DEF BeginPass, MayPass, Remaining
  <1>35. CASE CleanNext
    <2>1. PICK a \in Agents, k \in BOOLEAN :
            /\ <<a, k>> \in todo
            /\ Goto(Exit, "passing", "removing")
            /\ target' = [target EXCEPT ![Exit] = a]
            /\ keeps' = [keeps EXCEPT ![Exit] = k]
            /\ todo' = todo \ {<<a, k>>}
            /\ UNCHANGED <<errs, told, managerVars, passes, popVars, stashVars, userVars, repoVars>>
      BY <1>35, Taken
    <2> QED BY <2>1
  <1>36. CASE CleanupAllEnds BY <1>36 DEF CleanupAllEnds, MayPass, Remaining
  <1>37. CASE UNCHANGED vars BY <1>37
  <1> QED BY <1>1, <1>2, <1>3, <1>4, <1>5, <1>6, <1>7, <1>8, <1>9, <1>10, <1>11, <1>12, <1>13,
             <1>14, <1>15, <1>16, <1>17, <1>18, <1>19, <1>20, <1>21, <1>22, <1>23, <1>24,
             <1>25, <1>26, <1>27, <1>28, <1>29, <1>30, <1>31, <1>32, <1>33, <1>34, <1>35,
             <1>36, <1>37
    DEF Next, CreateStep, FlowStep, PopStep, CleanupStep, ExitStep, Finished

\* With Serial every step keeps Counted: nobody changes the list under a thread that
\* has looked at it.
LEMMA NextCounted ==
  ASSUME Serial, TypeOK, Threads, OneOwner, OneEntryEach, Counted, [Next]_vars PROVE Counted'
  <1> USE Names
    DEF TypeOK, Threads, Counted, AtList, ListFree, Goto, Creating, Merging, Cleaning, Ended,
        Popped, ownVars, threadVars, managerVars, exitVars, popVars, stashVars, userVars,
        aroundVars, repoVars, worldVars, vars
  <1>a. stash' = stash => (Unique' <=> Unique) /\ \A b \in Agents : HasEntry(b)' <=> HasEntry(b)
    BY DEF Unique, HasEntry
  <1>1. ASSUME NEW item \in Items, UserEdits(item) PROVE Counted' BY <1>1, <1>a DEF UserEdits
  <1>2. CASE UserStash BY <1>2, <1>a DEF UserStash, Push
  <1>3. CASE UserPop BY <1>3, <1>a DEF UserPop
  <1>4. ASSUME NEW a \in Agents, CreateRefused(a) PROVE Counted' BY <1>4, <1>a DEF CreateRefused
  <1>5. ASSUME NEW a \in Agents, CreateReuses(a) PROVE Counted' BY <1>5, <1>a DEF CreateReuses
  <1>6. ASSUME NEW a \in Agents, CreateBegins(a) PROVE Counted' BY <1>6, <1>a DEF CreateBegins
  <1>7. ASSUME NEW a \in Agents, CountStash(a) PROVE Counted' BY <1>7, <1>a DEF CountStash
  <1>8. ASSUME NEW a \in Agents, PushStash(a) PROVE Counted'
    <2>1. AtList(a) /\ pop[a] = "off" BY <1>8 DEF PushStash
    <2>2. \A x \in Actors : pop[x] # "drop" BY <2>1
    <2>3. \A b \in Agents \ {a} : pc[b] \notin {"pushing", "recounting"} BY <2>1
    <2>4. pop' = pop /\ pc' = [pc EXCEPT ![a] = "recounting"] /\ before' = before
      BY <1>8 DEF PushStash
    <2>5. HasEntry(a)' => Len(stash') > before[a]
      <3>1. before[a] = Len(stash) /\ ~HasEntry(a) /\ Len(stash) \in Nat
        BY <1>8, StashTyped DEF PushStash, OneEntryEach
      <3>2. CASE tree = {} BY <1>8, <1>a, <3>1, <3>2 DEF PushStash
      <3>3. CASE tree # {}
        <4>1. Len(stash') = Len(stash) + 1
          BY <1>8, <3>3, PushShifts DEF PushStash, Holders
        <4> QED BY <3>1, <4>1
      <3> QED BY <3>2, <3>3
    <2> QED BY <2>2, <2>3, <2>4, <2>5
  <1>9. ASSUME NEW a \in Agents, PushFails(a) PROVE Counted' BY <1>9, <1>a DEF PushFails
  <1>10. ASSUME NEW a \in Agents, Recount(a) PROVE Counted' BY <1>10, <1>a DEF Recount
  <1>11. ASSUME NEW a \in Agents, AddWorktree(a) PROVE Counted' BY <1>11, <1>a DEF AddWorktree
  <1>12. ASSUME NEW a \in Agents, AddFails(a) PROVE Counted' BY <1>12, <1>a DEF AddFails, Undo
  <1>13. ASSUME NEW a \in Agents, StageFails(a) PROVE Counted'
    BY <1>13, <1>a DEF StageFails, Undo
  <1>14. ASSUME NEW a \in Agents, CreateFailed(a) PROVE Counted' BY <1>14, <1>a DEF CreateFailed
  <1>15. ASSUME NEW a \in Agents, CreateSucceeds(a) PROVE Counted'
    BY <1>15, <1>a DEF CreateSucceeds
  <1>16. ASSUME NEW a \in Agents, AgentWorks(a) PROVE Counted' BY <1>16, <1>a DEF AgentWorks
  <1>17. ASSUME NEW a \in Agents, Abandon(a) PROVE Counted' BY <1>17, <1>a DEF Abandon
  <1>18. ASSUME NEW a \in Agents, CommitAll(a) PROVE Counted' BY <1>18, <1>a DEF CommitAll
  <1>19. ASSUME NEW a \in Agents, CreateBackupBranch(a) PROVE Counted'
    BY <1>19, <1>a DEF CreateBackupBranch, Known
  <1>20. ASSUME NEW a \in Agents, MergeBack(a) PROVE Counted'
    BY <1>20, <1>a DEF MergeBack, Known
  <1>21. ASSUME NEW a \in Agents, FlowStops(a) PROVE Counted' BY <1>21, <1>a DEF FlowStops
  <1>22. ASSUME NEW a \in Agents, MergeReturns(a) PROVE Counted' BY <1>22, <1>a DEF MergeReturns
  <1>23. ASSUME NEW a \in Agents, CleanupNothing(a) PROVE Counted'
    BY <1>23, <1>a DEF CleanupNothing
  <1>24. ASSUME NEW a \in Agents, Cleanup(a) PROVE Counted' BY <1>24, <1>a DEF Cleanup
  <1>25. ASSUME NEW x \in Actors, PopFind(x) PROVE Counted' BY <1>25, <1>a DEF PopFind
  <1>26. ASSUME NEW x \in Actors, PopApply(x) PROVE Counted' BY <1>26, <1>a DEF PopApply
  <1>27. ASSUME NEW x \in Actors, PopRefused(x) PROVE Counted'
    BY <1>27, <1>a DEF PopRefused, PopEnds
  <1>28. ASSUME NEW x \in Actors, PopRefind(x) PROVE Counted'
    <2> DEFINE at == Position(target[x])
    <2>1. at # 0 => at \in DOMAIN stash /\ stash[at].by = target[x]
      BY PositionIsRight
    <2>2. /\ slot' = [slot EXCEPT ![x] = at]
          /\ pop' = [pop EXCEPT ![x] = IF at = 0 THEN "restored" ELSE "drop"]
          /\ UNCHANGED <<target, stash, pc, before>>
      BY <1>28 DEF PopRefind
    <2>3. \A y \in Actors : ~AtList(y) BY <1>28 DEF PopRefind
    <2> HIDE DEF at
    <2> QED BY <2>1, <2>2, <2>3, <1>a
  <1>29. ASSUME NEW x \in Actors, PopDrop(x) PROVE Counted'
    <2>1. AtList(x) /\ pc[x] \notin {"pushing", "recounting"} BY <1>29 DEF PopDrop
    <2>2. \A y \in Actors \ {x} : ~AtList(y) BY <2>1
    <2>3. pop' = [pop EXCEPT ![x] = "restored"] /\ pc' = pc BY <1>29 DEF PopDrop, PopEnds
    <2>4. \A y \in Actors : pop'[y] # "drop" /\ pc'[y] \notin {"pushing", "recounting"}
      BY <2>1, <2>2, <2>3
    <2> QED BY <2>4
  <1>30. ASSUME NEW x \in Actors, RemoveWorktree(x) PROVE Counted'
    BY <1>30, <1>a DEF RemoveWorktree
  <1>31. ASSUME NEW x \in Actors, DeleteBranch(x) PROVE Counted' BY <1>31, <1>a DEF DeleteBranch
  <1>32. ASSUME NEW x \in Actors, Settle(x) PROVE Counted' BY <1>32, <1>a DEF Settle
  <1>33. CASE CloseManager BY <1>33, <1>a DEF CloseManager
  <1>34. CASE BeginPass BY <1>34, <1>a DEF BeginPass, MayPass, Remaining
  <1>35. CASE CleanNext
    <2>1. PICK a \in Agents, k \in BOOLEAN :
            /\ <<a, k>> \in todo
            /\ Goto(Exit, "passing", "removing")
            /\ target' = [target EXCEPT ![Exit] = a]
            /\ keeps' = [keeps EXCEPT ![Exit] = k]
            /\ todo' = todo \ {<<a, k>>}
            /\ UNCHANGED <<errs, told, managerVars, passes, popVars, stashVars, userVars, repoVars>>
      BY <1>35, Taken
    <2>2. pop[Exit] = "off" /\ pop' = pop /\ stash' = stash /\ slot' = slot BY <2>1
    <2> QED BY <2>1, <2>2, <1>a
  <1>36. CASE CleanupAllEnds BY <1>36, <1>a DEF CleanupAllEnds, MayPass, Remaining
  <1>37. CASE UNCHANGED vars BY <1>37, <1>a
  <1> QED BY <1>1, <1>2, <1>3, <1>4, <1>5, <1>6, <1>7, <1>8, <1>9, <1>10, <1>11, <1>12, <1>13,
             <1>14, <1>15, <1>16, <1>17, <1>18, <1>19, <1>20, <1>21, <1>22, <1>23, <1>24,
             <1>25, <1>26, <1>27, <1>28, <1>29, <1>30, <1>31, <1>32, <1>33, <1>34, <1>35,
             <1>36, <1>37
    DEF Next, CreateStep, FlowStep, PopStep, CleanupStep, ExitStep, Finished

\* An entry stays held, unless it is the one that is being applied.
LEMMA NextHeld ==
  ASSUME Serial, TypeOK, Threads, Closing, OneOwner, OneEntryEach, Counted, [Next]_vars,
         NEW b \in Agents, HasEntry(b), Held(b),
         \A x \in Actors : PopApply(x) => target[x] # b
  PROVE  Held(b)'
  <1> USE Names
    DEF TypeOK, Threads, Held, Remembered, Spent, Goto, Creating, Merging, Cleaning, Ended,
        Popped, ownVars, threadVars, managerVars, exitVars, popVars, stashVars, userVars,
        aroundVars, repoVars, worldVars, vars
  <1>a. /\ todo' = todo => (Reserved(b)' <=> Reserved(b))
        /\ b # User /\ OwnedOnce(b)
    BY DEF Reserved, OneOwner
  <1>1. ASSUME NEW item \in Items, UserEdits(item) PROVE Held(b)' BY <1>1, <1>a DEF UserEdits
  <1>2. CASE UserStash BY <1>2, <1>a DEF UserStash, Push
  <1>3. CASE UserPop BY <1>3, <1>a DEF UserPop
  <1>4. ASSUME NEW a \in Agents, CreateRefused(a) PROVE Held(b)' BY <1>4, <1>a DEF CreateRefused
  <1>5. ASSUME NEW a \in Agents, CreateReuses(a) PROVE Held(b)'
    <2>1. a # b BY <1>5 DEF CreateReuses, OneEntryEach
    <2> QED BY <1>5, <1>a, <2>1 DEF CreateReuses
  <1>6. ASSUME NEW a \in Agents, CreateBegins(a) PROVE Held(b)' BY <1>6, <1>a DEF CreateBegins
  <1>7. ASSUME NEW a \in Agents, CountStash(a) PROVE Held(b)' BY <1>7, <1>a DEF CountStash
  <1>8. ASSUME NEW a \in Agents, PushStash(a) PROVE Held(b)' BY <1>8, <1>a DEF PushStash, Push
  <1>9. ASSUME NEW a \in Agents, PushFails(a) PROVE Held(b)' BY <1>9, <1>a DEF PushFails
  <1>10. ASSUME NEW a \in Agents, Recount(a) PROVE Held(b)'
    <2>1. a = b => Len(stash) > before[a] BY <1>10 DEF Recount, Counted
    <2>2. CASE a = b
      <3>1. pop[b] = "off" /\ target[Exit] # b
        BY <1>10, <1>a, <2>2 DEF Recount, OwnedOnce, Unstarted
      <3>2. keeps'[b]
        <4>1. keeps' = [keeps EXCEPT ![b] = Len(stash) > before[b]]
          BY <1>10, <2>2 DEF Recount
        <4>2. keeps'[b] = (Len(stash) > before[b]) BY <4>1
        <4> QED BY <4>2, <2>1, <2>2
      <3>3. UNCHANGED <<pop, target>> BY <1>10 DEF Recount
      <3> QED BY <3>1, <3>2, <3>3
    <2>3. CASE a # b
      <3>1. /\ pc' = [pc EXCEPT ![a] = "adding"]
            /\ keeps'[b] = keeps[b] /\ keeps'[Exit] = keeps[Exit]
            /\ UNCHANGED <<active, pop, todo, told, target>>
        BY <1>10, <2>3 DEF Recount
      <3> QED BY <1>a, <2>3, <3>1
    <2> QED BY <2>2, <2>3
  <1>11. ASSUME NEW a \in Agents, AddWorktree(a) PROVE Held(b)' BY <1>11, <1>a DEF AddWorktree
  <1>12. ASSUME NEW a \in Agents, AddFails(a) PROVE Held(b)' BY <1>12, <1>a DEF AddFails, Undo
  <1>13. ASSUME NEW a \in Agents, StageFails(a) PROVE Held(b)'
    BY <1>13, <1>a DEF StageFails, Undo
  <1>14. ASSUME NEW a \in Agents, CreateFailed(a) PROVE Held(b)' BY <1>14, <1>a DEF CreateFailed
  <1>15. ASSUME NEW a \in Agents, CreateSucceeds(a) PROVE Held(b)'
    <2>1. CASE a = b
      <3>1. active[b] = "none" /\ target[Exit] # b /\ pc[b] = "staging" /\ pop[b] = "off"
        BY <1>15, <1>a, <2>1 DEF CreateSucceeds, OwnedOnce, Unstarted
      <3>2. keeps[b] \/ Reserved(b) \/ b \in told BY <3>1
      <3>3. keeps[b] => active'[b] = "stashed" BY <1>15, <2>1 DEF CreateSucceeds
      <3>4. UNCHANGED <<pop, todo, told, target>> /\ keeps'[b] = FALSE
        BY <1>15, <2>1 DEF CreateSucceeds
      <3> QED BY <1>a, <3>1, <3>2, <3>3, <3>4
    <2>2. CASE a # b
      <3>1. /\ pc' = [pc EXCEPT ![a] = "created"] /\ active'[b] = active[b]
            /\ keeps' = [keeps EXCEPT ![a] = FALSE] /\ UNCHANGED <<pop, todo, told, target>>
        BY <1>15, <2>2 DEF CreateSucceeds
      <3> QED BY <1>a, <2>2, <3>1
    <2> QED BY <2>1, <2>2
  <1>16. ASSUME NEW a \in Agents, AgentWorks(a) PROVE Held(b)' BY <1>16, <1>a DEF AgentWorks
  <1>17. ASSUME NEW a \in Agents, Abandon(a) PROVE Held(b)' BY <1>17, <1>a DEF Abandon
  <1>18. ASSUME NEW a \in Agents, CommitAll(a) PROVE Held(b)' BY <1>18, <1>a DEF CommitAll
  <1>19. ASSUME NEW a \in Agents, CreateBackupBranch(a) PROVE Held(b)'
    BY <1>19, <1>a DEF CreateBackupBranch, Known
  <1>20. ASSUME NEW a \in Agents, MergeBack(a) PROVE Held(b)'
    <2>1. /\ pc' = [pc EXCEPT ![a] = "merged"] /\ pc[a] = "backedUp" /\ ~keeps[a]
          /\ UNCHANGED <<active, keeps, target, todo, told>>
      BY <1>20 DEF MergeBack
    <2>2. /\ \A y \in Actors \ {a} : pop'[y] = pop[y]
          /\ pop'[a] \in {"find", "restored"}
      BY <1>20 DEF MergeBack
    <2> QED BY <1>a, <2>1, <2>2
  <1>21. ASSUME NEW a \in Agents, FlowStops(a) PROVE Held(b)' BY <1>21, <1>a DEF FlowStops
  <1>22. ASSUME NEW a \in Agents, MergeReturns(a) PROVE Held(b)' BY <1>22, <1>a DEF MergeReturns
  <1>23. ASSUME NEW a \in Agents, CleanupNothing(a) PROVE Held(b)'
    BY <1>23, <1>a DEF CleanupNothing
  <1>24. ASSUME NEW a \in Agents, Cleanup(a) PROVE Held(b)'
    <2>1. CASE a = b
      <3>1. pc[b] = "cleaning" /\ pop[b] = "off" /\ ~keeps[b] BY <1>24, <2>1 DEF Cleanup
      <3>2. active[b] = "stashed" => keeps'[b]
        <4>1. keeps' = [keeps EXCEPT ![b] = active[b] = "stashed"]
          BY <1>24, <2>1 DEF Cleanup
        <4>2. keeps'[b] = (active[b] = "stashed") BY <4>1
        <4> QED BY <4>2
      <3>3. UNCHANGED <<pop, todo, told, target>> /\ keeps'[Exit] = keeps[Exit]
        BY <1>24, <2>1 DEF Cleanup
      <3> QED BY <1>a, <3>1, <3>2, <3>3
    <2>2. CASE a # b
      <3>1. /\ pc' = [pc EXCEPT ![a] = "removing"] /\ active'[b] = active[b]
            /\ keeps'[b] = keeps[b] /\ keeps'[Exit] = keeps[Exit]
            /\ UNCHANGED <<pop, todo, told, target>>
        BY <1>24, <2>2 DEF Cleanup
      <3> QED BY <1>a, <2>2, <3>1
    <2> QED BY <2>1, <2>2
  <1>25. ASSUME NEW x \in Actors, PopFind(x) PROVE Held(b)'
    <2> DEFINE at == Position(target[x])
    <2>1. target[x] = b => at # 0 BY PositionIsRight
    <2>2. /\ pop' = [pop EXCEPT ![x] = IF at = 0 THEN "gone" ELSE "apply"]
          /\ UNCHANGED <<threadVars, managerVars, exitVars>>
      BY <1>25 DEF PopFind
    <2>3. x = b => target[x] = b OBVIOUS
    <2> HIDE DEF at
    <2> QED BY <1>a, <2>1, <2>2, <2>3
  <1>26. ASSUME NEW x \in Actors, PopApply(x) PROVE Held(b)'
    <2>1. /\ pop' = [pop EXCEPT ![x] = "refind"]
          /\ UNCHANGED <<pc, active, keeps, target, todo, told>>
      BY <1>26 DEF PopApply
    <2>2. target[x] # b /\ (x = b => target[x] = b) BY <1>26
    <2> QED BY <1>a, <2>1, <2>2
  <1>27. ASSUME NEW x \in Actors, PopRefused(x) PROVE Held(b)'
    BY <1>27, <1>a DEF PopRefused, PopEnds
  <1>28. ASSUME NEW x \in Actors, PopRefind(x) PROVE Held(b)'
    <2> DEFINE at == Position(target[x])
    <2>1. target[x] = b => at # 0 BY PositionIsRight
    <2>2. /\ pop' = [pop EXCEPT ![x] = IF at = 0 THEN "restored" ELSE "drop"]
          /\ UNCHANGED <<threadVars, managerVars, exitVars>>
          /\ pop[x] = "refind"
      BY <1>28 DEF PopRefind
    <2>3. x = b => target[x] = b OBVIOUS
    <2> HIDE DEF at
    <2> QED BY <1>a, <2>1, <2>2, <2>3
  <1>29. ASSUME NEW x \in Actors, PopDrop(x) PROVE Held(b)' BY <1>29, <1>a DEF PopDrop, PopEnds
  <1>30. ASSUME NEW x \in Actors, RemoveWorktree(x) PROVE Held(b)'
    BY <1>30, <1>a DEF RemoveWorktree
  <1>31. ASSUME NEW x \in Actors, DeleteBranch(x) PROVE Held(b)' BY <1>31, <1>a DEF DeleteBranch
  <1>32. ASSUME NEW x \in Actors, Settle(x) PROVE Held(b)'
    <2> DEFINE failed == errs[x] \/ pop[x] = "refused"
    <2>1. /\ pc' = [pc EXCEPT ![x] = IF x = Exit THEN "passing" ELSE "done"]
          /\ pc[x] = "restoring" /\ pop[x] \in {"restored", "gone", "refused"}
          /\ active' = IF failed
                       THEN [active EXCEPT ![target[x]] = IF keeps[x] THEN "stashed" ELSE "plain"]
                       ELSE active
          /\ pop' = [pop EXCEPT ![x] = "off"]
          /\ keeps' = [keeps EXCEPT ![x] = FALSE]
          /\ target' = IF x = Exit THEN [target EXCEPT ![x] = NoOne] ELSE target
          /\ UNCHANGED <<todo, told>>
      BY <1>32 DEF Settle
    <2>2. target[x] \in Agents BY <2>1, TargetIsAgent
    <2>3. CASE target[x] = b
      <3>1. ~Spent(x) BY <2>3, <2>1
      <3>2. keeps[x] => pop[x] = "refused" BY <2>1, <3>1
      <3>3. keeps[x] => active'[b] = "stashed" BY <2>1, <2>3, <3>2
      <3>4. active[b] = "none" BY <1>a, <2>1, <2>3 DEF OwnedOnce
      <3>5. x # b => x = Exit BY <2>3
      <3>6. x = b => target[Exit] # b BY <1>a, <2>1 DEF OwnedOnce
      <3>7. x = Exit => ~keeps[b] \/ pc[b] \in {"adding", "staging", "undoing"} \cup Cleaning OBVIOUS
      <3>8. x = Exit => ~keeps[b] BY <1>a, <2>3, <3>7 DEF OwnedOnce, Unstarted
      <3> HIDE DEF failed
      <3> QED BY <1>a, <2>1, <2>3, <3>1, <3>3, <3>4, <3>5, <3>6, <3>8
    <2>4. CASE target[x] # b
      <3>1. x # b BY <2>4
      <3>2. active'[b] = active[b] BY <2>1, <2>4
      <3> HIDE DEF failed
      <3> QED BY <1>a, <2>1, <2>4, <3>1, <3>2
    <2> QED BY <2>3, <2>4
  <1>33. CASE CloseManager BY <1>33, <1>a DEF CloseManager
  <1>34. CASE BeginPass
    <2>1. active[b] = "stashed" => Reserved(b)' BY <1>34, Snapshot DEF Reserved
    <2>2. ~Reserved(b) BY <1>34 DEF BeginPass, MayPass, Reserved, Closing
    <2>3. /\ pc' = [pc EXCEPT ![Exit] = "passing"]
          /\ UNCHANGED <<ownVars, popVars>>
      BY <1>34 DEF BeginPass
    <2> QED BY <2>1, <2>2, <2>3
  <1>35. CASE CleanNext
    <2>1. PICK a \in Agents, k \in BOOLEAN :
            /\ <<a, k>> \in todo
            /\ Goto(Exit, "passing", "removing")
            /\ target' = [target EXCEPT ![Exit] = a]
            /\ keeps' = [keeps EXCEPT ![Exit] = k]
            /\ todo' = todo \ {<<a, k>>}
            /\ UNCHANGED <<errs, told, managerVars, passes, popVars, stashVars, userVars, repoVars>>
      BY <1>35, Taken
    <2>2. Reserved(b) /\ a # b => Reserved(b)' BY <2>1 DEF Reserved
    <2>3. Reserved(b) /\ a = b => k = TRUE
      BY <2>1 DEF Reserved, OneOwner, OwnedOnce, ListedTwice
    <2>4. pc[Exit] = "passing" /\ pop[Exit] = "off" /\ ~keeps[Exit] BY <2>1
    <2> QED BY <2>1, <2>2, <2>3, <2>4
  <1>36. CASE CleanupAllEnds BY <1>36, <1>a DEF CleanupAllEnds, MayPass, Remaining
  <1>37. CASE UNCHANGED vars BY <1>37, <1>a
  <1> QED BY <1>1, <1>2, <1>3, <1>4, <1>5, <1>6, <1>7, <1>8, <1>9, <1>10, <1>11, <1>12, <1>13,
             <1>14, <1>15, <1>16, <1>17, <1>18, <1>19, <1>20, <1>21, <1>22, <1>23, <1>24,
             <1>25, <1>26, <1>27, <1>28, <1>29, <1>30, <1>31, <1>32, <1>33, <1>34, <1>35,
             <1>36, <1>37
    DEF Next, CreateStep, FlowStep, PopStep, CleanupStep, ExitStep, Finished

\* What keeps the entries of the agents held keeps every entry held.
LEMMA EntryHeld ==
  ASSUME TypeOK, NEW i \in DOMAIN stash, NEW by \in Holders, stash[i].by = by, Held(by),
         \A b \in Agents : HasEntry(b) /\ Held(b) => Held(b)'
  PROVE  Held(by)'
  <1>1. CASE by = User BY <1>1 DEF Held
  <1>2. CASE by \in Agents BY <1>2 DEF HasEntry
  <1> QED BY <1>1, <1>2 DEF Holders

\* Adding to the list, or taking an entry from it that is not held, leaves every piece
\* of work that is not in the tree where the newest entry with it is held.
LEMMA PushShelters ==
  ASSUME TypeOK, NEW by \in Holders, Push(by), Guarded, Held(by)',
         \A b \in Agents : HasEntry(b) /\ Held(b) => Held(b)',
         NEW item \in made
  PROVE  Sheltered(item)'
  <1>1. /\ Len(stash) \in Nat /\ DOMAIN stash = 1 .. Len(stash)
        /\ DOMAIN stash' = 1 .. Len(stash) + 1
        /\ stash'[1].by = by /\ stash'[1].items = tree
        /\ \A i \in DOMAIN stash : stash'[i + 1] = stash[i]
        /\ \A i \in DOMAIN stash' \ {1} : i - 1 \in DOMAIN stash /\ stash'[i] = stash[i - 1]
    BY PushShifts, StashTyped
  <1>2. CASE item \in tree
    <2>1. 1 \in DOMAIN stash' /\ item \in stash'[1].items BY <1>1, <1>2
    <2>2. \A j \in 1 .. 1 - 1 : item \notin stash'[j].items OBVIOUS
    <2> QED BY <1>1, <2>1, <2>2 DEF Sheltered
  <1>3. CASE item \notin tree
    <2>1. PICK i \in DOMAIN stash, from \in Holders :
            /\ item \in stash[i].items
            /\ \A j \in 1 .. i - 1 : item \notin stash[j].items
            /\ stash[i].by = from /\ Held(from)
      BY <1>3 DEF Guarded, Sheltered
    <2>2. Held(from)' BY <2>1, EntryHeld
    <2>3. i \in Int /\ i + 1 \in DOMAIN stash' /\ stash'[i + 1] = stash[i] BY <1>1
    <2>4. ASSUME NEW j \in 1 .. (i + 1) - 1 PROVE item \notin stash'[j].items
      <3>1. CASE j = 1 BY <1>1, <1>3, <3>1
      <3>2. CASE j # 1
        <4>1. j \in DOMAIN stash' \ {1} /\ j - 1 \in 1 .. i - 1 BY <1>1, <2>3, <2>4, <3>2
        <4> QED BY <1>1, <2>1, <4>1
      <3> QED BY <3>1, <3>2
    <2> QED BY <2>1, <2>2, <2>3, <2>4 DEF Sheltered
  <1> QED BY <1>2, <1>3

\* A pop of the newest entry.
LEMMA PopShelters ==
  ASSUME TypeOK, stash # <<>>, stash' = Tail(stash), Guarded,
         \A b \in Agents : HasEntry(b) /\ Held(b) => Held(b)',
         NEW item \in made \ tree, item \notin Head(stash).items
  PROVE  Sheltered(item)'
  <1>1. /\ Len(stash) \in Nat /\ DOMAIN stash = 1 .. Len(stash)
        /\ 1 \in DOMAIN stash /\ Head(stash) = stash[1]
        /\ \A i \in DOMAIN stash' : i + 1 \in DOMAIN stash /\ stash'[i] = stash[i + 1]
        /\ \A i \in DOMAIN stash \ {1} : i - 1 \in DOMAIN stash'
    BY PopShifts, StashTyped
  <1>2. PICK i \in DOMAIN stash, from \in Holders :
            /\ item \in stash[i].items
            /\ \A j \in 1 .. i - 1 : item \notin stash[j].items
            /\ stash[i].by = from /\ Held(from)
    BY DEF Guarded, Sheltered
  <1>3. i # 1 /\ i \in Int BY <1>1, <1>2
  <1>4. i - 1 \in DOMAIN stash' /\ stash'[i - 1] = stash[i]
    <2>1. i - 1 \in DOMAIN stash' BY <1>1, <1>3
    <2>2. (i - 1) + 1 = i BY <1>3
    <2> QED BY <1>1, <2>1, <2>2
  <1>5. Held(from)' BY <1>2, EntryHeld
  <1>6. ASSUME NEW j \in 1 .. (i - 1) - 1 PROVE item \notin stash'[j].items
    <2>1. j \in DOMAIN stash' /\ j + 1 \in 1 .. i - 1
      <3>1. j + 1 \in DOMAIN stash \ {1} /\ (j + 1) - 1 = j BY <1>1, <1>3, <1>6
      <3>2. j \in DOMAIN stash' BY <1>1, <3>1
      <3> QED BY <1>3, <1>6, <3>2
    <2> QED BY <1>1, <1>2, <2>1
  <1> QED BY <1>2, <1>4, <1>5, <1>6 DEF Sheltered

\* A drop of an entry that is not held.
LEMMA DropShelters ==
  ASSUME TypeOK, NEW k \in DOMAIN stash, stash' = RemoveAt(stash, k), Guarded,
         ~Held(stash[k].by),
         \A b \in Agents : HasEntry(b) /\ Held(b) => Held(b)',
         NEW item \in made \ tree
  PROVE  Sheltered(item)'
  <1>1. /\ Len(stash) \in Nat /\ DOMAIN stash = 1 .. Len(stash)
        /\ k \in Int /\ DOMAIN stash' \subseteq Int
        /\ \A i \in DOMAIN stash' :
              /\ i < k => i \in DOMAIN stash /\ stash'[i] = stash[i]
              /\ i >= k => i + 1 \in DOMAIN stash /\ stash'[i] = stash[i + 1]
        /\ \A i \in DOMAIN stash :
              /\ i < k => i \in DOMAIN stash'
              /\ i > k => i - 1 \in DOMAIN stash'
    BY DropShifts, StashTyped
  <1>2. PICK i \in DOMAIN stash, from \in Holders :
            /\ item \in stash[i].items
            /\ \A j \in 1 .. i - 1 : item \notin stash[j].items
            /\ stash[i].by = from /\ Held(from)
    BY DEF Guarded, Sheltered
  <1>3. i # k /\ i \in Int BY <1>1, <1>2
  <1>4. Held(from)' BY <1>2, EntryHeld
  <1>5. CASE i < k
    <2>1. i \in DOMAIN stash' /\ stash'[i] = stash[i] BY <1>1, <1>5
    <2>2. ASSUME NEW j \in 1 .. i - 1 PROVE item \notin stash'[j].items
      <3>1. j \in DOMAIN stash /\ j < k BY <1>1, <1>3, <1>5, <2>2
      <3>2. stash'[j] = stash[j] BY <1>1, <3>1
      <3> QED BY <1>2, <3>2
    <2> QED BY <1>2, <1>4, <2>1, <2>2 DEF Sheltered
  <1>6. CASE i > k
    <2>1. i - 1 \in DOMAIN stash' /\ stash'[i - 1] = stash[i]
      <3>1. i - 1 \in DOMAIN stash' /\ i - 1 >= k /\ (i - 1) + 1 = i BY <1>1, <1>3, <1>6
      <3> QED BY <1>1, <3>1
    <2>2. ASSUME NEW j \in 1 .. (i - 1) - 1 PROVE item \notin stash'[j].items
      <3>1. j \in 1 .. i - 1 /\ j + 1 \in 1 .. i - 1 /\ j \in DOMAIN stash /\ j + 1 \in DOMAIN stash
        BY <1>1, <1>3, <2>2
      <3>2. CASE j < k
        <4>1. stash'[j] = stash[j] BY <1>1, <3>1, <3>2
        <4> QED BY <1>2, <3>1, <4>1
      <3>3. CASE j >= k
        <4>1. j + 1 > k /\ (j + 1) - 1 = j BY <1>1, <3>1, <3>3
        <4>2. j \in DOMAIN stash' BY <1>1, <3>1, <4>1
        <4>3. stash'[j] = stash[j + 1] BY <1>1, <3>3, <4>2
        <4> QED BY <1>2, <3>1, <4>3
      <3> QED BY <1>1, <3>1, <3>2, <3>3
    <2> QED BY <1>2, <1>4, <2>1, <2>2 DEF Sheltered
  <1> QED BY <1>1, <1>3, <1>5, <1>6

\* With Serial every step keeps Guarded.  An entry leaves the list with its items back
\* in the tree, and a push puts the tree's work into an entry that is held.
LEMMA NextGuarded ==
  ASSUME Serial, TypeOK, Threads, Closing, OneOwner, OneEntryEach, Fetched, Accounted,
         Counted, Guarded, [Next]_vars
  PROVE  Guarded'
  <1> SUFFICES ASSUME NEW item \in made' \ tree' PROVE Sheltered(item)'
    BY DEF Guarded
  <1> DEFINE Moved == \E x \in Actors : PopApply(x)
  <1>1. ~Moved => \A b \in Agents : HasEntry(b) /\ Held(b) => Held(b)' BY NextHeld
  <1>2. CASE UserStash
    <2>1. Push(User) /\ User \in Holders /\ made' = made /\ pop' = pop
      BY <1>2 DEF UserStash, Holders, popVars
    <2>2. ~Moved BY <2>1 DEF PopApply, TypeOK
    <2>3. Held(User)' BY DEF Held
    <2> QED BY <1>1, <2>1, <2>2, <2>3, PushShelters
  <1>3. CASE UserPop
    <2>1. /\ stash # <<>> /\ stash' = Tail(stash) /\ made' = made /\ pop' = pop
          /\ tree' = tree \cup Head(stash).items
      BY <1>3 DEF UserPop, popVars
    <2>2. ~Moved BY <2>1 DEF PopApply, TypeOK
    <2>3. item \in made \ tree /\ item \notin Head(stash).items BY <2>1
    <2> QED BY <1>1, <2>1, <2>2, <2>3, PopShelters
  <1>4. ASSUME NEW a \in Agents, PushStash(a), tree # {} PROVE Sheltered(item)'
    <2>1. Push(a) /\ a \in Holders /\ made' = made /\ pop' = pop /\ UNCHANGED ownVars
      BY <1>4 DEF PushStash, Holders, userVars, popVars
    <2>2. ~Moved BY <2>1 DEF PopApply, TypeOK
    <2>3. pc[a] = "pushing" /\ pc'[a] = "recounting" BY <1>4, Names DEF PushStash, Goto, TypeOK
    <2>4. pop[a] = "off" /\ target[Exit] # a
      BY <2>3, Names DEF OneOwner, OwnedOnce, Unstarted, Creating, Threads
    <2>5. Held(a)' BY <2>1, <2>3, <2>4, Names DEF Held, Remembered, Spent, ownVars, Threads
    <2> QED BY <1>1, <2>1, <2>2, <2>5, PushShelters
  <1>5. ASSUME NEW x \in Actors, PopDrop(x), stash' # stash PROVE Sheltered(item)'
    <2>1. slot[x] \in DOMAIN stash /\ stash' = RemoveAt(stash, slot[x])
      BY <1>5, DropOutcome
    <2>2. made' = made /\ tree' = tree /\ pop[x] = "drop" /\ pop'[x] = "restored"
          /\ \A y \in Actors \ {x} : pop'[y] = pop[y]
      BY <1>5 DEF PopDrop, PopEnds, userVars, TypeOK
    <2>3. ~Moved
      <3>1. ASSUME NEW y \in Actors, PopApply(y) PROVE FALSE
        BY <2>2, <3>1 DEF PopApply, TypeOK
      <3> QED BY <3>1
    <2>4. ~Held(stash[slot[x]].by)
      <3>1. stash[slot[x]].by = target[x] BY <2>2 DEF Counted
      <3>2. Spent(x) BY <2>2 DEF Spent
      <3>3. target[x] \in Agents BY <2>2, TargetIsAgent
      <3> QED BY <3>1, <3>2, <3>3, Names DEF Held, Threads
    <2> QED BY <1>1, <2>1, <2>2, <2>3, <2>4, DropShelters
  <1>6. ASSUME stash' = stash, item \in made \ tree PROVE Sheltered(item)'
    <2>1. PICK i \in DOMAIN stash, from \in Holders :
            /\ item \in stash[i].items
            /\ \A j \in 1 .. i - 1 : item \notin stash[j].items
            /\ stash[i].by = from /\ Held(from)
      BY <1>6 DEF Guarded, Sheltered
    <2>2. CASE from = User BY <1>6, <2>1, <2>2 DEF Sheltered, Held
    <2>3. CASE from # User
      <3>1. from \in Agents BY <2>3 DEF Holders
      <3>2. HasEntry(from) BY <2>1 DEF HasEntry
      <3>3. ASSUME NEW x \in Actors, PopApply(x) PROVE target[x] # from
        <4>1. pop[x] = "apply" /\ tree' = tree \cup object[x] BY <3>3 DEF PopApply
        <4>2. target[x] = from => item \in object[x] BY <2>1, <4>1 DEF Fetched
        <4> QED BY <4>1, <4>2
      <3>4. Held(from)' BY <2>1, <3>1, <3>2, <3>3, NextHeld
      <3> QED BY <1>6, <2>1, <3>4 DEF Sheltered
    <2> QED BY <2>2, <2>3
  <1>7. ASSUME NEW newItem \in Items, UserEdits(newItem) PROVE Sheltered(item)'
    BY <1>6, <1>7 DEF UserEdits
  <1>8. ASSUME NEW a \in Agents, CreateStep(a) \/ AgentWorks(a) \/ FlowStep(a)
        PROVE  Sheltered(item)'
    <2>1. PushStash(a) /\ tree = {} => UNCHANGED <<stash, tree, made>>
      BY DEF PushStash, stashVars, userVars
    <2>2. PushStash(a) \/ UNCHANGED <<stash, tree, made>>
      BY <1>8
      DEF CreateStep, AgentWorks, FlowStep, CreateRefused, CreateReuses, CreateBegins, CountStash,
          PushFails, Recount, AddWorktree, AddFails, StageFails, CreateFailed, CreateSucceeds,
          Abandon, CommitAll, CreateBackupBranch, MergeBack, FlowStops, MergeReturns,
          CleanupNothing, Cleanup, worldVars, aroundVars, stashVars, userVars
    <2> QED BY <1>4, <1>6, <2>1, <2>2
  <1>9. ASSUME NEW x \in Actors, PopStep(x) \/ CleanupStep(x) PROVE Sheltered(item)'
    <2>1. CASE PopDrop(x)
      <3>1. made' = made /\ tree' = tree BY <2>1 DEF PopDrop, userVars
      <3> QED BY <1>5, <1>6, <2>1, <3>1
    <2>2. CASE PopApply(x)
      <3>1. stash' = stash /\ made' = made /\ tree \subseteq tree'
        BY <2>2 DEF PopApply, userVars
      <3> QED BY <1>6, <3>1
    <2>3. CASE ~PopDrop(x) /\ ~PopApply(x)
      <3>1. UNCHANGED <<stash, tree, made>>
        BY <1>9, <2>3
        DEF PopStep, CleanupStep, PopFind, PopRefused, PopRefind, RemoveWorktree, DeleteBranch,
            Settle, aroundVars, stashVars, userVars
      <3> QED BY <1>6, <3>1
    <2> QED BY <2>1, <2>2, <2>3
  <1>10. CASE ExitStep
    BY <1>6, <1>10
    DEF ExitStep, CloseManager, BeginPass, CleanNext, CleanupAllEnds, worldVars, stashVars, userVars
  <1>11. CASE UNCHANGED vars BY <1>6, <1>11 DEF vars, worldVars, stashVars, userVars
  <1> QED BY <1>2, <1>3, <1>7, <1>8, <1>9, <1>10, <1>11 DEF Next, Finished

-----------------------------------------------------------------------------
\* The invariant that holds whatever Serial is.
Structure ==
    /\ TypeOK /\ Threads /\ Closing /\ OneOwner /\ Owned /\ WorkSafe
    /\ OneEntryEach /\ Fetched /\ Accounted

\* All of it holds at the start.
LEMMA InitStructure == Init => Structure /\ Counted /\ Guarded
  <1> SUFFICES ASSUME Init PROVE Structure /\ Counted /\ Guarded OBVIOUS
  <1> USE Names, WorktreeAssumption DEF Init
  <1>1. stash = <<>> /\ stash \in Seq(Entry) /\ DOMAIN stash = {} OBVIOUS
  <1>2. TypeOK
    <2>1. /\ pc \in [Actors -> Creating \cup Merging \cup Cleaning \cup Ended \cup
                           {"idle", "created", "working", "cleaning", "up", "waiting", "passing"}]
          /\ mu \in Agents \cup {NoOne} /\ closed \in BOOLEAN
          /\ active \in [Agents -> {"none", "plain", "stashed"}]
          /\ before \in [Agents -> Nat]
      OBVIOUS
    <2>2. keeps \in [Actors -> BOOLEAN] /\ errs \in [Actors -> BOOLEAN] OBVIOUS
    <2>3. target \in [Actors -> Agents \cup {NoOne}] OBVIOUS
    <2>4. /\ todo \subseteq Agents \X BOOLEAN /\ told \subseteq Agents
          /\ passes \in 0..MaxPasses /\ userLeft \in 0..UserStashes
      BY DEF MaxPasses
    <2>5. /\ pop \in [Actors -> Popped \cup {"off", "find", "apply", "refind", "drop"}]
          /\ slot \in [Actors -> Nat] /\ object \in [Actors -> SUBSET Items]
      OBVIOUS
    <2>6. tree \subseteq Items /\ made \subseteq Items
          /\ stash \in Seq([by : Holders, items : SUBSET Items])
      BY <1>1 DEF Entry
    <2>7. attached \subseteq ref /\ ref \subseteq Agents OBVIOUS
    <2>8. work \in [Agents -> {"none", "old", "dirty", "tip", "saved", "merged"}] OBVIOUS
    <2> QED BY <2>1, <2>2, <2>3, <2>4, <2>5, <2>6, <2>7, <2>8 DEF TypeOK
  <1>3. Threads BY DEF Threads, Creating, Cleaning
  <1>4. Closing BY DEF Closing, Cleaning
  <1>5. OneOwner BY DEF OneOwner, OwnedOnce, Listed, ListedTwice
  <1>6. Owned /\ WorkSafe
    BY DEF Owned, HasOwner, WorkSafe, Unstarted, Creating, Cleaning
  <1>7. OneEntryEach BY <1>1 DEF OneEntryEach, Unique, HasEntry
  <1>8. Fetched /\ Accounted BY <1>1 DEF Fetched, Accounted
  <1>9. Counted BY <1>1 DEF Counted, AtList
  <1>10. Guarded BY DEF Guarded
  <1> QED BY <1>2, <1>3, <1>4, <1>5, <1>6, <1>7, <1>8, <1>9, <1>10 DEF Structure

\* Every step keeps Structure.
LEMMA NextStructure == Structure /\ [Next]_vars => Structure'
  BY NextTypes, NextThreads, NextClosing, NextOneOwner, NextOwned, NextWorkSafe,
     NextOneEntryEach, NextFetched, NextAccounted
  DEF Structure

\* It holds in every behaviour.
LEMMA StructureInvariant == Spec => []Structure
  <1>1. Init => Structure BY InitStructure
  <1> QED BY <1>1, NextStructure, PTL DEF Spec

\* With Serial, so do the two about the list.
LEMMA ListInvariant == ASSUME Serial PROVE Spec => [](Counted /\ Guarded)
  <1>1. Init => Counted /\ Guarded BY InitStructure
  <1>2. Structure /\ Counted /\ Guarded /\ [Next]_vars => (Counted /\ Guarded)'
    BY NextCounted, NextGuarded DEF Structure
  <1> QED BY <1>1, <1>2, StructureInvariant, PTL DEF Spec

\* Every variable keeps its type, whether or not Serial holds.
THEOREM TypeCorrect == Spec => []TypeOK
  <1>1. Structure => TypeOK BY DEF Structure
  <1> QED BY <1>1, StructureInvariant, PTL

\* A piece of work outside the tree is in the list.
LEMMA GuardedKeepsWork == TypeOK /\ Guarded => UserWorkKept
  <1> SUFFICES ASSUME TypeOK, Guarded, NEW item \in made, item \notin tree
               PROVE  item \in Stashed
    BY DEF UserWorkKept
  <1>1. PICK i \in DOMAIN stash : item \in stash[i].items BY DEF Guarded, Sheltered
  <1> QED BY <1>1 DEF Stashed, ToSet

\* An only copy is the newest entry with a piece of work outside the tree, so it is held.
LEMMA GuardedRemembers ==
  ASSUME TypeOK, Threads, Accounted, Guarded, NEW a \in Agents, OnlyCopy(a)
  PROVE  Remembered(a)
  <1>1. PICK e \in ToSet(stash) :
          e.by = a /\ ~ e.items \subseteq tree \cup UNION {f.items : f \in ToSet(stash) \ {e}}
    BY DEF OnlyCopy
  <1>2. PICK item \in e.items :
          item \notin tree /\ \A f \in ToSet(stash) \ {e} : item \notin f.items
    BY <1>1
  <1>3. item \in made BY <1>1, <1>2 DEF Accounted, ToSet
  <1>4. PICK i \in DOMAIN stash, from \in Holders :
          item \in stash[i].items /\ stash[i].by = from /\ Held(from)
    BY <1>2, <1>3 DEF Guarded, Sheltered
  <1>5. stash[i] = e BY <1>2, <1>4 DEF ToSet
  <1> QED BY <1>1, <1>4, <1>5, Names DEF Held

\* Remembered is what NothingForgotten asks for.
LEMMA RememberedIsKnown ==
  ASSUME Threads, NEW a \in Agents, Remembered(a)
  PROVE  \/ active[a] = "stashed"
         \/ pc[a] = "recounting"
         \/ \E x \in Actors : target[x] = a /\ keeps[x]
         \/ <<a, TRUE>> \in todo
         \/ a \in told
  BY Names DEF Threads, Remembered, Reserved

\* Whatever fails and whoever stashes in between, the user's uncommitted work is in the
\* main tree or in the list (worktree.go:102-118), while the list changes in one place
\* at a time.
THEOREM UserWorkIsKept == ASSUME Serial PROVE Spec => []UserWorkKept
  <1>1. Structure /\ Guarded => UserWorkKept BY GuardedKeepsWork DEF Structure
  <1> QED BY <1>1, StructureInvariant, ListInvariant, PTL

\* No entry with the only copy of the user's work is forgotten by the manager, the
\* threads, the snapshot of CleanupAll and the errors at once (worktree.go:587-600).
THEOREM NothingIsForgotten == ASSUME Serial PROVE Spec => []NothingForgotten
  <1>1. Structure /\ Guarded => NothingForgotten
    BY GuardedRemembers, RememberedIsKnown DEF Structure, NothingForgotten
  <1> QED BY <1>1, StructureInvariant, ListInvariant, PTL

\* A CleanupAll that returns no error leaves nothing active, no worktree of a spawn,
\* nobody at work on one and no only copy untold (worktree.go:719-772).
THEOREM ShutdownIsClean == ASSUME Serial PROVE Spec => []ShutdownClean
  <1>1. Structure /\ Guarded => ShutdownClean
    <2> SUFFICES ASSUME Structure, Guarded, pc[Exit] = "done",
                        NEW a \in Agents
                 PROVE  /\ active[a] = "none"
                        /\ pc[a] \notin Creating \cup Cleaning
                        /\ a \in attached => pc[a] \in {"idle", "rejected"}
                        /\ OnlyCopy(a) => a \in told
      BY DEF ShutdownClean, Remaining
    <2>1. active[a] = "none" /\ todo = {} /\ mu = NoOne /\ pc[a] \notin Cleaning
      BY DEF Structure, Closing
    <2>2. pc[a] \notin Creating BY <2>1, Names DEF Structure, Threads
    <2>3. a \in attached => pc[a] \in {"idle", "rejected"}
      BY <2>1, <2>2 DEF Structure, Owned, HasOwner, Listed, Unstarted, Cleaning
    <2>4. Remembered(a) => a \in told
      <3>1. ~keeps[a] /\ ~keeps[Exit] /\ pc[a] # "recounting"
        BY <2>1, <2>2, Names DEF Structure, Threads, Creating, Cleaning
      <3> QED BY <2>1, <3>1 DEF Remembered, Reserved
    <2>5. OnlyCopy(a) => a \in told BY <2>4, GuardedRemembers DEF Structure
    <2> QED BY <2>1, <2>2, <2>3, <2>5
  <1> QED BY <1>1, StructureInvariant, ListInvariant, PTL

\* The entry a pop of the user takes from the list is the newest, whose items are back.
LEMMA PopTakesNewest ==
  ASSUME TypeOK, UserPop, NEW i \in DOMAIN stash,
         \A j \in DOMAIN stash' : stash'[j] # stash[i]
  PROVE  stash[i].items \subseteq tree'
  <1>1. stash # <<>> /\ stash' = Tail(stash) /\ tree' = tree \cup Head(stash).items
    BY DEF UserPop
  <1>2. /\ 1 \in DOMAIN stash /\ Head(stash) = stash[1]
        /\ \A j \in DOMAIN stash' : stash'[j] = stash[j + 1]
        /\ \A j \in DOMAIN stash \ {1} : j - 1 \in DOMAIN stash'
    BY <1>1, PopShifts
  <1>3. i \in Int BY StashTyped
  <1>4. i # 1 => (i - 1) + 1 = i BY <1>3
  <1>5. i = 1 BY <1>2, <1>4
  <1> QED BY <1>1, <1>2, <1>5

\* The entry a drop takes from the list is the one at the position.
LEMMA DropTakesSlot ==
  ASSUME TypeOK, NEW k \in DOMAIN stash, stash' = RemoveAt(stash, k), NEW i \in DOMAIN stash,
         \A j \in DOMAIN stash' : stash'[j] # stash[i]
  PROVE  i = k
  <1>1. /\ \A j \in DOMAIN stash' :
              /\ j < k => stash'[j] = stash[j]
              /\ j >= k => stash'[j] = stash[j + 1]
        /\ \A j \in DOMAIN stash :
              /\ j < k => j \in DOMAIN stash'
              /\ j > k => j - 1 \in DOMAIN stash'
    BY DropShifts
  <1>2. i \in Int /\ k \in Int BY StashTyped
  <1>3. i > k => i - 1 >= k /\ (i - 1) + 1 = i BY <1>2
  <1>4. i < k => i \in DOMAIN stash' /\ stash'[i] = stash[i] BY <1>1
  <1>5. ASSUME i > k PROVE i - 1 \in DOMAIN stash' /\ stash'[i - 1] = stash[i]
    <2>1. i - 1 \in DOMAIN stash' BY <1>1, <1>5
    <2>2. stash'[i - 1] = stash[(i - 1) + 1] BY <1>1, <1>3, <1>5, <2>1
    <2> QED BY <1>3, <1>5, <2>1, <2>2
  <1> QED BY <1>2, <1>4, <1>5

\* What can change the list.
LEMMA ListChanges ==
  ASSUME [Next]_vars, stash' # stash
  PROVE  UserPop \/ (\E x \in Actors : PopDrop(x)) \/ (\E by \in Holders : Push(by))
  <1>1. CASE UserStash BY <1>1 DEF UserStash, Holders
  <1>2. ASSUME NEW a \in Agents, CreateStep(a) \/ AgentWorks(a) \/ FlowStep(a)
        PROVE  Push(a)
    <2>1. PushStash(a) => Push(a) BY DEF PushStash, stashVars
    <2> QED BY <1>2, <2>1
      DEF CreateStep, AgentWorks, FlowStep, CreateRefused, CreateReuses, CreateBegins, CountStash,
          PushFails, Recount, AddWorktree, AddFails, StageFails, CreateFailed, CreateSucceeds,
          Abandon, CommitAll, CreateBackupBranch, MergeBack, FlowStops, MergeReturns,
          CleanupNothing, Cleanup, worldVars, aroundVars, stashVars
  <1>3. ASSUME NEW x \in Actors, PopStep(x) \/ CleanupStep(x) PROVE PopDrop(x)
    BY <1>3
    DEF PopStep, CleanupStep, PopFind, PopApply, PopRefused, PopRefind, RemoveWorktree,
        DeleteBranch, Settle, aroundVars, stashVars
  <1>4. ~ExitStep
    BY DEF ExitStep, CloseManager, BeginPass, CleanNext, CleanupAllEnds, worldVars, stashVars
  <1>5. ~UNCHANGED vars BY DEF vars, worldVars, stashVars
  <1>6. ASSUME NEW item \in Items PROVE ~UserEdits(item) BY DEF UserEdits
  <1> QED BY <1>1, <1>2, <1>3, <1>4, <1>5, <1>6 DEF Next, Finished, Holders

\* An entry leaves the list by the thread that has applied it, or with its items in
\* the tree (worktree.go:110-113).
THEOREM EntriesLeaveApplied == ASSUME Serial PROVE Spec => LeavesOnlyApplied
  <1>1. ASSUME Structure, Counted, [Next]_vars, NEW e \in ToSet(stash) \ ToSet(stash')
        PROVE  \/ e.items \subseteq tree'
               \/ \E x \in Actors : target[x] = e.by /\ pop[x] = "drop" /\ pop'[x] # "drop"
    <2>1. TypeOK BY <1>1 DEF Structure
    <2>2. PICK i \in DOMAIN stash : e = stash[i] BY <1>1 DEF ToSet
    <2>3. \A j \in DOMAIN stash' : stash'[j] # stash[i] BY <1>1, <2>2 DEF ToSet
    <2>4. CASE UserPop BY <2>1, <2>2, <2>3, <2>4, PopTakesNewest
    <2>5. ASSUME NEW x \in Actors, PopDrop(x)
          PROVE  target[x] = e.by /\ pop[x] = "drop" /\ pop'[x] # "drop"
      <3>1. slot[x] \in DOMAIN stash /\ stash' = RemoveAt(stash, slot[x])
        BY <2>2, <2>3, <2>5, DropOutcome
      <3>2. i = slot[x] BY <2>1, <2>3, <3>1, DropTakesSlot
      <3>3. pop[x] = "drop" /\ pop'[x] = "restored" BY <2>1, <2>5 DEF PopDrop, PopEnds, TypeOK
      <3>4. stash[slot[x]].by = target[x] BY <1>1, <3>3 DEF Counted
      <3> QED BY <2>2, <3>2, <3>3, <3>4
    <2>6. ASSUME NEW by \in Holders, Push(by) PROVE FALSE
      <3>1. i + 1 \in DOMAIN stash' /\ stash'[i + 1] = stash[i]
        BY <2>1, <2>6, PushShifts, StashTyped
      <3> QED BY <2>3, <3>1
    <2>7. stash' # stash BY <2>2, <2>3
    <2> QED BY <1>1, <2>4, <2>5, <2>6, <2>7, ListChanges
  <1>2. Structure /\ Counted /\ [Next]_vars
        => [\A e \in ToSet(stash) \ ToSet(stash') :
              \/ e.items \subseteq tree'
              \/ \E x \in Actors : target[x] = e.by /\ pop[x] = "drop" /\ pop'[x] # "drop"]_vars
    BY <1>1
  <1> QED BY <1>2, StructureInvariant, ListInvariant, PTL DEF Spec, LeavesOnlyApplied

\* A worktree goes only when its branch cannot be staged, or by a cleanup.
LEMMA WorktreeGoes ==
  ASSUME [Next]_vars, NEW a \in attached \ attached'
  PROVE  (\E b \in Agents : StageFails(b)) \/ (\E x \in Actors : RemoveWorktree(x))
  <1>1. attached' # attached /\ ~(attached \subseteq attached') OBVIOUS
  <1>2. ASSUME NEW b \in Agents, CreateStep(b) \/ AgentWorks(b) \/ FlowStep(b)
        PROVE  StageFails(b)
    <2>1. ~AddWorktree(b) BY <1>1 DEF AddWorktree
    <2> QED BY <1>1, <1>2, <2>1
      DEF CreateStep, AgentWorks, FlowStep, CreateRefused, CreateReuses, CreateBegins, CountStash,
          PushStash, PushFails, Recount, AddFails, CreateFailed, CreateSucceeds,
          Abandon, CommitAll, CreateBackupBranch, MergeBack, FlowStops, MergeReturns,
          CleanupNothing, Cleanup, worldVars, repoVars
  <1>3. ASSUME NEW x \in Actors, PopStep(x) \/ CleanupStep(x) PROVE RemoveWorktree(x)
    BY <1>1, <1>3
    DEF PopStep, CleanupStep, PopFind, PopApply, PopRefused, PopRefind, PopDrop,
        DeleteBranch, Settle, repoVars
  <1>4. ~ExitStep
    BY <1>1
    DEF ExitStep, CloseManager, BeginPass, CleanNext, CleanupAllEnds, worldVars, repoVars
  <1>5. ~UNCHANGED vars BY <1>1 DEF vars, worldVars, repoVars
  <1>6. ~UserStash /\ ~UserPop /\ \A item \in Items : ~UserEdits(item)
    BY <1>1 DEF UserStash, UserPop, UserEdits, repoVars
  <1> QED BY <1>2, <1>3, <1>4, <1>5, <1>6 DEF Next, Finished

\* The agent's own work is gone with its worktree only once it is merged and backed up,
\* or at the shutdown (run.go:1467-1502), whatever happens to the list of stashes.
THEOREM AgentWorkIsKept == Spec => AgentWorkKept
  <1>1. ASSUME Structure, [Next]_vars, NEW a \in attached \ attached'
        PROVE  work[a] \in {"none", "old", "merged"} \/ target[Exit] = a
    <2>1. TypeOK /\ Threads /\ WorkSafe /\ a \in Agents BY <1>1 DEF Structure, TypeOK
    <2>2. ASSUME NEW b \in Agents, StageFails(b) PROVE work[a] \in {"none", "old", "merged"}
      <3>1. a = b /\ pc[b] = "staging" BY <1>1, <2>2 DEF StageFails, Goto
      <3> QED BY <2>1, <3>1 DEF WorkSafe, Unstarted, Creating
    <2>3. ASSUME NEW x \in Actors, RemoveWorktree(x)
          PROVE  work[a] \in {"none", "old", "merged"} \/ target[Exit] = a
      <3>1. a = target[x] /\ pc[x] = "removing" BY <1>1, <2>3 DEF RemoveWorktree, Goto
      <3>2. x = Exit \/ x = a BY <2>1, <3>1, Names DEF Threads
      <3> QED BY <2>1, <3>1, <3>2 DEF WorkSafe, Cleaning
    <2> QED BY <1>1, <2>2, <2>3, WorktreeGoes
  <1>2. Structure /\ [Next]_vars
        => [\A a \in attached \ attached' :
              \/ work[a] \in {"none", "old", "merged"}
              \/ target[Exit] = a]_vars
    BY <1>1
  <1> QED BY <1>2, StructureInvariant, PTL DEF Spec, AgentWorkKept
=============================================================================
