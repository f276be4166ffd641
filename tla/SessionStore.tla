----------------------------- MODULE SessionStore -----------------------------
(***************************************************************************)
(* The session store (src/internal/session/store.go, branch.go,            *)
(* autocompact.go): for each session a metadata file, a log of events, a   *)
(* table of branches and a log for each branch, and in memory a bounded    *)
(* cache of sessions.  FileService.mu lets one operation run at a time;    *)
(* between any two of its writes the process may crash, and any write may  *)
(* fail.                                                                   *)
(*                                                                         *)
(* A clock numbers events and creations, so that an event is its own       *)
(* timestamp.  A rewrite goes through a temporary file and a rename: it    *)
(* happens or it does not.  Only the append to a log can stop half-way.    *)
(***************************************************************************)
EXTENDS Integers, Sequences, FiniteSets, SequencesExt

CONSTANTS
    Sessions,
    Forks,        \* the names of branches other than main
    MaxCached,    \* maxCachedSessions (20 in the code)
    Keeps,        \* how many of the last events a compaction may keep
    MaxClock,     \* bound: how many sessions and events are ever created
    SwitchWhole   \* a SwitchBranch that has replaced the events in memory or in the log gets through

Main == "main"
Branches == Forks \cup {Main}

ASSUME StoreAssumption ==
    /\ IsFiniteSet(Sessions)
    /\ Main \notin Forks
    /\ MaxCached \in Nat \ {0}
    /\ Keeps \subseteq Nat
    /\ MaxClock \in Nat
    /\ SwitchWhole \in BOOLEAN

VARIABLES
    metaTime, \* updatedAt in meta.json, 0 while there is no such file
    log,      \* the lines of events.jsonl
    torn,     \* its last line has no end
    table,    \* branches.json: the active branch, and the head of each branch
    files,    \* the lines of branches/<name>/events.jsonl
    cached,   \* the sessions of FileService.sessions
    mem,      \* fileSession.events of a cached session
    when,     \* fileSession.updatedAt of a cached session
    op,       \* the operation that holds the lock, and how far it is
    clock,
    owed,     \* history: the acknowledged events of a branch that nobody removed
    mine      \* history: the events that were put on a branch, or on the one it forked from

diskVars == <<metaTime, log, torn, table, files>>
memVars == <<cached, mem, when>>
histVars == <<clock, owed, mine>>
vars == <<diskVars, memVars, op, histVars>>

\* A line is an event; Summary is what a compaction puts in front of those it keeps,
\* and Bad a line that is not an event.
Summary == 0
Bad == -1
Lines == {Bad, Summary} \cup 1..MaxClock

NoHead == -1
Idle == [at |-> "idle"]
Free == op.at \in {"idle", "got"}

Readable(lines) == Bad \notin ToSet(lines)

\* loadBranches of a session without a branches.json.
DefaultTable ==
    [active |-> Main, head |-> [b \in Branches |-> IF b = Main THEN 0 ELSE NoHead]]

Active(s) == table[s].active
Registered(s) == {b \in Branches : table[s].head[b] # NoHead}

-----------------------------------------------------------------------------
Init ==
    /\ metaTime = [s \in Sessions |-> 0]
    /\ log = [s \in Sessions |-> <<>>]
    /\ torn = [s \in Sessions |-> FALSE]
    /\ table = [s \in Sessions |-> DefaultTable]
    /\ files = [s \in Sessions |-> [b \in Branches |-> <<>>]]
    /\ cached = {}
    /\ mem = [s \in Sessions |-> <<>>]
    /\ when = [s \in Sessions |-> 0]
    /\ op = Idle
    /\ clock = 0
    /\ owed = [s \in Sessions |-> [b \in Branches |-> {}]]
    /\ mine = [s \in Sessions |-> [b \in Branches |-> {}]]

-----------------------------------------------------------------------------
(***************************************************************************)
(* The cache.                                                              *)
(***************************************************************************)
\* evictCachedSessionsLocked: the MaxCached that were updated last stay.
Evict(S, t) ==
    {s \in S : Cardinality({r \in S : t[r] > t[s]}) < MaxCached}

\* A session enters the cache with its events and its time, and others leave.
Cache(s, events, time) ==
    LET t == [when EXCEPT ![s] = time]
        stay == Evict(cached \cup {s}, t)
    IN  /\ cached' = stay
        /\ when' = [r \in Sessions |-> IF r \in stay THEN t[r] ELSE 0]
        /\ mem' = [r \in Sessions |-> IF r \notin stay THEN <<>>
                                      ELSE IF r = s THEN events ELSE mem[r]]

\* loadSession: the events the operation goes on with, or an error.
CanLoad(s) == s \in cached \/ (metaTime[s] > 0 /\ Readable(log[s]))
Events(s) == IF s \in cached THEN mem[s] ELSE log[s]

\* What is in the cache once it has loaded the session and made events of it.
LoadAs(s, events) ==
    IF s \in cached
    THEN mem' = [mem EXCEPT ![s] = events] /\ UNCHANGED <<cached, when>>
    ELSE Cache(s, events, metaTime[s])

-----------------------------------------------------------------------------
(***************************************************************************)
(* Create and Get.                                                         *)
(***************************************************************************)
\* meta.json is written; the file of events is the next write.
CreateBegin(s) ==
    /\ Free
    /\ metaTime[s] = 0
    /\ clock < MaxClock
    /\ clock' = clock + 1
    /\ metaTime' = [metaTime EXCEPT ![s] = clock + 1]
    /\ op' = [at |-> "created", s |-> s]
    /\ UNCHANGED <<log, torn, table, files, memVars, owed, mine>>

CreateEnd ==
    /\ op.at = "created"
    /\ log' = [log EXCEPT ![op.s] = <<>>]
    /\ Cache(op.s, <<>>, metaTime[op.s])
    /\ op' = Idle
    /\ UNCHANGED <<metaTime, torn, table, files, histVars>>

\* Get of a session that is not cached; the caller has it now.
Get(s) ==
    /\ Free
    /\ s \notin cached /\ CanLoad(s)
    /\ LoadAs(s, log[s])
    /\ op' = [at |-> "got", s |-> s]
    /\ UNCHANGED <<diskVars, histVars>>

-----------------------------------------------------------------------------
(***************************************************************************)
(* AppendEvent: memory, the log, meta.json, the head of the branch.        *)
(***************************************************************************)
AppendBegin(s) ==
    /\ Free
    /\ s \in cached
    /\ clock < MaxClock
    /\ clock' = clock + 1
    /\ mem' = [mem EXCEPT ![s] = Append(@, clock + 1)]
    /\ when' = [when EXCEPT ![s] = clock + 1]
    /\ mine' = [mine EXCEPT ![s][Active(s)] = @ \cup {clock + 1}]
    /\ op' = [at |-> "appending", s |-> s]
    /\ UNCHANGED <<diskVars, cached, owed>>

\* A line that is put behind a torn one becomes part of it.
AppendLog ==
    LET s == op.s IN
    /\ op.at = "appending"
    /\ log' = IF torn[s] THEN log ELSE [log EXCEPT ![s] = Append(@, Last(mem[s]))]
    /\ torn' = [torn EXCEPT ![s] = FALSE]
    /\ op' = [op EXCEPT !.at = "logged"]
    /\ UNCHANGED <<metaTime, table, files, memVars, histVars>>

\* The disk is full, or the process is killed in the write: nothing or a part of the line is there.
AppendLogStops ==
    LET s == op.s IN
    /\ op.at = "appending"
    /\ \/ UNCHANGED <<log, torn>>
       \/ /\ log' = IF torn[s] THEN log ELSE [log EXCEPT ![s] = Append(@, Bad)]
          /\ torn' = [torn EXCEPT ![s] = TRUE]
    /\ op' = Idle
    /\ UNCHANGED <<metaTime, table, files, memVars, histVars>>

AppendMeta ==
    /\ op.at = "logged"
    /\ metaTime' = [metaTime EXCEPT ![op.s] = when[op.s]]
    /\ op' = [op EXCEPT !.at = "stamped"]
    /\ UNCHANGED <<log, torn, table, files, memVars, histVars>>

\* The head is saved at best; the event is acknowledged.
AppendHead ==
    LET s == op.s IN
    /\ op.at = "stamped"
    /\ \/ table' = [table EXCEPT ![s].head[Active(s)] = Len(mem[s]) - 1]
       \/ UNCHANGED table
    /\ owed' = [owed EXCEPT ![s][Active(s)] = @ \cup {Last(mem[s])}]
    /\ op' = Idle
    /\ UNCHANGED <<metaTime, log, torn, files, memVars, clock, mine>>

-----------------------------------------------------------------------------
(***************************************************************************)
(* Branches.                                                               *)
(***************************************************************************)
\* CreateBranch copies up to the head, which may be behind the events or past them.
Fork(s, events) ==
    LET n == table[s].head[Active(s)] + 1
    IN  IF n < Len(events) THEN SubSeq(events, 1, n) ELSE events

ForkBegin(s, b) ==
    /\ Free
    /\ CanLoad(s)
    /\ b \notin Registered(s)
    /\ LoadAs(s, Events(s))
    /\ files' = [files EXCEPT ![s][b] = Fork(s, Events(s))]
    /\ op' = [at |-> "forked", s |-> s, b |-> b]
    /\ UNCHANGED <<metaTime, log, torn, table, histVars>>

ForkEnd ==
    LET s == op.s
        b == op.b
    IN  /\ op.at = "forked"
        /\ table' = [table EXCEPT ![s].head[b] = table[s].head[Active(s)]]
        /\ owed' = [owed EXCEPT ![s][b] = owed[s][Active(s)] \cap ToSet(files[s][b])]
        /\ mine' = [mine EXCEPT ![s][b] = mine[s][Active(s)]]
        /\ op' = Idle
        /\ UNCHANGED <<metaTime, log, torn, files, memVars, clock>>

\* Slip: the events of the branch that is left are in the log anyway.
SwitchBeginUnsaved(s, b) ==
    /\ Free
    /\ CanLoad(s)
    /\ b \in Registered(s) \ {Active(s)}
    /\ LoadAs(s, Events(s))
    /\ op' = [at |-> "saved", s |-> s, b |-> b]
    /\ UNCHANGED <<diskVars, histVars>>

\* Slip: they are appended to what the branch's file holds.
SwitchBeginAppending(s, b) ==
    /\ Free
    /\ CanLoad(s)
    /\ b \in Registered(s) \ {Active(s)}
    /\ LoadAs(s, Events(s))
    /\ files' = [files EXCEPT ![s][Active(s)] = @ \o Events(s)]
    /\ op' = [at |-> "saved", s |-> s, b |-> b]
    /\ UNCHANGED <<metaTime, log, torn, table, histVars>>

\* SwitchBranch saves the branch it leaves.
SwitchBegin(s, b) ==
    /\ Free
    /\ CanLoad(s)
    /\ b \in Registered(s) \ {Active(s)}
    /\ LoadAs(s, Events(s))
    /\ files' = [files EXCEPT ![s][Active(s)] = Events(s)]
    /\ op' = [at |-> "saved", s |-> s, b |-> b]
    /\ UNCHANGED <<metaTime, log, torn, table, histVars>>

\* The events of the branch in memory; the session may have left the cache again.
Enter(s, events) ==
    mem' = IF s \in cached THEN [mem EXCEPT ![s] = events] ELSE mem

\* Slip: the log is rewritten, memory keeps the events of the branch that was left.
SwitchRewriteDiskOnly ==
    /\ op.at = "saved"
    /\ log' = [log EXCEPT ![op.s] = files[op.s][op.b]]
    /\ torn' = [torn EXCEPT ![op.s] = FALSE]
    /\ op' = [op EXCEPT !.at = "rewritten"]
    /\ UNCHANGED <<metaTime, table, files, memVars, histVars>>

\* It reads the branch it enters, in memory and then into the log.  An inactive branch
\* has a file: it was written before the branch was registered or left.
SwitchRewrite ==
    /\ op.at = "saved"
    /\ Enter(op.s, files[op.s][op.b])
    /\ log' = [log EXCEPT ![op.s] = files[op.s][op.b]]
    /\ torn' = [torn EXCEPT ![op.s] = FALSE]
    /\ op' = [op EXCEPT !.at = "rewritten"]
    /\ UNCHANGED <<metaTime, table, files, cached, when, histVars>>

SwitchRewriteFails ==
    /\ op.at = "saved"
    /\ SwitchWhole => op.s \notin cached
    /\ Enter(op.s, files[op.s][op.b])
    /\ op' = Idle
    /\ UNCHANGED <<diskVars, cached, when, histVars>>

SwitchEnd ==
    /\ op.at = "rewritten"
    /\ table' = [table EXCEPT ![op.s].active = op.b]
    /\ op' = Idle
    /\ UNCHANGED <<metaTime, log, torn, files, memVars, histVars>>

-----------------------------------------------------------------------------
(***************************************************************************)
(* What removes events: ClearEvents, Compact and AutoCompact.  Memory      *)
(* changes first, then the log is rewritten, or that fails.                *)
(***************************************************************************)
\* Slip: the session that is loaded for it goes into the cache as it was on disk.
ReplaceOnDisk(s, events) ==
    /\ LoadAs(s, log[s])
    /\ owed' = [owed EXCEPT ![s][Active(s)] = @ \cap ToSet(events)]
    /\ \/ log' = [log EXCEPT ![s] = events] /\ torn' = [torn EXCEPT ![s] = FALSE]
       \/ UNCHANGED <<log, torn>>
    /\ op' = Idle
    /\ UNCHANGED <<metaTime, table, files, clock, mine>>

\* Nobody is owed an event that he asked to remove.
Replace(s, events) ==
    /\ LoadAs(s, events)
    /\ owed' = [owed EXCEPT ![s][Active(s)] = @ \cap ToSet(events)]
    /\ \/ log' = [log EXCEPT ![s] = events] /\ torn' = [torn EXCEPT ![s] = FALSE]
       \/ UNCHANGED <<log, torn>>
    /\ op' = Idle
    /\ UNCHANGED <<metaTime, table, files, clock, mine>>

ClearEvents(s) ==
    /\ Free
    /\ CanLoad(s)
    /\ Replace(s, <<>>)

\* Whatever the rebuild keeps of the older events is part of the summary.
Compact(s, keep) ==
    /\ Free
    /\ CanLoad(s)
    /\ keep < Len(Events(s))
    /\ Replace(s, <<Summary>> \o SubSeq(Events(s), Len(Events(s)) - keep + 1, Len(Events(s))))

-----------------------------------------------------------------------------
\* The file of events, meta.json or the table of branches cannot be written: an error.
WriteFails ==
    /\ \/ op.at \in {"created", "logged", "forked"}
       \/ op.at = "rewritten" /\ ~SwitchWhole
    /\ op' = Idle
    /\ UNCHANGED <<diskVars, memVars, histVars>>

\* The process ends, at any point, and starts again with an empty cache.
Crash ==
    /\ op.at = "rewritten" => ~SwitchWhole
    /\ cached' = {}
    /\ mem' = [s \in Sessions |-> <<>>]
    /\ when' = [s \in Sessions |-> 0]
    /\ op' = Idle
    /\ UNCHANGED <<diskVars, histVars>>

OperationBegins(s) ==
    \/ CreateBegin(s) \/ Get(s) \/ AppendBegin(s) \/ ClearEvents(s)
    \/ \E b \in Branches : ForkBegin(s, b) \/ SwitchBegin(s, b)
    \/ \E keep \in Keeps : Compact(s, keep)

OperationGoesOn ==
    \/ CreateEnd \/ AppendLog \/ AppendLogStops \/ AppendMeta \/ AppendHead
    \/ ForkEnd \/ SwitchRewrite \/ SwitchRewriteFails \/ SwitchEnd \/ WriteFails

Next == (\E s \in Sessions : OperationBegins(s)) \/ OperationGoesOn \/ Crash

Spec == Init /\ [][Next]_vars

-----------------------------------------------------------------------------
Operations == {"got", "created", "appending", "logged", "stamped", "forked", "saved", "rewritten"}

TypeOK ==
    /\ metaTime \in [Sessions -> 0..MaxClock]
    /\ log \in [Sessions -> Seq(Lines)]
    /\ torn \in [Sessions -> BOOLEAN]
    /\ table \in [Sessions -> [active : Branches, head : [Branches -> Int]]]
    /\ files \in [Sessions -> [Branches -> Seq(Lines)]]
    /\ cached \subseteq Sessions /\ Cardinality(cached) <= MaxCached
    /\ mem \in [Sessions -> Seq(Lines)]
    /\ when \in [Sessions -> 0..MaxClock]
    /\ op \in {Idle} \cup [at : Operations, s : Sessions]
                   \cup [at : Operations, s : Sessions, b : Branches]
    /\ clock \in 0..MaxClock
    /\ owed \in [Sessions -> [Branches -> SUBSET (1..MaxClock)]]
    /\ mine \in [Sessions -> [Branches -> SUBSET (1..MaxClock)]]

\* While SwitchBranch has the new branch in the log, that is the branch it holds.
OnBranch(s) == IF op.at = "rewritten" /\ op.s = s THEN op.b ELSE Active(s)

\* What a load of the session, or the switch to a branch of it, would read.
Content(s, b) == IF b = OnBranch(s) THEN log[s] ELSE files[s][b]

EventsOf(lines) == ToSet(lines) \ {Summary, Bad}

\* Whatever was acknowledged and not removed is there after a crash at any point and
\* after any failed write, on its branch: a session that can be loaded is never
\* silently shorter (store.go:477-548, branch.go:79-124).
HistoryKept ==
    \A s \in Sessions, b \in Branches :
        Readable(Content(s, b)) => owed[s][b] \subseteq EventsOf(Content(s, b))

\* A running turn sees what was acknowledged, through evictions and reloads, switches
\* and failed rewrites.
MemoryServesHistory ==
    \A s \in cached : owed[s][OnBranch(s)] \subseteq EventsOf(mem[s])

\* An event never turns up on a branch that it was not put on and that was not forked
\* from one that has it, neither on disk nor in memory.
BranchesApart ==
    \A s \in Sessions :
        /\ \A b \in Registered(s) : EventsOf(Content(s, b)) \subseteq mine[s][b]
        /\ EventsOf(mem[s]) \subseteq mine[s][OnBranch(s)]

Ascending(lines) ==
    \A i, j \in DOMAIN lines : i < j /\ lines[i] # Bad /\ lines[j] # Bad => lines[i] < lines[j]

\* No event is there twice or out of its order, whatever was saved, switched,
\* forked, compacted and reloaded on the way.
InOrder ==
    \A s \in Sessions :
        /\ Ascending(log[s]) /\ Ascending(mem[s])
        /\ \A b \in Branches : Ascending(files[s][b])

\* The comment of maxCachedSessions: an evicted session can be reloaded from disk on
\* demand (store.go:169-171), so the AppendEvent that follows a Get finds it.
LoadedIsCached == op.at = "got" => op.s \in cached
=============================================================================
