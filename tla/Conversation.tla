----------------------------- MODULE Conversation -----------------------------
(***************************************************************************)
(* The conversation of one session (src/internal/agent/dangling_calls.go,  *)
(* retry.go; src/internal/session/autocompact.go, compaction_shed.go;      *)
(* src/internal/tools/dedup.go; the turns of src/internal/tui): the list   *)
(* of events that goes to the model, which turns append to, the two stages *)
(* of compaction and /compact cut, and /clear empties.  A turn that was    *)
(* stopped may still append what was on its way, beside the next turn.     *)
(*                                                                         *)
(* Every call reads a file; what the file holds matters only in that it is *)
(* or is not what the deduper saw last.  Token counts are left out: any    *)
(* stage of compaction may be due, and the user's messages fit.  Which     *)
(* writes SessionStore tells apart is not told apart here: an append or a  *)
(* rewrite of the log succeeds or fails.                                   *)
(***************************************************************************)
EXTENDS Integers, Sequences, FiniteSets, SequencesExt, FiniteSetsExt

CONSTANTS
    Files,
    KeepRecent,  \* KeepRecentEvents, and KeepRecent of /compact (10 in the code)
    MaxRetries,  \* RetryConfig.MaxRetries (5)
    MaxStuck,    \* maxStuckRecoveries (2)
    MaxTurns,    \* bound: the prompts the user submits
    MaxCalls,    \* bound: the calls the model makes
    MaxUpsets    \* bound: what does not go straight, together: a failed write, an error
                 \* or loop a turn recovers from, Esc, /clear, /compact, a restart

Turns == 1..MaxTurns
Calls == 1..MaxCalls
NoTurn == 0
NoCall == 0

ASSUME ConversationAssumption ==
    /\ IsFiniteSet(Files)
    /\ KeepRecent \in Nat \ {0}
    /\ MaxRetries \in Nat /\ MaxStuck \in Nat
    /\ MaxTurns \in Nat /\ MaxCalls \in Nat /\ MaxUpsets \in Nat

VARIABLES
    events,   \* fileSession.events
    log,      \* events.jsonl
    upsets,   \* what has not gone straight so far
    seen,     \* ResultDeduper.seen: the call whose result it recorded for a file
    at,       \* where the goroutine of a turn stands
    doing,    \* the calls a turn is busy with, and the file of each
    got,      \* the results that are back, or that a repair is about to give
    tries,    \* attempt of retryLoop
    stuck,    \* attempt of runAgentLoop
    yielded,  \* hadEvents of runAttempt
    stopped,  \* the turns whose context is canceled
    begun,    \* the turns that were begun
    running,  \* the turn that the user interface takes to be running
    calls,    \* the calls that were made
    touched,  \* history: turns a call of which ran since streamTurn
    late      \* history: a turn added to the conversation after the next had begun

convVars == <<events, log>>
turnVars == <<doing, got, tries, stuck, yielded, touched>>
uiVars == <<stopped, begun, running>>
vars == <<convVars, upsets, seen, at, turnVars, uiVars, calls, late>>

\* Events, by what compaction and the pairing of calls tell apart.
Prompt == [kind |-> "prompt"]
Text == [kind |-> "text"]
Summary == [kind |-> "summary"]
CallsEvent(on) == [kind |-> "calls", on |-> on]
ResultsEvent(of) == [kind |-> "results", of |-> of]

\* A result is in full, points to an earlier call's, was shed, or is an error.
Full == [as |-> "full"]
Pointer(c) == [as |-> "pointer", to |-> c]
Stub == [as |-> "stub"]
Error == [as |-> "error"]

Asked(ev) == IF ev.kind = "calls" THEN DOMAIN ev.on ELSE {}
Answered(ev) == IF ev.kind = "results" THEN DOMAIN ev.of ELSE {}

AllAsked(evs) == UNION {Asked(evs[i]) : i \in DOMAIN evs}
AllAnswered(evs) == UNION {Answered(evs[i]) : i \in DOMAIN evs}

-----------------------------------------------------------------------------
(***************************************************************************)
(* danglingResponses.                                                      *)
(***************************************************************************)
\* Slip: only the last event can have been cut off.
DanglingLast(evs) ==
    IF evs = <<>> THEN {} ELSE Asked(Last(evs)) \ AllAnswered(evs)

Dangling(evs) == AllAsked(evs) \ AllAnswered(evs)

-----------------------------------------------------------------------------
(***************************************************************************)
(* Shedding.                                                               *)
(***************************************************************************)
FileOf(evs, c) ==
    LET i == CHOOSE i \in DOMAIN evs : c \in Asked(evs[i])
    IN  evs[i].on[c]

\* Slip: the target is not looked up, and a response does not name it.
SameTargetByName(evs, c, d, alike) == TRUE

\* responseTargetKey: the arguments of the call, or what is left of the response.
SameTarget(evs, c, d, alike) ==
    IF c \in AllAsked(evs) /\ d \in AllAsked(evs)
    THEN FileOf(evs, c) = FileOf(evs, d)
    ELSE alike /\ c \notin AllAsked(evs) /\ d \notin AllAsked(evs)

\* The walk goes back from the cutoff, and forward within an event: a result is
\* superseded by one for the same target that it came upon before.
Superseded(evs, i, c, alike) ==
    \E j \in i..(Len(evs) - KeepRecent) : \E d \in Answered(evs[j]) :
        (j > i \/ d < c) /\ SameTarget(evs, c, d, alike)

\* shedResponsePayload leaves errors, pointers and stubs as they are: too small.
Shed(evs, alike) ==
    [i \in DOMAIN evs |->
        IF evs[i].kind # "results" \/ i > Len(evs) - KeepRecent THEN evs[i]
        ELSE ResultsEvent([c \in DOMAIN evs[i].of |->
                 IF evs[i].of[c] = Full /\ Superseded(evs, i, c, alike)
                 THEN Stub ELSE evs[i].of[c]])]

-----------------------------------------------------------------------------
(***************************************************************************)
(* Summarizing.  A cut is the number of events in front of it.             *)
(***************************************************************************)
\* Slip: the cut is where the budget puts it.
CleanBoundaryAsIs(evs, cut) == cut

\* The orphan checks look at the first call of the last event in front of the cut,
\* and at the first response of the first event behind it.
CutsCall(evs, n) ==
    Asked(evs[n]) # {} /\ \E j \in n+1..Len(evs) : Min(Asked(evs[n])) \in Answered(evs[j])

CutsResponse(evs, n) ==
    Answered(evs[n+1]) # {} /\ \E j \in 1..n : Min(Answered(evs[n+1])) \in Asked(evs[j])

\* advanceToCleanBoundary
CleanBoundary(evs, cut) ==
    Min({n \in cut..Len(evs) :
            n = Len(evs) \/ (~CutsCall(evs, n) /\ ~CutsResponse(evs, n))})

\* BuildSummarizedEvents and the tail: an opening summary stays, and so does what the
\* user wrote, of which only the number is told apart.
Prompts(evs, cut) == [k \in 1..Cardinality({i \in 1..cut : evs[i] = Prompt}) |-> Prompt]

Summarized(evs, cut) ==
    (IF evs[1] = Summary THEN <<Summary>> ELSE <<>>)
        \o Prompts(evs, cut) \o <<Summary>> \o SubSeq(evs, cut + 1, Len(evs))

-----------------------------------------------------------------------------
\* A session of earlier days may hold a call that nobody answered.
OldSession(f) == <<Prompt, CallsEvent([c \in {1} |-> f]), Prompt, Text>>

Init ==
    /\ \/ events = <<>> /\ calls = 0
       \/ MaxCalls > 0 /\ calls = 1 /\ \E f \in Files : events = OldSession(f)
    /\ log = events /\ upsets = 0
    /\ seen = [f \in Files |-> NoCall]
    /\ at = [t \in Turns |-> "new"]
    /\ doing = [t \in Turns |-> <<>>] /\ got = [t \in Turns |-> <<>>]
    /\ tries = [t \in Turns |-> 0]
    /\ stuck = [t \in Turns |-> 0]
    /\ yielded = {} /\ touched = {}
    /\ stopped = {} /\ begun = {} /\ running = NoTurn
    /\ late = FALSE

Goto(t, place) == at' = [at EXCEPT ![t] = place]

Forget(S) ==
    /\ doing' = [t \in Turns |-> IF t \in S THEN <<>> ELSE doing[t]]
    /\ got' = [t \in Turns |-> IF t \in S THEN <<>> ELSE got[t]]
    /\ tries' = [t \in Turns |-> IF t \in S THEN 0 ELSE tries[t]]
    /\ stuck' = [t \in Turns |-> IF t \in S THEN 0 ELSE stuck[t]]
    /\ yielded' = yielded \ S /\ touched' = touched \ S

Newest(t) == t = Cardinality(begun)

\* A goroutine of an earlier turn that appends does so into a later one.
Lateness(t) == late' = (late \/ ~Newest(t))

Upset(n) == upsets + n <= MaxUpsets /\ upsets' = upsets + n

\* The goroutine ends, its variables with it, and the user interface hears of it.
Over(t) ==
    /\ Goto(t, "over")
    /\ Forget({t})
    /\ running' = IF running = t THEN NoTurn ELSE running
    /\ UNCHANGED <<stopped, begun>>

\* AppendEvent in memory and in the log, and the turn goes onward; or a write fails, that
\* of the log or the one of the metadata behind it, and with it the turn.
AppendEvent(t, ev, Onward) ==
    /\ events' = Append(events, ev)
    /\ Lateness(t)
    /\ \/ log' = Append(log, ev) /\ UNCHANGED <<upsets, uiVars>> /\ Onward
       \/ Upset(1) /\ log' \in {log, Append(log, ev)} /\ Over(t)

\* The list is replaced in memory and then in the log, if that can be written.
Replace(evs, n) ==
    /\ events' = evs
    /\ (log' = evs /\ Upset(n)) \/ (UNCHANGED log /\ Upset(n + 1))

-----------------------------------------------------------------------------
(***************************************************************************)
(* The user.                                                               *)
(***************************************************************************)
\* A prompt while nothing is running, as far as the user interface knows.
Submit(t) ==
    /\ running = NoTurn
    /\ t = Cardinality(begun) + 1
    /\ begun' = begun \cup {t}
    /\ running' = t
    /\ Goto(t, "hook")
    /\ UNCHANGED <<convVars, upsets, seen, turnVars, stopped, calls, late>>

\* Esc; the goroutine finds out in its own time.
Escape ==
    /\ running # NoTurn
    /\ Upset(1)
    /\ stopped' = stopped \cup {running}
    /\ running' = NoTurn
    /\ UNCHANGED <<convVars, seen, at, turnVars, begun, calls, late>>

\* /clear, or the gauge's [x], which works during a turn and does not stop it.
ClearConversation ==
    /\ events # <<>>
    /\ Replace(<<>>, 1)
    /\ running' = NoTurn
    /\ UNCHANGED <<seen, at, turnVars, stopped, begun, calls, late>>

\* /compact keeps the last events, whatever they are.
Compact ==
    /\ running = NoTurn
    /\ KeepRecent < Len(events)
    /\ Replace(<<Summary>> \o SubSeq(events, Len(events) - KeepRecent + 1, Len(events)), 1)
    /\ UNCHANGED <<seen, at, turnVars, uiVars, calls, late>>

\* The process ends; the next one loads the log.
Restart ==
    /\ Upset(1)
    /\ events' = log
    /\ seen' = [f \in Files |-> NoCall]
    /\ at' = [t \in Turns |-> IF t \in begun THEN "over" ELSE at[t]]
    /\ Forget(Turns)
    /\ running' = NoTurn
    /\ UNCHANGED <<log, stopped, begun, calls, late>>

-----------------------------------------------------------------------------
(***************************************************************************)
(* The start of a turn: the pre-turn hook, the repair, the prompt.         *)
(***************************************************************************)
\* Nothing is due, or the conversation is too short, or nothing is superseded.
AutoCompactNone(t) ==
    /\ at[t] = "hook"
    /\ Goto(t, "repair")
    /\ UNCHANGED <<convVars, upsets, seen, turnVars, uiVars, calls, late>>

AutoCompactShed(t) ==
    /\ at[t] = "hook"
    /\ \E alike \in BOOLEAN :
          Shed(events, alike) # events /\ Replace(Shed(events, alike), 0)
    /\ Goto(t, "repair")
    /\ UNCHANGED <<seen, turnVars, uiVars, calls, late>>

\* The deduper is reset once the log is rewritten; the turn goes on in any case.
AutoCompactSummarize(t) ==
    /\ at[t] = "hook"
    /\ KeepRecent < Len(events)
    /\ LET rebuilt == Summarized(events, CleanBoundary(events, Len(events) - KeepRecent))
       IN  /\ events' = rebuilt
           /\ \/ log' = rebuilt /\ UNCHANGED upsets /\ seen' = [f \in Files |-> NoCall]
              \/ UNCHANGED <<log, seen>> /\ Upset(1)
    /\ Goto(t, "repair")
    /\ UNCHANGED <<turnVars, uiVars, calls, late>>

\* repairDanglingCalls: the calls are found in one critical section of the store and
\* answered in another.
RepairReads(t) ==
    /\ at[t] = "repair"
    /\ IF Dangling(events) = {}
       THEN Goto(t, "prompt") /\ UNCHANGED got
       ELSE /\ Goto(t, "repairing")
            /\ got' = [got EXCEPT ![t] = [c \in Dangling(events) |-> Error]]
    /\ UNCHANGED <<convVars, upsets, seen, doing, tries, stuck, yielded, touched, uiVars, calls,
                   late>>

RepairAppends(t) ==
    /\ at[t] = "repairing"
    /\ AppendEvent(t, ResultsEvent(got[t]),
          /\ Goto(t, "prompt")
          /\ got' = [got EXCEPT ![t] = <<>>]
          /\ UNCHANGED <<doing, tries, stuck, yielded, touched>>)
    /\ UNCHANGED <<seen, calls>>

AppendPrompt(t) ==
    /\ at[t] = "prompt"
    /\ AppendEvent(t, Prompt, Goto(t, "ready") /\ UNCHANGED turnVars)
    /\ UNCHANGED <<seen, calls>>

-----------------------------------------------------------------------------
(***************************************************************************)
(* A step of the model: the request, its answer, the tools.                *)
(***************************************************************************)
Ask(t) ==
    /\ at[t] = "ready"
    /\ t \notin stopped
    /\ Goto(t, "asking")
    /\ UNCHANGED <<convVars, upsets, seen, turnVars, uiVars, calls, late>>

ModelTalks(t) ==
    /\ at[t] = "asking"
    /\ AppendEvent(t, Text, Goto(t, "done") /\ UNCHANGED turnVars)
    /\ UNCHANGED <<seen, calls>>

\* Slip: only what the user can read counts as an answer.
YieldsText(t) == UNCHANGED yielded

\* runAttempt: the run has had an event and is not repeated.
Yields(t) == yielded' = yielded \cup {t}

ModelCalls(t) ==
    /\ at[t] = "asking"
    /\ \E n \in 1..(MaxCalls - calls) : \E on \in [calls+1..calls+n -> Files] :
          /\ calls' = calls + n
          /\ AppendEvent(t, CallsEvent(on),
                /\ Goto(t, "tools")
                /\ doing' = [doing EXCEPT ![t] = on]
                /\ Yields(t)
                /\ UNCHANGED <<got, tries, stuck, touched>>)
    /\ UNCHANGED seen

\* Results arrive in any order.  The deduper hands out a pointer when the file is as
\* it was when a result was recorded for it, and else records this one.
ToolReturns(t, c) ==
    LET f == doing[t][c]
        Back(r) == got' = [got EXCEPT ![t] =
                       [d \in DOMAIN @ \cup {c} |-> IF d = c THEN r ELSE @[d]]]
    IN  /\ at[t] = "tools"
        /\ c \in DOMAIN doing[t] \ DOMAIN got[t]
        /\ \/ Back(Error) /\ UNCHANGED seen
           \/ seen[f] # NoCall /\ Back(Pointer(seen[f])) /\ UNCHANGED seen
           \/ Back(Full) /\ seen' = [seen EXCEPT ![f] = c]
        /\ touched' = touched \cup {t}
        /\ UNCHANGED <<convVars, upsets, at, doing, tries, stuck, yielded, uiVars, calls, late>>

AppendResults(t) ==
    /\ at[t] = "tools"
    /\ DOMAIN got[t] = DOMAIN doing[t]
    /\ AppendEvent(t, ResultsEvent(got[t]),
          /\ Goto(t, "ready")
          /\ doing' = [doing EXCEPT ![t] = <<>>] /\ got' = [got EXCEPT ![t] = <<>>]
          /\ UNCHANGED <<tries, stuck, yielded, touched>>)
    /\ UNCHANGED <<seen, calls>>

-----------------------------------------------------------------------------
(***************************************************************************)
(* How a turn goes on after an error, and how it ends.                     *)
(***************************************************************************)
\* retryLoop repeats the whole run, but not once it has yielded an event.
Retry(t) ==
    /\ at[t] = "asking"
    /\ t \notin yielded
    /\ tries[t] < MaxRetries
    /\ Upset(1)
    /\ tries' = [tries EXCEPT ![t] = @ + 1]
    /\ Goto(t, "waiting")
    /\ UNCHANGED <<convVars, seen, doing, got, stuck, yielded, touched, uiVars, calls, late>>

\* The pause is over; a canceled context ends it.
RetryBegins(t) ==
    /\ at[t] = "waiting"
    /\ t \notin stopped
    /\ Goto(t, "hook")
    /\ UNCHANGED <<convVars, upsets, seen, turnVars, uiVars, calls, late>>

\* streamTurn stops ranging at an event that shows a loop: at calls that have not run,
\* at results, or in the middle of an answer.
LoopShows(t) ==
    \/ at[t] = "asking"
    \/ at[t] = "tools" /\ got[t] = <<>>
    \/ at[t] = "ready" /\ t \in yielded

StuckRecovers(t) ==
    /\ LoopShows(t)
    /\ stuck[t] < MaxStuck
    /\ Upset(1)
    /\ stuck' = [stuck EXCEPT ![t] = @ + 1]
    /\ tries' = [tries EXCEPT ![t] = 0]
    /\ yielded' = yielded \ {t} /\ touched' = touched \ {t}
    /\ doing' = [doing EXCEPT ![t] = <<>>] /\ UNCHANGED got
    /\ Goto(t, "hook")
    /\ UNCHANGED <<convVars, seen, uiVars, calls, late>>

StuckGivesUp(t) ==
    /\ LoopShows(t)
    /\ stuck[t] = MaxStuck
    /\ Over(t)
    /\ UNCHANGED <<convVars, upsets, seen, calls, late>>

\* The request fails for good.
Fails(t) ==
    /\ at[t] = "asking"
    /\ t \notin stopped
    /\ Over(t)
    /\ UNCHANGED <<convVars, upsets, seen, calls, late>>

\* A canceled context ends what waits for the model, for a tool or for a retry.
Canceled(t) ==
    /\ at[t] \in {"ready", "asking", "tools", "waiting"}
    /\ t \in stopped
    /\ Over(t)
    /\ UNCHANGED <<convVars, upsets, seen, calls, late>>

TurnDone(t) ==
    /\ at[t] = "done"
    /\ Over(t)
    /\ UNCHANGED <<convVars, upsets, seen, calls, late>>

TurnBegins(t) ==
    AutoCompactNone(t) \/ AutoCompactShed(t) \/ AutoCompactSummarize(t)
        \/ RepairReads(t) \/ RepairAppends(t) \/ AppendPrompt(t)

TurnGoesOn(t) ==
    \/ Ask(t) \/ ModelTalks(t) \/ ModelCalls(t) \/ AppendResults(t)
    \/ \E c \in Calls : ToolReturns(t, c)

TurnEnds(t) ==
    Retry(t) \/ RetryBegins(t) \/ StuckRecovers(t) \/ StuckGivesUp(t)
        \/ Fails(t) \/ Canceled(t) \/ TurnDone(t)

Next ==
    \/ \E t \in Turns : Submit(t) \/ TurnBegins(t) \/ TurnGoesOn(t) \/ TurnEnds(t)
    \/ Escape \/ ClearConversation \/ Compact \/ Restart

Spec == Init /\ [][Next]_vars

-----------------------------------------------------------------------------
Places == {"new", "hook", "repair", "repairing", "prompt", "ready", "asking", "tools",
           "waiting", "done", "over"}
Results == {Full, Stub, Error} \cup {Pointer(c) : c \in Calls}

EventOK(ev) ==
    \/ ev \in {Prompt, Text, Summary}
    \/ ev.kind = "calls" /\ Asked(ev) \subseteq Calls
    \/ /\ ev.kind = "results" /\ Answered(ev) \subseteq Calls
       /\ \A c \in Answered(ev) : ev.of[c] \in Results

TypeOK ==
    /\ \A i \in DOMAIN events : EventOK(events[i])
    /\ \A i \in DOMAIN log : EventOK(log[i])
    /\ seen \in [Files -> Calls \cup {NoCall}]
    /\ at \in [Turns -> Places]
    /\ \A t \in Turns : DOMAIN got[t] \cup DOMAIN doing[t] \subseteq Calls
    /\ tries \in [Turns -> 0..MaxRetries] /\ stuck \in [Turns -> 0..MaxStuck]
    /\ yielded \subseteq begun /\ touched \subseteq begun /\ stopped \subseteq begun
    /\ begun = 1..Cardinality(begun) /\ running \in begun \cup {NoTurn}
    /\ calls \in 0..MaxCalls /\ upsets \in 0..MaxUpsets /\ late \in BOOLEAN

\* When a request goes out, each call in it has one result, which follows it, through
\* interrupted turns, loops, retries, compactions, failed writes, restarts and sessions
\* that were left half-way: unless a turn that was no longer the newest still added to
\* the conversation (dangling_calls.go:17-29).
Paired(evs) ==
    \A i \in DOMAIN evs : \A c \in Asked(evs[i]) :
        \E j \in i+1..Len(evs) :
            {k \in DOMAIN evs : c \in Answered(evs[k])} = {j}

CallsAnswered ==
    \A t \in begun : Newest(t) /\ at[t] = "ready" /\ ~late => Paired(events)

\* "Only the newest result for a given (tool, args) is kept", but that one always is:
\* what a stub says about a newer result is true (compaction_shed.go:36-39, 270-274).
NewestKept ==
    \A i \in DOMAIN events : \A c \in Answered(events[i]) \cap AllAsked(events) :
        events[i].of[c] = Stub =>
            \E j \in i..Len(events) : \E d \in Answered(events[j]) \cap AllAsked(events) :
                /\ FileOf(events, d) = FileOf(events, c)
                /\ events[j].of[d] # Stub

\* A run is repeated only when no tool of it ran: what a tool did is never done twice
\* (retry.go:39-43, 72-76).
RetryIsHarmless == [][\A t \in Turns : tries'[t] > tries[t] => t \notin touched]_vars

\* Each result follows the calls that it answers at once, as ADK appends them.
Adjacent(evs) ==
    \A i \in DOMAIN evs :
        Answered(evs[i]) \cap AllAsked(evs) # {} =>
            i > 1 /\ Answered(evs[i]) \cap AllAsked(evs) \subseteq Asked(evs[i-1])

\* A summary never takes a call and leaves its result, several calls in an event
\* included (autocompact.go:109-113, 141-147).
CutKeepsPairs ==
    [][\A t \in Turns : AutoCompactSummarize(t) /\ Adjacent(events) =>
          AllAnswered(events') \cap AllAsked(events) \subseteq AllAsked(events')]_vars

\* "The *real* earlier result it points at is never replaced with a stub, which would
\* dangle the pointer" (compaction_shed.go:45-50).
InFull(evs, c) == \E i \in DOMAIN evs : c \in Answered(evs[i]) /\ evs[i].of[c] = Full

PointedAt(evs) ==
    {c \in Calls : \E i \in DOMAIN evs : \E d \in Answered(evs[i]) : evs[i].of[d] = Pointer(c)}

PointersSurviveShed ==
    [][\A t \in Turns : AutoCompactShed(t) =>
          \A c \in PointedAt(events) : InFull(events, c) => InFull(events', c)]_vars
=============================================================================
