----------------------------- MODULE LspManager -----------------------------
(***************************************************************************)
(* The language servers (src/internal/lsp): the manager that starts one    *)
(* per language and project, the JSON-RPC client that talks to it, and the *)
(* calls that share it, which are the lsp tools and the hook behind the    *)
(* write and edit tools.                                                   *)
(*                                                                         *)
(* All calls are about one file, so about one entry of the manager's       *)
(* table.  A call starts one server at most, and the server has its name.  *)
(* It has one request in flight at most and makes none after a request     *)
(* that was not answered, so the request's id has its name too.            *)
(***************************************************************************)
EXTENDS Integers, FiniteSets

CONSTANTS
    LspTools, \* calls of an lsp tool
    LspHooks  \* calls of the write or edit tool, with the hook behind them

Callers == LspTools \union LspHooks

ASSUME LspAssumption == IsFiniteSet(Callers) /\ LspTools \intersect LspHooks = {}

VARIABLES
    call,    \* a call: where it is, and on which server
    server,  \* the process, its pipes and its Client
    inbox,   \* the requests a process has not answered
    wire,    \* the answers the reader has not read
    pending, \* Client.pending
    servers, \* Manager.servers
    taken,   \* the servers Shutdown took, and closes
    shut     \* Shutdown was called

messages == <<inbox, wire, pending>>
manager == <<servers, taken, shut>>
lspVars == <<call, server, messages, manager>>

Alive(s) == server[s].proc = "running"

\* What writeMessage needs to succeed.
Writable(s) == Alive(s) /\ server[s].close = "none"

\* A call that is over, or back from a request, keeps nothing of it.
Proceed(c, at) ==
    call' = [call EXCEPT ![c] = IF at = "over"
                                THEN [at |-> at, srv |-> c, queries |-> FALSE, ch |-> "empty"]
                                ELSE [@ EXCEPT !.at = at, !.ch = "empty"]]

-----------------------------------------------------------------------------
\* ServerFor.

\* The table has a server, or NewClient starts one: the look at the table and the
\* start are one step, as nobody can tell when the new process was started.
ServerFor(c) ==
    /\ call[c].at = "idle"
    /\ IF servers # {}
       THEN /\ \E s \in servers : call' = [call EXCEPT ![c].at = "serving", ![c].srv = s]
            /\ UNCHANGED server
       ELSE /\ Proceed(c, "entering")
            /\ server' = [server EXCEPT ![c].proc = "running", ![c].stdout = TRUE,
                                        ![c].reader = "reading"]
    /\ UNCHANGED <<messages, manager>>

\* No server for the language, or its command does not start.
NoServer(c) ==
    /\ call[c].at = "idle"
    /\ Proceed(c, "over")
    /\ UNCHANGED <<server, messages, manager>>

\* Slip: the table is not looked at again after the start.
PlaceOverwriting(c) ==
    /\ call[c].at = "placing"
    /\ servers' = {c}
    /\ Proceed(c, "serving")
    /\ UNCHANGED <<server, messages, taken, shut>>

\* Slip: the call goes on with the server that it discards.
PlaceKeepingOwn(c) ==
    /\ call[c].at = "placing"
    /\ IF servers = {}
       THEN servers' = {c} /\ Proceed(c, "serving")
       ELSE call' = [call EXCEPT ![c].at = "yielding"] /\ UNCHANGED servers
    /\ UNCHANGED <<server, messages, taken, shut>>

\* The second look at the table: the one that was faster stays.
Place(c) ==
    /\ call[c].at = "placing"
    /\ IF servers = {}
       THEN servers' = {c} /\ Proceed(c, "serving")
       ELSE /\ \E s \in servers : call' = [call EXCEPT ![c].at = "yielding", ![c].srv = s]
            /\ UNCHANGED servers
    /\ UNCHANGED <<server, messages, taken, shut>>

\* Slip: the server that is not needed is let go, not closed.
DiscardedUnclosed(c) ==
    /\ call[c].at \in {"yielding", "discarding"}
    /\ Proceed(c, IF call[c].at = "yielding" THEN "serving" ELSE "over")
    /\ UNCHANGED <<server, messages, manager>>

\* Close has returned on the server that is not needed.
Discarded(c) ==
    /\ call[c].at \in {"yielding", "discarding"} /\ server[c].close = "returned"
    /\ Proceed(c, IF call[c].at = "yielding" THEN "serving" ELSE "over")
    /\ UNCHANGED <<server, messages, manager>>

-----------------------------------------------------------------------------
\* Server: the file is opened before a query; the hook reports a change first.

\* The file could not be read.
GiveUp(c) ==
    /\ (call[c].at = "serving" /\ c \in LspHooks) \/ call[c].at = "reading"
    /\ Proceed(c, "over")
    /\ UNCHANGED <<server, messages, manager>>

\* ensureOpen, under mu.
EnsureOpen(c) ==
    /\ (call[c].at = "serving" /\ c \in LspTools) \/ call[c].at = "formatting"
    /\ server' = [server EXCEPT ![call[c].srv].opened = TRUE]
    /\ call' = [call EXCEPT ![c].at = IF server[call[c].srv].opened THEN "entering" ELSE "reading",
                            ![c].queries = TRUE]
    /\ UNCHANGED <<messages, manager>>

\* What the process makes of a message about the file: "early" is one that came
\* before the didOpen.
Heard(s) == IF server[s].doc = "open" THEN "open" ELSE "early"

\* The didOpen of ensureOpen.
DidOpen(c) ==
    /\ call[c].at = "reading"
    /\ LET s == call[c].srv IN
       IF Writable(s)
       THEN /\ server' = [server EXCEPT ![s].doc = IF @ = "unknown" THEN "open" ELSE @]
            /\ Proceed(c, "entering")
       ELSE UNCHANGED server /\ Proceed(c, "over")
    /\ UNCHANGED <<messages, manager>>

\* NotifyChange, by the hook: before Format, and for the formatted text.
NotifyChange(c) ==
    /\ (call[c].at = "serving" /\ c \in LspHooks) \/ call[c].at = "formatted"
    /\ LET s == call[c].srv IN
       IF Writable(s)
       THEN /\ server' = [server EXCEPT ![s].opened = TRUE, ![s].doc = Heard(s)]
            /\ \E next \in {"over"} \union (IF call[c].queries THEN {} ELSE {"formatting"}) :
                  Proceed(c, next)
       ELSE /\ server' = [server EXCEPT ![s].opened = TRUE]
            /\ Proceed(c, "over")
    /\ UNCHANGED <<messages, manager>>

-----------------------------------------------------------------------------
\* Client.Request: initialize on the call's own server, or else the query.

\* Where a call is after a request.  The initialized notification follows an answer
\* to initialize, and Format may find nothing to change.
AfterRequest(c, answered) ==
    CASE ~call[c].queries ->
            {IF answered /\ Writable(call[c].srv) THEN "placing" ELSE "discarding"}
      [] call[c].queries /\ answered /\ c \in LspHooks -> {"formatted", "over"}
      [] OTHER -> {"over"}

Return(c, answered) == \E at \in AfterRequest(c, answered) : Proceed(c, at)

\* The look at closed, and the entry in pending, which nobody asks for before the write;
\* the channel is a new one, and what comes in it waits for the select.
Register(c) ==
    /\ call[c].at = "entering"
    /\ IF server[call[c].srv].close = "none"
       THEN /\ pending' = [pending EXCEPT ![call[c].srv] = @ \union {c}]
            /\ Proceed(c, "writing")
       ELSE UNCHANGED pending /\ Return(c, FALSE)
    /\ UNCHANGED <<server, inbox, wire, manager>>

Unregister(c) == pending' = [pending EXCEPT ![call[c].srv] = @ \ {c}]

WriteRequest(c) ==
    /\ call[c].at = "writing" /\ Writable(call[c].srv)
    /\ inbox' = [inbox EXCEPT ![call[c].srv] = @ \union {c}]
    /\ server' = [server EXCEPT ![call[c].srv].doc =
                     IF call[c].queries THEN Heard(call[c].srv) ELSE @]
    /\ call' = [call EXCEPT ![c].at = "waiting"]
    /\ UNCHANGED <<wire, pending, manager>>

WriteFails(c) ==
    /\ call[c].at = "writing" /\ ~Writable(call[c].srv)
    /\ Unregister(c)
    /\ Return(c, FALSE)
    /\ UNCHANGED <<server, inbox, wire, manager>>

\* The select: an answer or the error of failPending, the limit, the end of the reader.
Answered(c) ==
    /\ call[c].at = "waiting" /\ call[c].ch # "empty"
    /\ Return(c, call[c].ch = "answer")
    /\ UNCHANGED <<server, messages, manager>>

TimesOut(c) ==
    /\ call[c].at = "waiting"
    /\ Unregister(c)
    /\ Return(c, FALSE)
    /\ UNCHANGED <<server, inbox, wire, manager>>

ServerGone(c) ==
    /\ call[c].at = "waiting" /\ server[call[c].srv].done > 0
    /\ Return(c, FALSE)
    /\ UNCHANGED <<server, messages, manager>>

-----------------------------------------------------------------------------
\* readLoop.

\* handleMessage: an answer nobody waits for any more is dropped.
ReadAnswer(s, c) ==
    /\ server[s].reader = "reading" /\ c \in wire[s]
    /\ wire' = [wire EXCEPT ![s] = @ \ {c}]
    /\ pending' = [pending EXCEPT ![s] = @ \ {c}]
    /\ call' = [call EXCEPT ![c].ch = IF c \in pending[s] THEN "answer" ELSE @]
    /\ UNCHANGED <<server, inbox, manager>>

\* What is left to do of a select that closes done unless it is closed.
Look(s, over) == IF server[s].done = 0 THEN "ending" ELSE over

\* Slip: failPending has told everybody, so the reader has nothing left to do.
ReaderStopsOpen(s) ==
    /\ server[s].reader = "reading" /\ ~server[s].stdout /\ wire[s] = {}
    /\ call' = [c \in Callers |->
          IF c \in pending[s] THEN [call[c] EXCEPT !.ch = "exited"] ELSE call[c]]
    /\ pending' = [pending EXCEPT ![s] = {}]
    /\ server' = [server EXCEPT ![s].reader = "ended"]
    /\ UNCHANGED <<inbox, wire, manager>>

\* stdout ends, failPending answers what is pending, and the reader looks at done.
ReaderStops(s) ==
    /\ server[s].reader = "reading" /\ ~server[s].stdout /\ wire[s] = {}
    /\ call' = [c \in Callers |->
          IF c \in pending[s] THEN [call[c] EXCEPT !.ch = "exited"] ELSE call[c]]
    /\ pending' = [pending EXCEPT ![s] = {}]
    /\ server' = [server EXCEPT ![s].reader = Look(s, "ended")]
    /\ UNCHANGED <<inbox, wire, manager>>

ReaderEnds(s) ==
    /\ server[s].reader = "ending"
    /\ server' = [server EXCEPT ![s].reader = "ended", ![s].done = @ + 1]
    /\ UNCHANGED <<call, messages, manager>>

-----------------------------------------------------------------------------
\* The process of s exits, and stdout with it, unread answers apart.
Gone(s) == [server EXCEPT ![s].proc = "exited", ![s].stdout = FALSE, ![s].doc = "unknown"]

\* Close, by ServerFor on a server it does not keep, or by Shutdown.

\* closed is set before the shutdown request and the exit notification, so both are
\* refused and nothing is sent; stdin is closed.
CloseBegins(s) ==
    /\ call[s].at \in {"yielding", "discarding"} \/ s \in taken
    /\ server[s].close = "none"
    /\ server' = [server EXCEPT ![s].close = "waiting"]
    /\ UNCHANGED <<call, messages, manager>>

\* Wait has seen the exit, and closes stdout on the reader: the answers left are lost.
CloseWaited(s) ==
    /\ server[s].close = "waiting" /\ ~Alive(s)
    /\ server' = [server EXCEPT ![s].close = Look(s, "returned")]
    /\ wire' = [wire EXCEPT ![s] = {}]
    /\ UNCHANGED <<call, inbox, pending, manager>>

\* Five seconds later.  The kill takes effect at once.
CloseKills(s) ==
    /\ server[s].close = "waiting" /\ Alive(s)
    /\ server' = [Gone(s) EXCEPT ![s].close = Look(s, "returned")]
    /\ inbox' = [inbox EXCEPT ![s] = {}]
    /\ UNCHANGED <<call, wire, pending, manager>>

CloseEnds(s) ==
    /\ server[s].close = "ending"
    /\ server' = [server EXCEPT ![s].close = "returned", ![s].done = @ + 1]
    /\ UNCHANGED <<call, messages, manager>>

\* Shutdown: the table under the lock.  Server.Close sends the didClose first.
Shutdown ==
    /\ ~shut
    /\ shut' = TRUE
    /\ taken' = servers
    /\ servers' = {}
    /\ UNCHANGED <<call, server, messages>>

DidClose(s) ==
    /\ s \in taken /\ server[s].close = "none"
    /\ server[s].opened /\ Writable(s) /\ server[s].doc = "open"
    /\ server' = [server EXCEPT ![s].doc = "unknown"]
    /\ UNCHANGED <<call, messages, manager>>

-----------------------------------------------------------------------------
\* The process of a language server: it answers in any order, or not at all.

Answer(s, c) ==
    /\ Alive(s) /\ server[s].stdout /\ c \in inbox[s]
    /\ inbox' = [inbox EXCEPT ![s] = @ \ {c}]
    /\ wire' = [wire EXCEPT ![s] = @ \union {c}]
    /\ UNCHANGED <<call, server, pending, manager>>

ProcessExits(s) ==
    /\ Alive(s)
    /\ server' = Gone(s)
    /\ inbox' = [inbox EXCEPT ![s] = {}]
    /\ UNCHANGED <<call, wire, pending, manager>>

\* A process that runs on without its stdout; only a server in use is given to it.
StdoutEnds(s) ==
    /\ Alive(s) /\ server[s].stdout /\ s \in servers
    /\ server' = [server EXCEPT ![s].stdout = FALSE]
    /\ UNCHANGED <<call, messages, manager>>

-----------------------------------------------------------------------------
LspInit ==
    /\ call = [c \in Callers |-> [at |-> "idle", srv |-> c, queries |-> FALSE, ch |-> "empty"]]
    /\ server = [s \in Callers |->
          [proc |-> "none", stdout |-> FALSE, reader |-> "none",
           close |-> "none", done |-> 0, opened |-> FALSE, doc |-> "unknown"]]
    /\ inbox = [s \in Callers |-> {}]
    /\ wire = [s \in Callers |-> {}]
    /\ pending = [s \in Callers |-> {}]
    /\ servers = {}
    /\ taken = {}
    /\ shut = FALSE

\* The steps a call takes by itself; TimesOut is its timer.
CallRuns(c) ==
    \/ ServerFor(c) \/ NoServer(c) \/ Place(c) \/ Discarded(c)
    \/ GiveUp(c) \/ EnsureOpen(c) \/ DidOpen(c) \/ NotifyChange(c)
    \/ Register(c) \/ WriteRequest(c) \/ WriteFails(c) \/ Answered(c) \/ ServerGone(c)

ReaderRuns(s) ==
    (\E c \in Callers : ReadAnswer(s, c)) \/ ReaderStops(s) \/ ReaderEnds(s)

CloseRuns(s) ==
    CloseBegins(s) \/ CloseWaited(s) \/ CloseKills(s) \/ CloseEnds(s)

ProcessRuns(s) ==
    (\E c \in Callers : Answer(s, c)) \/ ProcessExits(s) \/ StdoutEnds(s)

LspNext ==
    \/ \E c \in Callers : CallRuns(c) \/ TimesOut(c)
    \/ \E s \in Callers : ReaderRuns(s) \/ CloseRuns(s) \/ DidClose(s) \/ ProcessRuns(s)
    \/ Shutdown

\* Goroutines run and the timer of Close fires.  A request's limit need not pass, and
\* a process need not answer, or exit by itself.
LspFairness ==
    \A c \in Callers :
        /\ WF_lspVars(CallRuns(c))
        /\ WF_lspVars(ReaderRuns(c))
        /\ WF_lspVars(CloseRuns(c))

LspSpec == LspInit /\ [][LspNext]_lspVars
LspFairSpec == LspSpec /\ LspFairness

-----------------------------------------------------------------------------
\* Properties.

LspTypeOK ==
    /\ call \in [Callers ->
          [at : {"idle", "entering", "writing", "waiting", "placing", "yielding",
                 "discarding", "serving", "reading", "formatting", "formatted", "over"},
           srv : Callers, queries : BOOLEAN, ch : {"empty", "answer", "exited"}]]
    /\ server \in [Callers ->
          [proc : {"none", "running", "exited"}, stdout : BOOLEAN,
           reader : {"none", "reading", "ending", "ended"},
           close : {"none", "waiting", "ending", "returned"},
           done : 0 .. 2, opened : BOOLEAN,
           doc : {"unknown", "open", "early"}]]
    /\ {inbox, wire, pending} \subseteq [Callers -> SUBSET Callers]
    /\ servers \subseteq Callers /\ Cardinality(servers) <= 1
    /\ taken \subseteq Callers
    /\ shut \in BOOLEAN

\* A caller blocked in Request is not left waiting for a server that is gone, even if
\* it registered after failPending had run, and however far its own limit is.
\* (failPending, done)
NobodyStranded ==
    \A c \in Callers :
        call[c].at = "waiting" /\ ~server[call[c].srv].stdout ~> call[c].at # "waiting"

\* The call that started s still decides what becomes of it.
Starting(s) ==
    \/ call[s].at = "placing"
    \/ ~call[s].queries /\ call[s].at \in {"entering", "writing", "waiting"}

\* Close of s is due, or under way: by the call that started it, or by Shutdown.
ToClose(s) == call[s].at \in {"yielding", "discarding"} \/ s \in taken

\* A process that runs is somebody's: its server is in the table, or is being started, or
\* somebody is about to close it, and Close does not return before it is gone.
\* (ServerFor, startServer, Shutdown, Close)
OwnedOrClosing ==
    \A s \in Callers :
        Alive(s) => \/ s \in servers
                    \/ Starting(s)
                    \/ ToClose(s) /\ server[s].close \in {"none", "waiting"}

\* A call asks a server that is, or was, in the table; never one that another call, or
\* the same one, started in vain and discards.  (ServerFor)
UsedIsShared ==
    \A c \in Callers :
        call[c].at \in {"yielding", "serving", "reading", "formatting", "formatted"}
            \/ call[c].queries
        => call[c].srv \in servers \union taken

\* A caller that waits, and has no answer yet, is one the reader will tell, or done is
\* closed; it may have registered when the reader had already told everybody.
\* (Request, failPending, readLoop)
WaiterIsKnown ==
    \A c \in Callers :
        call[c].at = "waiting" /\ call[c].ch = "empty"
        => /\ c \in pending[call[c].srv]
           /\ server[call[c].srv].reader = "ended" => server[call[c].srv].done > 0

\* A server that is neither in the table nor being started ends: the one that lost the
\* race to the table, the one that did not initialize, and those Shutdown took, whether
\* or not they obey.  (ServerFor, startServer, Shutdown, Close)
UnownedServersEnd ==
    \A s \in Callers : Alive(s) /\ s \notin servers /\ ~Starting(s) ~> ~Alive(s)

\* "NotifyChange sends a didChange notification for an already-open file"
\* (manager.go:186), and ensureOpen precedes every query: a server hears of a file
\* first by its didOpen.
OpenedFirst == \A s \in Callers : server[s].doc # "early"

\* Nobody closes done a second time, which would panic.  (readLoop, Close)
DoneClosedOnce == \A s \in Callers : server[s].done <= 1

=============================================================================
