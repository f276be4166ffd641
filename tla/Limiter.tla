------------------------------- MODULE Limiter -------------------------------
(***************************************************************************)
(* The request limiter that every client of one endpoint shares            *)
(* (src/internal/ratelimit/ratelimit.go), driven by the transport          *)
(* (transport.go).  A caller is a goroutine inside RoundTrip; it runs      *)
(* Wait, sends, and feeds a server's retry hint to Backoff.                *)
(*                                                                         *)
(* Time is relative: every charge carries its age, the cooldown and the    *)
(* timers what is left of them, and Tick moves them all.  An age stops at  *)
(* Window + 1, where the charge is expired and how long ago no longer      *)
(* matters, so the model needs no bound on time.                           *)
(***************************************************************************)
EXTENDS Integers, Sequences, FiniteSets, Functions, SequencesExt

CONSTANTS
    Callers,     \* the goroutines that send requests
    Estimates,   \* what estimateRequestTokens may return, 0 for an unknown length
    TokenLimit,  \* tokenLimit, the budget of a window
    Window,      \* the width of the window, in ticks (a minute in the code)
    MaxCooldown, \* maxCooldown, in ticks (a minute in the code)
    Hints        \* the pauses a server may ask for, in ticks

ASSUME LimiterAssumption ==
    /\ Estimates \subseteq Nat
    /\ TokenLimit \in Nat \ {0}
    /\ Window \in Nat \ {0}
    /\ MaxCooldown \in Nat
    /\ Hints \subseteq Nat

VARIABLES
    pc,        \* where a caller stands in RoundTrip
    charge,    \* the tokens its request is charged
    ended,     \* its context has ended
    waiters,   \* Limiter.waiters, as callers
    closes,    \* how often the ready channel of a caller's waiter was closed
    timer,     \* what is left of a caller's sleepCtx
    spend,     \* Limiter.spend, oldest first
    cooldown,  \* what is left until coolUntil
    sentTokens \* history: tokens admitted 0, 1, ..., Window ticks ago

callerVars == <<pc, charge, ended>>
queueVars  == <<waiters, closes, timer>>
spendVars  == <<spend, sentTokens>>
vars == <<callerVars, queueVars, spendVars, cooldown>>

Phases ==
    {"idle", "cooling", "pacing", "entering", "parked", "trying", "sleeping", "sent"}
Queued == {"parked", "trying", "sleeping"}

Smaller(a, b) == IF a < b THEN a ELSE b
Larger(a, b) == IF a < b THEN b ELSE a

-----------------------------------------------------------------------------
\* windowSumLocked.
WindowSum(sp) == SumFunction([i \in DOMAIN sp |-> sp[i].tokens])

\* The charges in front that are older than a limit go, up to the first that is not.
DropOlder(sp, limit) ==
    LET keep == CHOOSE n \in 0..Len(sp) : /\ \A i \in 1..n : sp[i].age > limit
                                          /\ n < Len(sp) => sp[n + 1].age <= limit
    IN  SubSeq(sp, keep + 1, Len(sp))

\* Slip: the charges that are exactly a window old go too.
DropExpiredEarly(sp) == DropOlder(sp, Window - 1)

\* dropExpiredLocked.
DropExpired(sp) == DropOlder(sp, Window)

\* Slip: a canceled waiter leaves without waking the one behind it.
LeaveQueueSilently(c) ==
    LET i == CHOOSE j \in DOMAIN waiters : waiters[j] = c
    IN  /\ waiters' = RemoveAt(waiters, i)
        /\ closes' = closes

\* Slip: whoever leaves, the head is woken.
LeaveQueueWakingHead(c) ==
    LET i == CHOOSE j \in DOMAIN waiters : waiters[j] = c
        rest == RemoveAt(waiters, i)
    IN  /\ waiters' = rest
        /\ closes' = IF rest # <<>> THEN [closes EXCEPT ![Head(rest)] = @ + 1] ELSE closes

\* removeWaiter: only a head that leaves has somebody to wake.
LeaveQueue(c) ==
    LET i == CHOOSE j \in DOMAIN waiters : waiters[j] = c
        rest == RemoveAt(waiters, i)
    IN  /\ waiters' = rest
        /\ closes' = IF i = 1 /\ rest # <<>>
                     THEN [closes EXCEPT ![Head(rest)] = @ + 1] ELSE closes

\* Admission records the charge with the time it was made at.
Charge(sp, c) ==
    /\ spend' = Append(sp, [tokens |-> charge[c], age |-> 0])
    /\ sentTokens' = [sentTokens EXCEPT ![0] = @ + charge[c]]

Goto(c, to) == pc' = [pc EXCEPT ![c] = to] /\ UNCHANGED <<charge, ended>>

\* The end of Wait, with what it kept for the call.
Leave(c, to) ==
    /\ pc' = [pc EXCEPT ![c] = to]
    /\ charge' = [charge EXCEPT ![c] = 0]
    /\ ended' = [ended EXCEPT ![c] = FALSE]

-----------------------------------------------------------------------------
Init ==
    /\ pc = [c \in Callers |-> "idle"]
    /\ charge = [c \in Callers |-> 0]
    /\ ended = [c \in Callers |-> FALSE]
    /\ waiters = <<>>
    /\ closes = [c \in Callers |-> 0]
    /\ timer = [c \in Callers |-> 0]
    /\ spend = <<>>
    /\ cooldown = 0
    /\ sentTokens = [a \in 0..Window |-> 0]

\* RoundTrip enters Wait.  The charge is clamped to a full window.
RoundTrip(c, tokens) ==
    /\ pc[c] = "idle"
    /\ pc' = [pc EXCEPT ![c] = "cooling"]
    /\ charge' = [charge EXCEPT ![c] = Smaller(tokens, TokenLimit)]
    /\ UNCHANGED <<ended, queueVars, spendVars, cooldown>>

\* The context of a caller that is still inside Wait ends.
ContextEnds(c) ==
    /\ pc[c] \notin {"idle", "sent"}
    /\ ~ended[c]
    /\ ended' = [ended EXCEPT ![c] = TRUE]
    /\ UNCHANGED <<pc, charge, queueVars, spendVars, cooldown>>

\* waitCooldown looks at the context only when it sleeps.
CooldownOver(c) ==
    /\ pc[c] = "cooling"
    /\ cooldown = 0
    /\ Goto(c, "pacing")
    /\ UNCHANGED <<queueVars, spendVars, cooldown>>

CooldownCanceled(c) ==
    /\ pc[c] = "cooling"
    /\ cooldown > 0
    /\ ended[c]
    /\ Leave(c, "idle")
    /\ UNCHANGED <<queueVars, spendVars, cooldown>>

\* requests.Wait lets the caller through; a request of unknown length spends no tokens.
RequestsPass(c) ==
    /\ pc[c] = "pacing"
    /\ IF charge[c] > 0 THEN Goto(c, "entering") ELSE Leave(c, "sent")
    /\ UNCHANGED <<queueVars, spendVars, cooldown>>

\* It fails when the context has ended, or its deadline comes before the turn.
RequestsRefuse(c) ==
    /\ pc[c] = "pacing"
    /\ Leave(c, "idle")
    /\ UNCHANGED <<queueVars, spendVars, cooldown>>

\* waitTokenWindow: an ended context records no charge.
EnterCanceled(c) ==
    /\ pc[c] = "entering"
    /\ ended[c]
    /\ Leave(c, "idle")
    /\ UNCHANGED <<queueVars, spendVars, cooldown>>

\* Slip: the fast path does not look at who is waiting.
EnterAdmittedPastQueue(c) ==
    /\ pc[c] = "entering"
    /\ ~ended[c]
    /\ WindowSum(spend) <= TokenLimit - charge[c]
    /\ Charge(spend, c)
    /\ Leave(c, "sent")
    /\ UNCHANGED <<queueVars, cooldown>>

\* The fast path counts the charges that expired and were not dropped yet.
EnterAdmitted(c) ==
    /\ pc[c] = "entering"
    /\ ~ended[c]
    /\ waiters = <<>>
    /\ WindowSum(spend) <= TokenLimit - charge[c]
    /\ Charge(spend, c)
    /\ Leave(c, "sent")
    /\ UNCHANGED <<queueVars, cooldown>>

Enqueue(c) ==
    /\ pc[c] = "entering"
    /\ ~ended[c]
    /\ waiters # <<>> \/ WindowSum(spend) > TokenLimit - charge[c]
    /\ waiters' = Append(waiters, c)
    /\ closes' = [closes EXCEPT ![c] = 0]
    /\ Goto(c, IF waiters = <<>> THEN "trying" ELSE "parked")
    /\ UNCHANGED <<timer, spendVars, cooldown>>

\* The select of a waiter that is not the head: its turn came ...
Woken(c) ==
    /\ pc[c] = "parked"
    /\ closes[c] > 0
    /\ Goto(c, "trying")
    /\ UNCHANGED <<queueVars, spendVars, cooldown>>

\* ... or its context ended; when both did, either may be taken.
ParkedCanceled(c) ==
    /\ pc[c] = "parked"
    /\ ended[c]
    /\ LeaveQueue(c)
    /\ Leave(c, "idle")
    /\ UNCHANGED <<timer, spendVars, cooldown>>

\* The head is admitted, leaves the queue and wakes the next.
TryAdmit(c) ==
    LET live == DropExpired(spend)
    IN  /\ pc[c] = "trying"
        /\ Head(waiters) = c
        /\ WindowSum(live) <= TokenLimit - charge[c]
        /\ Charge(live, c)
        /\ LeaveQueue(c)
        /\ Leave(c, "sent")
        /\ UNCHANGED <<timer, cooldown>>

\* It does not fit: sleep until the oldest charge is a window old.
TrySleep(c) ==
    LET live == DropExpired(spend)
    IN  /\ pc[c] = "trying"
        /\ Head(waiters) = c
        /\ WindowSum(live) > TokenLimit - charge[c]
        /\ spend' = live
        /\ timer' = [timer EXCEPT ![c] = Window - Head(live).age]
        /\ Goto(c, "sleeping")
        /\ UNCHANGED <<waiters, closes, sentTokens, cooldown>>

\* sleepCtx.
SleepOver(c) ==
    /\ pc[c] = "sleeping"
    /\ timer[c] = 0
    /\ Goto(c, "trying")
    /\ UNCHANGED <<queueVars, spendVars, cooldown>>

SleepCanceled(c) ==
    /\ pc[c] = "sleeping"
    /\ ended[c]
    /\ LeaveQueue(c)
    /\ timer' = [timer EXCEPT ![c] = 0]
    /\ Leave(c, "idle")
    /\ UNCHANGED <<spendVars, cooldown>>

\* The response has no hint.
Respond(c) ==
    /\ pc[c] = "sent"
    /\ Leave(c, "idle")
    /\ UNCHANGED <<queueVars, spendVars, cooldown>>

\* A 429 or a 503 with a hint.
Backoff(c, hint) ==
    /\ pc[c] = "sent"
    /\ hint > 0
    /\ cooldown' = Larger(cooldown, Smaller(hint, MaxCooldown))
    /\ Leave(c, "idle")
    /\ UNCHANGED <<queueVars, spendVars>>

Less(n) == IF n = 0 THEN 0 ELSE n - 1

\* The clock.
Tick ==
    /\ spend' = [i \in DOMAIN spend |-> [spend[i] EXCEPT !.age = Smaller(@ + 1, Window + 1)]]
    /\ sentTokens' = [a \in 0..Window |-> IF a = 0 THEN 0 ELSE sentTokens[a - 1]]
    /\ timer' = [c \in Callers |-> Less(timer[c])]
    /\ cooldown' = Less(cooldown)
    /\ UNCHANGED <<callerVars, waiters, closes>>

-----------------------------------------------------------------------------
WaitStep(c) ==
    \/ CooldownOver(c) \/ CooldownCanceled(c) \/ RequestsPass(c) \/ RequestsRefuse(c)
    \/ EnterCanceled(c) \/ EnterAdmitted(c) \/ Enqueue(c)

QueueStep(c) ==
    \/ Woken(c) \/ ParkedCanceled(c) \/ TryAdmit(c) \/ TrySleep(c)
    \/ SleepOver(c) \/ SleepCanceled(c)

CallerStep(c) ==
    \/ \E tokens \in Estimates : RoundTrip(c, tokens)
    \/ ContextEnds(c)
    \/ WaitStep(c) \/ QueueStep(c)
    \/ Respond(c)
    \/ \E hint \in Hints : Backoff(c, hint)

Next == Tick \/ \E c \in Callers : CallerStep(c)

Spec == Init /\ [][Next]_vars

(***************************************************************************)
(* Fairness: time passes, and a goroutine that its timer or its channel    *)
(* has woken runs.  Nothing is assumed of the requests, of the contexts or *)
(* of the server.                                                          *)
(***************************************************************************)
Fairness == WF_vars(Tick) /\ \A c \in Callers : WF_vars(QueueStep(c))

FairSpec == Spec /\ Fairness

-----------------------------------------------------------------------------
TypeOK ==
    /\ pc \in [Callers -> Phases]
    /\ charge \in [Callers -> 0..TokenLimit]
    /\ ended \in [Callers -> BOOLEAN]
    /\ waiters \in Seq(Callers)
    /\ closes \in [Callers -> Nat]
    /\ timer \in [Callers -> 0..Window]
    /\ spend \in Seq([tokens : 1..TokenLimit, age : 0..(Window + 1)])
    /\ cooldown \in 0..MaxCooldown
    /\ sentTokens \in [0..Window -> Nat]

\* Whatever window of time one looks at, the tokens admitted in it are within the
\* budget: the ledger never forgets a charge that the server still counts
\* (ratelimit.go:33-41).
WindowBudget == SumFunction(sentTokens) <= TokenLimit

\* The waiter a caller owns is in the queue exactly while the caller is in its loop,
\* and only the head tries or sleeps, so waiters[0] is there and is the caller's own.
QueueMatchesCallers ==
    /\ \A c \in Callers :
          Cardinality({i \in DOMAIN waiters : waiters[i] = c}) = IF pc[c] \in Queued THEN 1 ELSE 0
    /\ \A c \in Callers : pc[c] \in {"trying", "sleeping"} => Head(waiters) = c

\* The head of the queue is not left parked on a channel that nobody will close.
NoLostWakeup ==
    waiters # <<>> /\ pc[Head(waiters)] = "parked" => closes[Head(waiters)] > 0

\* A ready channel is closed at most once (a second close panics), and only for the
\* waiter whose turn it is.
WokenOnce ==
    \A i \in DOMAIN waiters : closes[waiters[i]] <= IF i = 1 THEN 1 ELSE 0

\* A request that spends tokens never overtakes one that waits for them
\* (ratelimit.go:175-178).
NoOvertaking ==
    [][\A c \in Callers :
          /\ pc[c] # "sent" /\ pc'[c] = "sent"
          /\ charge[c] > 0
          => waiters = <<>> \/ Head(waiters) = c]_vars

\* The queue as its callers know it.
Waiting == [i \in DOMAIN waiters |-> [caller |-> waiters[i], tokens |-> charge[waiters[i]]]]

\* What the callers may rely on: the ledger, the channels and the timers amount to a queue
\* that is served in order, within the budget, each request for the tokens it is charged
\* (ratelimit.go:141-145, 166-178).
TokenWindowMap == INSTANCE TokenWindow WITH queue <- Waiting, admitted <- sentTokens
ImplementsTokenWindow == TokenWindowMap!Spec

\* A request in the queue is admitted or its context ends, whoever else keeps sending.
QueueDrains == \A c \in Callers : pc[c] \in Queued ~> pc[c] \notin Queued

\* The comment of Backoff: a pause the server asked for holds back every caller that
\* shares the limiter until it lapses (ratelimit.go:310-311).
CooldownHoldsQueue ==
    [][\A c \in Callers : pc[c] \in Queued /\ pc'[c] = "sent" => cooldown = 0]_vars
=============================================================================
