---------------------------- MODULE LimiterProofs ----------------------------
(***************************************************************************)
(* Proofs about the limiter, for any number of callers, any budget and any *)
(* window: who is in the queue, who is at its head and who is woken, and   *)
(* that the ledger keeps the budget of every window.  The sums over the    *)
(* ledger are recursive; what they need of induction is CountingUp, which  *)
(* takes a set where the library's theorems take an operator.              *)
(***************************************************************************)
EXTENDS Limiter, TLAPS, FiniteSetTheorems, SequenceTheorems

\* The inductive invariant: the queue holds each caller of its loop once; all but the
\* head are parked and were never woken; a head that is parked was woken.
QueueInv ==
    /\ pc \in [Callers -> Phases]
    /\ waiters \in Seq(Callers)
    /\ closes \in [Callers -> Nat]
    /\ \A i, j \in DOMAIN waiters : waiters[i] = waiters[j] => i = j
    /\ \A i \in DOMAIN waiters : pc[waiters[i]] \in Queued
    /\ \A c \in Callers : pc[c] \in Queued => \E i \in DOMAIN waiters : waiters[i] = c
    /\ \A c \in Callers : pc[c] \in {"trying", "sleeping"} => waiters # <<>> /\ waiters[1] = c
    /\ waiters # <<>> /\ pc[waiters[1]] = "parked" => closes[waiters[1]] > 0
    /\ \A i \in DOMAIN waiters : closes[waiters[i]] <= IF i = 1 THEN 1 ELSE 0

\* Taking one element out of a sequence keeps the order of the others.
LEMMA RemoveAtShape ==
    ASSUME NEW S, NEW q \in Seq(S), NEW k \in 1..Len(q)
    PROVE  /\ RemoveAt(q, k) \in Seq(S)
           /\ Len(RemoveAt(q, k)) = Len(q) - 1
           /\ \A j \in 1..(Len(q) - 1) :
                 RemoveAt(q, k)[j] = IF j < k THEN q[j] ELSE q[j + 1]
  <1> DEFINE front == SubSeq(q, 1, k - 1)
             back == SubSeq(q, k + 1, Len(q))
             n == Len(q) - k
  <1>1. Len(q) \in Nat OBVIOUS
  <1>2. front \in Seq(S) /\ Len(front) = k - 1 /\ \A j \in 1..(k - 1) : front[j] = q[j]
    OBVIOUS
  <1>3. back \in Seq(S) /\ Len(back) = n /\ \A j \in 1..n : back[j] = q[k + j]
    OBVIOUS
  <1>4. RemoveAt(q, k) = front \o back BY DEF RemoveAt
  <1> HIDE DEF front, back
  <1>5. /\ front \o back \in Seq(S)
        /\ Len(front \o back) = Len(front) + Len(back)
        /\ \A j \in 1..(Len(front) + Len(back)) :
              (front \o back)[j] = IF j <= Len(front) THEN front[j] ELSE back[j - Len(front)]
    BY <1>2, <1>3, ConcatProperties
  <1>6. ASSUME NEW j \in 1..(Len(q) - 1)
        PROVE  (front \o back)[j] = IF j < k THEN q[j] ELSE q[j + 1]
    <2>1. (front \o back)[j] = IF j < k THEN front[j] ELSE back[j - (k - 1)]
      BY <1>1, <1>2, <1>3, <1>5
    <2>2. CASE j < k BY <2>1, <2>2, <1>2
    <2>3. CASE ~(j < k)
      <3>1. j - (k - 1) \in 1..n /\ k + (j - (k - 1)) = j + 1 BY <2>3, <1>1
      <3>2. (front \o back)[j] = back[j - (k - 1)] BY <2>1, <2>3
      <3>3. back[j - (k - 1)] = q[k + (j - (k - 1))] BY <3>1, <1>3
      <3> QED BY <3>1, <3>2, <3>3, <2>3
    <2> QED BY <2>2, <2>3
  <1> QED BY <1>1, <1>2, <1>3, <1>4, <1>5, <1>6

\* removeWaiter takes the one entry of its caller out and keeps the order of the rest;
\* the one behind a head that leaves, and nobody else, is woken.
LEMMA LeaveQueueShape ==
    ASSUME QueueInv, NEW c \in Callers, NEW k \in DOMAIN waiters, waiters[k] = c, LeaveQueue(c)
    PROVE  /\ waiters' \in Seq(Callers)
           /\ Len(waiters') = Len(waiters) - 1
           /\ \A i \in 1..(Len(waiters) - 1) :
                 waiters'[i] = IF i < k THEN waiters[i] ELSE waiters[i + 1]
           /\ closes' = IF k = 1 /\ Len(waiters) > 1
                        THEN [closes EXCEPT ![waiters[2]] = @ + 1] ELSE closes
  <1> DEFINE i == CHOOSE j \in DOMAIN waiters : waiters[j] = c
             rest == RemoveAt(waiters, i)
  <1>1. i = k BY DEF QueueInv
  <1>2. /\ waiters' = rest
        /\ closes' = IF i = 1 /\ rest # <<>>
                     THEN [closes EXCEPT ![Head(rest)] = @ + 1] ELSE closes
    BY DEF LeaveQueue
  <1>3. waiters \in Seq(Callers) /\ k \in 1..Len(waiters) /\ Len(waiters) \in Nat
    BY DEF QueueInv
  <1>4. /\ rest \in Seq(Callers)
        /\ Len(rest) = Len(waiters) - 1
        /\ \A j \in 1..(Len(waiters) - 1) :
              rest[j] = IF j < k THEN waiters[j] ELSE waiters[j + 1]
    BY <1>1, <1>3, RemoveAtShape
  <1> HIDE DEF i, rest
  <1>5. rest # <<>> <=> Len(waiters) > 1
    <2>1. rest # <<>> <=> Len(rest) # 0 BY <1>4
    <2> QED BY <1>3, <1>4, <2>1
  <1>6. k = 1 /\ Len(waiters) > 1 => Head(rest) = waiters[2] BY <1>3, <1>4, <1>5
  <1> QED BY <1>1, <1>2, <1>4, <1>5, <1>6

\* A caller that leaves the queue for a phase outside its loop keeps the invariant.
LEMMA LeaveQueueInv ==
    ASSUME QueueInv, NEW c \in Callers, pc[c] \in Queued, LeaveQueue(c),
           NEW to \in Phases \ Queued, pc' = [pc EXCEPT ![c] = to]
    PROVE  QueueInv'
  <1>1. PICK k \in DOMAIN waiters : waiters[k] = c BY DEF QueueInv
  <1>2. /\ waiters' \in Seq(Callers)
        /\ Len(waiters') = Len(waiters) - 1
        /\ \A i \in 1..(Len(waiters) - 1) :
              waiters'[i] = IF i < k THEN waiters[i] ELSE waiters[i + 1]
        /\ closes' = IF k = 1 /\ Len(waiters) > 1
                     THEN [closes EXCEPT ![waiters[2]] = @ + 1] ELSE closes
    BY <1>1, LeaveQueueShape
  <1> USE DEF QueueInv
  <1> DEFINE from(i) == IF i < k THEN i ELSE i + 1
  <1>3. pc' \in [Callers -> Phases] OBVIOUS
  <1>4. closes' \in [Callers -> Nat] BY SMTT(30), <1>1, <1>2
  <1>5. /\ DOMAIN waiters' = 1..(Len(waiters) - 1)
        /\ DOMAIN waiters = 1..Len(waiters)
        /\ Len(waiters) \in Nat
    BY <1>1, <1>2
  <1>6. /\ \A i \in DOMAIN waiters' : /\ from(i) \in DOMAIN waiters
                                      /\ from(i) # k
                                      /\ waiters'[i] = waiters[from(i)]
        /\ \A i, j \in DOMAIN waiters' : from(i) = from(j) => i = j
        /\ \A j \in DOMAIN waiters : j # k => \E i \in DOMAIN waiters' : from(i) = j
        /\ 1 \in DOMAIN waiters' => from(1) = IF k = 1 THEN 2 ELSE 1
        /\ \A i \in DOMAIN waiters' : i # 1 => from(i) # 1 /\ ~(k = 1 /\ from(i) = 2)
    <2>1. \A j \in DOMAIN waiters : j < k => j \in DOMAIN waiters' /\ from(j) = j
      BY <1>1, <1>5
    <2>2. \A j \in DOMAIN waiters : j > k => j - 1 \in DOMAIN waiters' /\ from(j - 1) = j
      BY <1>1, <1>5
    <2>3. \A j \in DOMAIN waiters : j # k => \E i \in DOMAIN waiters' : from(i) = j
      <3> HIDE DEF from
      <3> QED BY <2>1, <2>2, <1>1, <1>5
    <2>4. \A i \in DOMAIN waiters' : /\ from(i) \in DOMAIN waiters
                                  /\ from(i) # k
                                  /\ waiters'[i] = waiters[from(i)]
      <3>1. \A i \in DOMAIN waiters' : from(i) \in DOMAIN waiters /\ from(i) # k BY <1>1, <1>5
      <3>2. \A i \in DOMAIN waiters' : waiters'[i] = waiters[from(i)]
        <4> SUFFICES ASSUME NEW i \in DOMAIN waiters' PROVE waiters'[i] = waiters[from(i)]
          OBVIOUS
        <4>1. i \in 1..(Len(waiters) - 1) BY <1>5
        <4>2. waiters'[i] = IF i < k THEN waiters[i] ELSE waiters[i + 1] BY <4>1, <1>2
        <4>3. CASE i < k BY <4>2, <4>3
        <4>4. CASE ~(i < k) BY <4>2, <4>4
        <4> QED BY <4>3, <4>4
      <3> HIDE DEF from
      <3> QED BY <3>1, <3>2
    <2>5. /\ \A i, j \in DOMAIN waiters' : from(i) = from(j) => i = j
          /\ 1 \in DOMAIN waiters' => from(1) = IF k = 1 THEN 2 ELSE 1
          /\ \A i \in DOMAIN waiters' : i # 1 => from(i) # 1 /\ ~(k = 1 /\ from(i) = 2)
      BY <1>1, <1>5
    <2> HIDE DEF from
    <2> QED BY <2>3, <2>4, <2>5
  <1>7. waiters' # <<>> => 1 \in DOMAIN waiters' BY <1>2, <1>5
  <1> HIDE DEF from
  <1>8. \A i \in DOMAIN waiters' : waiters'[i] # c /\ pc'[waiters'[i]] = pc[waiters'[i]]
    BY <1>1, <1>6
  <1>9. \A i, j \in DOMAIN waiters' : waiters'[i] = waiters'[j] => i = j BY <1>6
  <1>10. \A i \in DOMAIN waiters' : pc'[waiters'[i]] \in Queued BY <1>6, <1>8
  <1>11. ASSUME NEW d \in Callers, pc'[d] \in Queued
         PROVE  \E i \in DOMAIN waiters' : waiters'[i] = d
    <2>1. d # c /\ pc[d] \in Queued BY <1>11
    <2>2. PICK j \in DOMAIN waiters : waiters[j] = d BY <2>1
    <2> QED BY <1>1, <1>6, <2>1, <2>2
  <1>12. ASSUME NEW d \in Callers, pc'[d] \in {"trying", "sleeping"}
         PROVE  waiters' # <<>> /\ waiters'[1] = d
    <2>1. d # c /\ pc[d] \in {"trying", "sleeping"} BY <1>12 DEF Queued
    <2>2. waiters # <<>> /\ waiters[1] = d BY <2>1
    <2>3. k > 1 BY <2>1, <2>2, <1>1, <1>5
    <2>4. 1 \in DOMAIN waiters' BY <2>3, <1>1, <1>5
    <2> QED BY <2>2, <2>3, <2>4, <1>1, <1>6
  <1>13. waiters' # <<>> /\ pc'[waiters'[1]] = "parked" => closes'[waiters'[1]] > 0
    <2>1. SUFFICES ASSUME waiters' # <<>>, pc'[waiters'[1]] = "parked"
                   PROVE  closes'[waiters'[1]] > 0
      OBVIOUS
    <2>2. 1 \in DOMAIN waiters' /\ waiters'[1] = waiters[from(1)] BY <2>1, <1>6, <1>7
    <2>3. CASE k = 1
      <3>1. waiters'[1] = waiters[2] /\ Len(waiters) > 1 BY <2>2, <2>3, <1>5, <1>6
      <3> QED BY <3>1, <2>3, <1>1, <1>2, <1>5
    <2>4. CASE k # 1
      <3>1. waiters'[1] = waiters[1] /\ pc[waiters[1]] = "parked" /\ waiters # <<>>
        BY <2>1, <2>2, <2>4, <1>1, <1>6, <1>8
      <3> QED BY <3>1, <2>4, <1>2
    <2> QED BY <2>3, <2>4
  <1>14. ASSUME NEW i \in DOMAIN waiters'
         PROVE  closes'[waiters'[i]] <= IF i = 1 THEN 1 ELSE 0
    <2>1. from(i) \in DOMAIN waiters /\ waiters'[i] = waiters[from(i)] BY <1>6
    <2>2. CASE k = 1 /\ Len(waiters) > 1
      <3>1. 2 \in DOMAIN waiters /\ closes[waiters[2]] = 0 BY SMTT(30), <2>2, <1>5
      <3>2. CASE i = 1
        <4>1. waiters'[i] = waiters[2] BY <3>2, <2>1, <2>2, <1>6
        <4> QED BY <4>1, <3>1, <3>2, <2>2, <1>2
      <3>3. CASE i # 1
        <4>1. from(i) # 1 /\ from(i) # 2 BY <3>3, <2>2, <1>6
        <4>2. waiters[from(i)] # waiters[2] BY <4>1, <2>1, <3>1
        <4>3. closes[waiters[from(i)]] <= 0 BY <4>1, <2>1
        <4> QED BY <4>2, <4>3, <3>3, <2>1, <2>2, <1>2
      <3> QED BY <3>2, <3>3
    <2>3. CASE ~(k = 1 /\ Len(waiters) > 1)
      <3>1. closes' = closes /\ k # 1 BY <2>3, <1>1, <1>2, <1>5
      <3>2. CASE i = 1 BY <3>1, <3>2, <2>1, <1>6
      <3>3. CASE i # 1
        <4>1. from(i) # 1 BY <3>3, <1>6
        <4> QED BY <4>1, <3>1, <3>3, <2>1
      <3> QED BY <3>2, <3>3
    <2> QED BY <2>2, <2>3
  <1> QED BY <1>2, <1>3, <1>4, <1>9, <1>10, <1>11, <1>12, <1>13, <1>14

\* A step that leaves the queue alone keeps the invariant when no caller's part in the
\* queue changes.
LEMMA OutsideQueueInv ==
    ASSUME QueueInv, NEW c \in Callers, pc[c] \notin Queued, NEW to \in Phases \ Queued,
           pc' = [pc EXCEPT ![c] = to], UNCHANGED <<waiters, closes>>
    PROVE  QueueInv'
  BY DEF QueueInv, Queued

\* The steps of Wait around the loop keep the invariant.
LEMMA WaitStepInv ==
    ASSUME QueueInv, NEW c \in Callers, WaitStep(c)
    PROVE  QueueInv'
  <1> USE DEF Goto, Leave, queueVars, Phases, Queued
  <1>1. CASE CooldownOver(c) BY <1>1, OutsideQueueInv DEF CooldownOver
  <1>2. CASE CooldownCanceled(c) BY <1>2, OutsideQueueInv DEF CooldownCanceled
  <1>3. CASE RequestsPass(c) BY <1>3, OutsideQueueInv DEF RequestsPass
  <1>4. CASE RequestsRefuse(c) BY <1>4, OutsideQueueInv DEF RequestsRefuse
  <1>5. CASE EnterCanceled(c) BY <1>5, OutsideQueueInv DEF EnterCanceled
  <1>6. CASE EnterAdmitted(c) BY <1>6, OutsideQueueInv DEF EnterAdmitted
  <1>7. CASE Enqueue(c)
    <2> DEFINE to == IF waiters = <<>> THEN "trying" ELSE "parked"
    <2>1. /\ pc[c] = "entering"
          /\ pc' = [pc EXCEPT ![c] = to]
          /\ waiters' = Append(waiters, c)
          /\ closes' = [closes EXCEPT ![c] = 0]
      BY <1>7 DEF Enqueue
    <2>2. \A i \in DOMAIN waiters : waiters[i] # c BY <2>1 DEF QueueInv
    <2>3. /\ waiters' \in Seq(Callers)
          /\ DOMAIN waiters' = 1..(Len(waiters) + 1)
          /\ \A i \in DOMAIN waiters : waiters'[i] = waiters[i]
          /\ waiters'[Len(waiters) + 1] = c
          /\ DOMAIN waiters = 1..Len(waiters)
          /\ Len(waiters) \in Nat
          /\ waiters = <<>> <=> Len(waiters) = 0
          /\ waiters' # <<>>
      BY <2>1 DEF QueueInv
    <2>4. ASSUME NEW d \in Callers, pc'[d] \in Queued
          PROVE  \E i \in DOMAIN waiters' : waiters'[i] = d
      <3>1. CASE d = c BY <3>1, <2>3
      <3>2. CASE d # c
        <4>1. PICK i \in DOMAIN waiters : waiters[i] = d BY <3>2, <2>4, <2>1 DEF QueueInv
        <4> QED BY <4>1, <2>3
      <3> QED BY <3>1, <3>2
    <2>5. ASSUME NEW i \in DOMAIN waiters', NEW j \in DOMAIN waiters', waiters'[i] = waiters'[j]
          PROVE  i = j
      <3>1. /\ i \in DOMAIN waiters \/ i = Len(waiters) + 1
            /\ j \in DOMAIN waiters \/ j = Len(waiters) + 1
        BY <2>3
      <3>2. CASE i \in DOMAIN waiters /\ j \in DOMAIN waiters BY <3>2, <2>3, <2>5 DEF QueueInv
      <3>3. CASE i = Len(waiters) + 1 BY <3>1, <3>3, <2>2, <2>3, <2>5
      <3>4. CASE j = Len(waiters) + 1 BY <3>1, <3>4, <2>2, <2>3, <2>5
      <3> QED BY <3>1, <3>2, <3>3, <3>4
    <2>6. \A i \in DOMAIN waiters' : pc'[waiters'[i]] \in Queued
      BY <2>1, <2>2, <2>3 DEF QueueInv
    <2>7. \A d \in Callers :
             pc'[d] \in {"trying", "sleeping"} => waiters' # <<>> /\ waiters'[1] = d
      BY <2>1, <2>3 DEF QueueInv
    <2>8. waiters' # <<>> /\ pc'[waiters'[1]] = "parked" => closes'[waiters'[1]] > 0
      <3>1. CASE waiters = <<>>
        <4>1. waiters'[1] = c /\ pc'[c] = "trying" BY <3>1, <2>1, <2>3 DEF QueueInv
        <4> QED BY <4>1
      <3>2. CASE waiters # <<>>
        <4>1. /\ 1 \in DOMAIN waiters /\ waiters'[1] = waiters[1]
              /\ waiters[1] # c /\ waiters[1] \in Callers
          BY <3>2, <2>2, <2>3 DEF QueueInv
        <4>2. pc'[waiters[1]] = pc[waiters[1]] /\ closes'[waiters[1]] = closes[waiters[1]]
          BY <4>1, <2>1 DEF QueueInv
        <4> QED BY <3>2, <4>1, <4>2 DEF QueueInv
      <3> QED BY <3>1, <3>2
    <2>9. \A i \in DOMAIN waiters' : closes'[waiters'[i]] <= IF i = 1 THEN 1 ELSE 0
      BY <2>1, <2>2, <2>3 DEF QueueInv
    <2> QED BY <2>1, <2>3, <2>4, <2>5, <2>6, <2>7, <2>8, <2>9 DEF QueueInv
  <1> QED BY <1>1, <1>2, <1>3, <1>4, <1>5, <1>6, <1>7 DEF WaitStep

\* So do the steps of the loop of waitTokenWindow.
LEMMA QueueStepInv ==
    ASSUME QueueInv, NEW c \in Callers, QueueStep(c)
    PROVE  QueueInv'
  <1> USE DEF Goto, Leave, queueVars, Phases, Queued
  <1>1. CASE Woken(c) BY SMTT(30), <1>1 DEF Woken, QueueInv
  <1>2. CASE ParkedCanceled(c) BY <1>2, LeaveQueueInv DEF ParkedCanceled
  <1>3. CASE TryAdmit(c) BY <1>3, LeaveQueueInv DEF TryAdmit
  <1>4. CASE TrySleep(c) BY <1>4 DEF TrySleep, QueueInv
  <1>5. CASE SleepOver(c) BY <1>5 DEF SleepOver, QueueInv
  <1>6. CASE SleepCanceled(c) BY <1>6, LeaveQueueInv DEF SleepCanceled
  <1> QED BY <1>1, <1>2, <1>3, <1>4, <1>5, <1>6 DEF QueueStep

\* It holds in every behaviour.
LEMMA QueueInvHolds == Spec => []QueueInv
  <1>1. Init => QueueInv BY DEF Init, QueueInv, Phases, Queued
  <1>2. ASSUME QueueInv, [Next]_vars PROVE QueueInv'
    <2>1. CASE Tick BY <1>2, <2>1 DEF Tick, callerVars, QueueInv
    <2>2. ASSUME NEW c \in Callers, CallerStep(c) PROVE QueueInv'
      <3> USE <1>2 DEF Leave, queueVars, callerVars, Phases, Queued
      <3>1. ASSUME NEW tokens \in Estimates, RoundTrip(c, tokens) PROVE QueueInv'
        BY <3>1, OutsideQueueInv DEF RoundTrip
      <3>2. CASE ContextEnds(c) BY <3>2 DEF ContextEnds, QueueInv
      <3>3. CASE WaitStep(c) BY <3>3, WaitStepInv
      <3>4. CASE QueueStep(c) BY <3>4, QueueStepInv
      <3>5. CASE Respond(c) BY <3>5, OutsideQueueInv DEF Respond
      <3>6. ASSUME NEW hint \in Hints, Backoff(c, hint) PROVE QueueInv'
        BY <3>6, OutsideQueueInv DEF Backoff
      <3> QED BY <2>2, <3>1, <3>2, <3>3, <3>4, <3>5, <3>6 DEF CallerStep
    <2>3. CASE UNCHANGED vars BY <1>2, <2>3 DEF vars, callerVars, queueVars, QueueInv
    <2> QED BY <1>2, <2>1, <2>2, <2>3 DEF Next
  <1> QED BY <1>1, <1>2, PTL DEF Spec

-----------------------------------------------------------------------------
(***************************************************************************)
(* Sums.  SumFunctionOnSet picks the elements one after the other.  First  *)
(* that the recursion defines a number, then that the order does not       *)
(* matter, by induction over the number of elements.                       *)
(***************************************************************************)
\* The recursion that defines a sum, as a property of a function on the subsets.
Chosen(s) == CHOOSE x \in s : TRUE
Sums(f, S, g) ==
    g = [s \in SUBSET S |-> IF s = {} THEN 0 ELSE f[Chosen(s)] + g[s \ {Chosen(s)}]]

\* Induction over the natural numbers, without an operator as its parameter.
LEMMA CountingUp ==
    ASSUME NEW P, 0 \in P, \A n \in Nat : n \in P => n + 1 \in P
    PROVE  Nat \subseteq P
  <1> SUFFICES ASSUME Nat \ P # {} PROVE FALSE
    OBVIOUS
  <1> DEFINE R == {ss \in Nat \X Nat : ss[1] < ss[2]}
  <1>1. IsWellFoundedOn(R, Nat)
    BY NatLessThanWellFounded DEF OpToRel
  <1>2. Nat \ P \subseteq Nat /\ \A n \in Nat : n > 0 => <<n - 1, n>> \in R
    OBVIOUS
  <1> HIDE DEF R
  <1>3. PICK n \in Nat \ P : \A m \in Nat \ P : <<m, n>> \notin R
    BY <1>1, <1>2, WFMin, Zenon
  <1>4. n \in Nat /\ n # 0 /\ n \notin P
    BY <1>3
  <1>5. n - 1 \in Nat /\ n > 0 /\ (n - 1) + 1 = n
    BY <1>4
  <1>6. n - 1 \in P
    BY <1>2, <1>3, <1>4, <1>5
  <1> QED BY <1>4, <1>5, <1>6

\* What the library's definition says, unfolded.
LEMMA SumIsChosen ==
    ASSUME NEW f, NEW S
    PROVE  SumFunctionOnSet(f, S) = (CHOOSE g : Sums(f, S, g))[S]
  BY DEF SumFunctionOnSet, FoldFunctionOnSet, MapThenFoldSet, Sums, Chosen

Below(f, s, g) == IF s = {} THEN 0 ELSE f[Chosen(s)] + g[s \ {Chosen(s)}]

\* A set that is not empty has one element more than what its chosen one leaves.
LEMMA LessChosen ==
    ASSUME NEW S, IsFiniteSet(S), NEW s \in SUBSET S, s # {}
    PROVE  /\ IsFiniteSet(s) /\ Chosen(s) \in s
           /\ s \ {Chosen(s)} \in SUBSET S
           /\ Cardinality(s) \in Nat /\ Cardinality(s \ {Chosen(s)}) \in Nat
           /\ Cardinality(s) = Cardinality(s \ {Chosen(s)}) + 1
  <1>1. IsFiniteSet(s) /\ Cardinality(s) \in Nat
    BY FS_Subset, FS_CardinalityType
  <1>2. Chosen(s) \in s
    BY DEF Chosen
  <1> HIDE DEF Chosen
  <1>3. /\ IsFiniteSet(s \ {Chosen(s)}) /\ Cardinality(s \ {Chosen(s)}) = Cardinality(s) - 1
    BY <1>1, <1>2, FS_RemoveElement
  <1>4. Cardinality(s \ {Chosen(s)}) \in Nat
    BY <1>3, FS_CardinalityType
  <1> QED BY <1>1, <1>2, <1>3, <1>4

\* The recursion defines a function: it can be built up to any number of elements.
LEMMA SumsExist ==
    ASSUME NEW S, IsFiniteSet(S), NEW f, \A x \in S : f[x] \in Nat
    PROVE  \E g \in [SUBSET S -> Nat] : Sums(f, S, g)
  <1> DEFINE Upto(n, g) == \A s \in SUBSET S : Cardinality(s) <= n => g[s] = Below(f, s, g)
             P == {n \in Nat : \E g \in [SUBSET S -> Nat] : Upto(n, g)}
  <1>1. \A s \in SUBSET S : IsFiniteSet(s) /\ Cardinality(s) \in Nat
    BY FS_Subset, FS_CardinalityType
  <1>2. \A g \in [SUBSET S -> Nat], s \in SUBSET S : Below(f, s, g) \in Nat
    <2> SUFFICES ASSUME NEW g \in [SUBSET S -> Nat], NEW s \in SUBSET S, s # {}
                 PROVE  f[Chosen(s)] + g[s \ {Chosen(s)}] \in Nat
      BY DEF Below
    <2>1. f[Chosen(s)] \in Nat /\ g[s \ {Chosen(s)}] \in Nat
      BY LessChosen
    <2> QED BY <2>1
  <1>3. 0 \in P
    <2> DEFINE g == [s \in SUBSET S |-> 0]
    <2>1. g \in [SUBSET S -> Nat]
      OBVIOUS
    <2>2. ASSUME NEW s \in SUBSET S, Cardinality(s) <= 0
          PROVE  g[s] = Below(f, s, g)
      <3>1. s = {}
        BY <1>1, <2>2, FS_EmptySet
      <3> QED BY <3>1 DEF Below
    <2> QED BY <2>1, <2>2
  <1>4. ASSUME NEW n \in Nat, n \in P
        PROVE  n + 1 \in P
    <2>1. PICK g \in [SUBSET S -> Nat] : Upto(n, g)
      BY <1>4
    <2> DEFINE h == [s \in SUBSET S |-> Below(f, s, g)]
    <2>2. h \in [SUBSET S -> Nat] /\ \A s \in SUBSET S : h[s] = Below(f, s, g)
      BY <1>2
    <2> HIDE DEF h
    <2>3. ASSUME NEW s \in SUBSET S, Cardinality(s) <= n + 1
          PROVE  h[s] = Below(f, s, h)
      <3>1. CASE s = {}
        BY <2>2, <3>1 DEF Below
      <3>2. CASE s # {}
        <4> DEFINE r == s \ {Chosen(s)}
        <4>1. r \in SUBSET S /\ Cardinality(r) <= n
          <5>1. /\ r \in SUBSET S /\ Cardinality(r) \in Nat
                /\ Cardinality(s) = Cardinality(r) + 1
            BY <3>2, LessChosen
          <5> HIDE DEF r
          <5> QED BY <2>3, <5>1
        <4> HIDE DEF r
        <4>2. h[r] = g[r]
          BY <2>1, <2>2, <4>1
        <4> QED BY <2>2, <3>2, <4>2 DEF Below, r
      <3> QED BY <3>1, <3>2
    <2> QED BY <2>2, <2>3
  <1>5. Cardinality(S) \in P
    <2> HIDE DEF P
    <2> QED BY <1>1, <1>3, <1>4, CountingUp
  <1>6. PICK g \in [SUBSET S -> Nat] : Upto(Cardinality(S), g)
    BY <1>5
  <1>7. \A s \in SUBSET S : Cardinality(s) <= Cardinality(S)
    BY FS_Subset
  <1>8. \A s \in SUBSET S : g[s] = Below(f, s, g)
    BY <1>6, <1>7
  <1>9. g = [s \in SUBSET S |-> Below(f, s, g)]
    BY <1>8
  <1> QED BY <1>9 DEF Sums, Below

\* Two such functions agree where both are defined.
LEMMA SumsAgree ==
    ASSUME NEW S, IsFiniteSet(S), NEW T \in SUBSET S, NEW f,
           NEW g, Sums(f, S, g), NEW h, Sums(f, T, h)
    PROVE  \A s \in SUBSET T : g[s] = h[s]
  <1> DEFINE P == {n \in Nat : \A s \in SUBSET T : Cardinality(s) <= n => g[s] = h[s]}
  <1>1. /\ \A s \in SUBSET S : g[s] = Below(f, s, g)
        /\ \A s \in SUBSET T : h[s] = Below(f, s, h)
    BY DEF Sums, Below
  <1>2. IsFiniteSet(T) /\ \A s \in SUBSET T : IsFiniteSet(s) /\ Cardinality(s) \in Nat
    BY FS_Subset, FS_CardinalityType
  <1>3. 0 \in P
    <2> SUFFICES ASSUME NEW s \in SUBSET T, Cardinality(s) <= 0
                 PROVE  g[s] = h[s]
      OBVIOUS
    <2>1. s = {}
      BY <1>2, FS_EmptySet
    <2> QED BY <1>1, <2>1 DEF Below
  <1>4. ASSUME NEW n \in Nat, n \in P
        PROVE  n + 1 \in P
    <2> SUFFICES ASSUME NEW s \in SUBSET T, Cardinality(s) <= n + 1
                 PROVE  g[s] = h[s]
      OBVIOUS
    <2>1. CASE s = {}
      BY <1>1, <2>1 DEF Below
    <2>2. CASE s # {}
      <3> DEFINE r == s \ {Chosen(s)}
      <3>1. /\ r \in SUBSET T /\ Cardinality(r) \in Nat
            /\ Cardinality(s) = Cardinality(r) + 1
        BY <1>2, <2>2, LessChosen
      <3> HIDE DEF r
      <3>2. g[r] = h[r]
        BY <1>4, <3>1
      <3> QED BY <1>1, <2>2, <3>2 DEF Below, r
    <2> QED BY <2>1, <2>2
  <1>5. \A s \in SUBSET T : Cardinality(s) \in P
    <2> HIDE DEF P
    <2> QED BY <1>2, <1>3, <1>4, CountingUp
  <1> QED BY <1>2, <1>5

\* The sum is the value of such a function.
LEMMA SumIsSums ==
    ASSUME NEW S, IsFiniteSet(S), NEW f, \A x \in S : f[x] \in Nat
    PROVE  \E g \in [SUBSET S -> Nat] : Sums(f, S, g) /\ SumFunctionOnSet(f, S) = g[S]
  <1> DEFINE g == CHOOSE h : Sums(f, S, h)
  <1>1. PICK h \in [SUBSET S -> Nat] : Sums(f, S, h)
    BY SumsExist
  <1>2. Sums(f, S, g) /\ SumFunctionOnSet(f, S) = g[S]
    BY <1>1, SumIsChosen, Zenon
  <1> HIDE DEF g
  <1>3. \A s \in SUBSET S : g[s] = h[s]
    BY <1>1, <1>2, SumsAgree
  <1>4. g = [s \in SUBSET S |-> h[s]]
    BY <1>2, <1>3 DEF Sums
  <1> QED BY <1>1, <1>2, <1>4

\* A sum is a number, none of nothing, and splits off what is chosen.
LEMMA SumBelow ==
    ASSUME NEW S, IsFiniteSet(S), NEW f, \A x \in S : f[x] \in Nat
    PROVE  /\ SumFunctionOnSet(f, S) \in Nat
           /\ S = {} => SumFunctionOnSet(f, S) = 0
           /\ S # {} => SumFunctionOnSet(f, S)
                           = f[Chosen(S)] + SumFunctionOnSet(f, S \ {Chosen(S)})
  <1>1. PICK g \in [SUBSET S -> Nat] : Sums(f, S, g) /\ SumFunctionOnSet(f, S) = g[S]
    BY SumIsSums
  <1>2. S \in SUBSET S /\ SumFunctionOnSet(f, S) = Below(f, S, g)
    BY <1>1 DEF Sums, Below
  <1>3. ASSUME S # {}
        PROVE  g[S \ {Chosen(S)}] = SumFunctionOnSet(f, S \ {Chosen(S)})
    <2> DEFINE T == S \ {Chosen(S)}
    <2>1. T \in SUBSET S /\ IsFiniteSet(T)
      BY FS_Subset
    <2> HIDE DEF T
    <2>2. PICK h \in [SUBSET T -> Nat] : Sums(f, T, h) /\ SumFunctionOnSet(f, T) = h[T]
      BY <2>1, SumIsSums
    <2>3. g[T] = h[T]
      BY <1>1, <2>1, <2>2, SumsAgree
    <2> QED BY <2>2, <2>3 DEF T
  <1> QED BY <1>1, <1>2, <1>3 DEF Below

\* A set of n + 1 elements without one of them.
LEMMA OneLess ==
    ASSUME NEW S, IsFiniteSet(S), NEW x \in S, NEW n \in Nat, Cardinality(S) = n + 1
    PROVE  Cardinality(S \ {x}) = n
  BY FS_RemoveElement

\* The order of the additions does not matter: a sum splits off any element.
LEMMA SumSplits ==
    ASSUME NEW S, IsFiniteSet(S), NEW f, \A x \in S : f[x] \in Nat, NEW e \in S
    PROVE  SumFunctionOnSet(f, S) = f[e] + SumFunctionOnSet(f, S \ {e})
  <1> DEFINE Splits(T) == \A x \in T : SumFunctionOnSet(f, T)
                                          = f[x] + SumFunctionOnSet(f, T \ {x})
             P == {n \in Nat : \A T \in SUBSET S : Cardinality(T) = n => Splits(T)}
  <1>1. \A T \in SUBSET S : /\ IsFiniteSet(T) /\ Cardinality(T) \in Nat
                            /\ SumFunctionOnSet(f, T) \in Nat
    BY FS_Subset, FS_CardinalityType, SumBelow
  <1>2. 0 \in P
    BY <1>1, FS_EmptySet
  <1>3. ASSUME NEW n \in Nat, n \in P
        PROVE  n + 1 \in P
    <2> SUFFICES ASSUME NEW T \in SUBSET S, Cardinality(T) = n + 1, NEW x \in T
                 PROVE  SumFunctionOnSet(f, T) = f[x] + SumFunctionOnSet(f, T \ {x})
      OBVIOUS
    <2> DEFINE c == Chosen(T)
    <2>1. c \in T /\ SumFunctionOnSet(f, T) = f[c] + SumFunctionOnSet(f, T \ {c})
      BY <1>1, SumBelow, LessChosen
    <2> HIDE DEF c
    <2>2. CASE x = c
      BY <2>1, <2>2
    <2>3. CASE x # c
      <3>1. /\ Cardinality(T \ {c}) = n /\ T \ {c} \in SUBSET S /\ x \in T \ {c}
            /\ Cardinality(T \ {x}) = n /\ T \ {x} \in SUBSET S /\ c \in T \ {x}
        <4>1. IsFiniteSet(T)
          BY <1>1
        <4>2. Cardinality(T \ {c}) = n
          BY <2>1, <4>1, OneLess
        <4>3. Cardinality(T \ {x}) = n
          BY <4>1, OneLess
        <4> QED BY <2>1, <2>3, <4>2, <4>3
      <3>2. Splits(T \ {c}) /\ Splits(T \ {x})
        BY <1>3, <3>1
      <3>3. (T \ {c}) \ {x} = (T \ {x}) \ {c}
        OBVIOUS
      <3>4. SumFunctionOnSet(f, T \ {c}) = f[x] + SumFunctionOnSet(f, (T \ {c}) \ {x})
        BY <3>1, <3>2
      <3>5. SumFunctionOnSet(f, T \ {x}) = f[c] + SumFunctionOnSet(f, (T \ {c}) \ {x})
        BY <3>1, <3>2, <3>3
      <3>6. (T \ {c}) \ {x} \in SUBSET S
        OBVIOUS
      <3>7. PICK k \in Nat : k = SumFunctionOnSet(f, (T \ {c}) \ {x})
        BY <1>1, <3>6
      <3>8. PICK a \in Nat, b \in Nat : a = f[x] /\ b = f[c]
        BY <2>1
      <3> QED BY <2>1, <3>4, <3>5, <3>7, <3>8
    <2> QED BY <2>2, <2>3
  <1>4. Cardinality(S) \in P
    <2> HIDE DEF P
    <2> QED BY <1>1, <1>2, <1>3, CountingUp
  <1> QED BY <1>4

\* A part sums up to no more than the whole.
LEMMA SumOfPart ==
    ASSUME NEW S, IsFiniteSet(S), NEW f, \A x \in S : f[x] \in Nat, NEW T \in SUBSET S
    PROVE  SumFunctionOnSet(f, T) <= SumFunctionOnSet(f, S)
  <1> DEFINE P == {n \in Nat : \A U \in SUBSET S : Cardinality(U) = n =>
                      \A V \in SUBSET U : SumFunctionOnSet(f, V) <= SumFunctionOnSet(f, U)}
  <1>1. \A U \in SUBSET S : /\ IsFiniteSet(U) /\ Cardinality(U) \in Nat
                            /\ SumFunctionOnSet(f, U) \in Nat
    BY FS_Subset, FS_CardinalityType, SumBelow
  <1>2. 0 \in P
    <2> SUFFICES ASSUME NEW U \in SUBSET S, Cardinality(U) = 0, NEW V \in SUBSET U
                 PROVE  SumFunctionOnSet(f, V) <= SumFunctionOnSet(f, U)
      OBVIOUS
    <2>1. U = {} /\ V = U
      BY <1>1, FS_EmptySet
    <2> QED BY <1>1, <2>1
  <1>3. ASSUME NEW n \in Nat, n \in P
        PROVE  n + 1 \in P
    <2> SUFFICES ASSUME NEW U \in SUBSET S, Cardinality(U) = n + 1, NEW V \in SUBSET U
                 PROVE  SumFunctionOnSet(f, V) <= SumFunctionOnSet(f, U)
      OBVIOUS
    <2>1. CASE V = U
      BY <1>1, <2>1
    <2>2. CASE V # U
      <3>1. PICK x \in U : x \notin V
        BY <2>2
      <3>2. /\ U \ {x} \in SUBSET S /\ V \in SUBSET (U \ {x})
            /\ Cardinality(U \ {x}) = n
        BY <1>1, <3>1, OneLess
      <3>3. SumFunctionOnSet(f, V) <= SumFunctionOnSet(f, U \ {x})
        BY <1>3, <3>2
      <3>4. SumFunctionOnSet(f, U) = f[x] + SumFunctionOnSet(f, U \ {x})
        BY <1>1, SumSplits
      <3>5. V \in SUBSET S
        OBVIOUS
      <3>6. PICK a \in Nat, b \in Nat, k \in Nat :
               a = SumFunctionOnSet(f, V) /\ b = SumFunctionOnSet(f, U \ {x}) /\ k = f[x]
        BY <1>1, <3>2, <3>5
      <3> QED BY <3>3, <3>4, <3>6
    <2> QED BY <2>1, <2>2
  <1>4. Cardinality(S) \in P
    <2> HIDE DEF P
    <2> QED BY <1>1, <1>2, <1>3, CountingUp
  <1> QED BY <1>4

\* Numbering the elements anew leaves a sum as it is.
LEMMA SumMoves ==
    ASSUME NEW S, IsFiniteSet(S), NEW f, \A x \in S : f[x] \in Nat,
           NEW T, IsFiniteSet(T), NEW g,
           NEW b \in [S -> T], \A x, y \in S : b[x] = b[y] => x = y,
           \A y \in T : \E x \in S : b[x] = y, \A x \in S : f[x] = g[b[x]]
    PROVE  SumFunctionOnSet(f, S) = SumFunctionOnSet(g, T)
  <1> DEFINE Im(U) == {b[x] : x \in U}
             P == {n \in Nat : \A U \in SUBSET S : Cardinality(U) = n =>
                      SumFunctionOnSet(f, U) = SumFunctionOnSet(g, Im(U))}
  <1>1. \A U \in SUBSET S : /\ IsFiniteSet(U) /\ Cardinality(U) \in Nat
                            /\ Im(U) \in SUBSET T /\ IsFiniteSet(Im(U))
    <2>1. \A U \in SUBSET S : Im(U) \in SUBSET T
      OBVIOUS
    <2> HIDE DEF Im
    <2> QED BY <2>1, FS_Subset, FS_CardinalityType
  <1>2. \A y \in T : g[y] \in Nat
    OBVIOUS
  <1>3. 0 \in P
    <2> SUFFICES ASSUME NEW U \in SUBSET S, Cardinality(U) = 0
                 PROVE  SumFunctionOnSet(f, U) = SumFunctionOnSet(g, Im(U))
      OBVIOUS
    <2>1. U = {}
      BY <1>1, FS_EmptySet
    <2>2. Im(U) = {}
      BY <2>1
    <2> HIDE DEF Im
    <2>3. SumFunctionOnSet(f, U) = 0
      BY <1>1, <2>1, SumBelow
    <2>4. SumFunctionOnSet(g, Im(U)) = 0
      BY <1>1, <1>2, <2>2, SumBelow
    <2> QED BY <2>3, <2>4
  <1>4. ASSUME NEW n \in Nat, n \in P
        PROVE  n + 1 \in P
    <2> SUFFICES ASSUME NEW U \in SUBSET S, Cardinality(U) = n + 1
                 PROVE  SumFunctionOnSet(f, U) = SumFunctionOnSet(g, Im(U))
      OBVIOUS
    <2>1. PICK x \in U : TRUE
      BY FS_EmptySet
    <2>2. U \ {x} \in SUBSET S /\ Cardinality(U \ {x}) = n
      <3>1. IsFiniteSet(U)
        BY <1>1
      <3> HIDE DEF Im, P
      <3> QED BY <2>1, <3>1, OneLess
    <2>3. SumFunctionOnSet(f, U \ {x}) = SumFunctionOnSet(g, Im(U \ {x}))
      BY <1>4, <2>2
    <2>4. Im(U \ {x}) = Im(U) \ {b[x]} /\ b[x] \in Im(U)
      OBVIOUS
    <2> HIDE DEF Im
    <2>5. SumFunctionOnSet(f, U) = f[x] + SumFunctionOnSet(f, U \ {x})
      BY <1>1, SumSplits
    <2>6. SumFunctionOnSet(g, Im(U)) = g[b[x]] + SumFunctionOnSet(g, Im(U) \ {b[x]})
      BY <1>1, <1>2, <2>4, SumSplits
    <2>7. f[x] = g[b[x]]
      OBVIOUS
    <2> QED BY <2>3, <2>4, <2>5, <2>6, <2>7
  <1>5. Cardinality(S) \in P
    <2> HIDE DEF P
    <2> QED BY <1>1, <1>3, <1>4, CountingUp
  <1>6. Im(S) = T
    OBVIOUS
  <1> QED BY <1>5, <1>6

\* The sums of nothing and of zeros.
LEMMA SumOfNothing ==
    ASSUME NEW f
    PROVE  SumFunctionOnSet(f, {}) = 0
  <1>1. IsFiniteSet({}) /\ \A x \in {} : f[x] \in Nat
    BY FS_EmptySet
  <1> QED BY <1>1, SumBelow

LEMMA SumOfZeros ==
    ASSUME NEW S, IsFiniteSet(S), NEW f, \A x \in S : f[x] = 0
    PROVE  SumFunctionOnSet(f, S) = 0
  <1> DEFINE P == {n \in Nat : \A T \in SUBSET S : Cardinality(T) = n =>
                                  SumFunctionOnSet(f, T) = 0}
  <1>1. \A T \in SUBSET S : IsFiniteSet(T) /\ Cardinality(T) \in Nat
    BY FS_Subset, FS_CardinalityType
  <1>2. 0 \in P
    BY <1>1, FS_EmptySet, SumOfNothing
  <1>3. ASSUME NEW n \in Nat, n \in P
        PROVE  n + 1 \in P
    <2> SUFFICES ASSUME NEW T \in SUBSET S, Cardinality(T) = n + 1
                 PROVE  SumFunctionOnSet(f, T) = 0
      OBVIOUS
    <2>1. PICK x \in T : TRUE
      BY FS_EmptySet
    <2>2. T \ {x} \in SUBSET S /\ Cardinality(T \ {x}) = n
      BY <1>1, <2>1, OneLess
    <2>3. SumFunctionOnSet(f, T \ {x}) = 0
      BY <1>3, <2>2
    <2>4. SumFunctionOnSet(f, T) = f[x] + SumFunctionOnSet(f, T \ {x})
      BY <1>1, SumSplits
    <2> QED BY <2>3, <2>4
  <1>4. Cardinality(S) \in P
    <2> HIDE DEF P
    <2> QED BY <1>1, <1>2, <1>3, CountingUp
  <1> QED BY <1>4

\* What functions have elsewhere does not matter to a sum.
LEMMA SumOfSame ==
    ASSUME NEW S, IsFiniteSet(S), NEW f, \A x \in S : f[x] \in Nat,
           NEW g, \A x \in S : g[x] = f[x]
    PROVE  SumFunctionOnSet(f, S) = SumFunctionOnSet(g, S)
  <1> DEFINE b == [x \in S |-> x]
  <1>1. /\ b \in [S -> S] /\ \A x, y \in S : b[x] = b[y] => x = y
        /\ \A y \in S : \E x \in S : b[x] = y
        /\ \A x \in S : f[x] = g[b[x]]
    OBVIOUS
  <1> HIDE DEF b
  <1> QED BY <1>1, SumMoves

-----------------------------------------------------------------------------
(***************************************************************************)
(* The ledger, and the history of what was admitted.  A charge counts in a *)
(* window of k ticks while its age is at most k.                           *)
(***************************************************************************)
Charges == [tokens : 1..TokenLimit, age : 0..(Window + 1)]

Tokens(sp) == [i \in DOMAIN sp |-> sp[i].tokens]
Young(sp, k) == {i \in DOMAIN sp : sp[i].age <= k}

\* What the ledger holds of the last k ticks, and what was admitted in them.
Charged(sp, k) == SumFunctionOnSet(Tokens(sp), Young(sp, k))
Sent(s, k) == SumFunctionOnSet(s, 0..k)

\* The numbers of a ledger; what it holds of a window is part of what it holds.
LEMMA LedgerSums ==
    ASSUME NEW sp \in Seq(Charges), NEW k \in Nat
    PROVE  /\ Len(sp) \in Nat /\ DOMAIN sp = 1..Len(sp) /\ IsFiniteSet(DOMAIN sp)
           /\ Young(sp, k) \in SUBSET DOMAIN sp /\ IsFiniteSet(Young(sp, k))
           /\ \A i \in DOMAIN sp : /\ sp[i] \in Charges
                                   /\ Tokens(sp)[i] = sp[i].tokens /\ Tokens(sp)[i] \in Nat
                                   /\ sp[i].age \in Nat
           /\ Charged(sp, k) \in Nat /\ WindowSum(sp) \in Nat
           /\ Charged(sp, k) <= WindowSum(sp)
           /\ sp = <<>> => WindowSum(sp) = 0
  <1>1. Len(sp) \in Nat /\ DOMAIN sp = 1..Len(sp)
    OBVIOUS
  <1>2. IsFiniteSet(DOMAIN sp)
    BY <1>1, FS_Interval
  <1>3. Young(sp, k) \in SUBSET DOMAIN sp
    BY DEF Young
  <1>4. IsFiniteSet(Young(sp, k))
    BY <1>2, <1>3, FS_Subset
  <1>5. \A i \in DOMAIN sp : sp[i] \in Charges
    BY <1>1
  <1>6. \A i \in DOMAIN sp : /\ Tokens(sp)[i] = sp[i].tokens /\ Tokens(sp)[i] \in Nat
                             /\ sp[i].age \in Nat
    BY <1>5, LimiterAssumption DEF Charges, Tokens
  <1>7. WindowSum(sp) = SumFunctionOnSet(Tokens(sp), DOMAIN sp)
    BY DEF WindowSum, SumFunction, Tokens
  <1>8. Charged(sp, k) \in Nat /\ WindowSum(sp) \in Nat
    BY <1>2, <1>3, <1>4, <1>6, <1>7, SumBelow DEF Charged
  <1>9. Charged(sp, k) <= WindowSum(sp)
    BY <1>2, <1>3, <1>6, <1>7, SumOfPart DEF Charged
  <1>10. sp = <<>> => WindowSum(sp) = 0
    <2>1. sp = <<>> => DOMAIN sp = {}
      BY <1>1
    <2>2. DOMAIN sp = {} => SumFunctionOnSet(Tokens(sp), DOMAIN sp) = 0
      BY <1>2, <1>6, SumBelow
    <2> QED BY <1>7, <2>1, <2>2
  <1> QED BY <1>1, <1>2, <1>3, <1>4, <1>5, <1>6, <1>8, <1>9, <1>10

\* The loop of dropExpiredLocked ends, at the first charge that is not expired.
LEMMA DropExpiredShape ==
    ASSUME NEW sp \in Seq(Charges)
    PROVE  \E keep \in 0..Len(sp) :
              /\ DropExpired(sp) = SubSeq(sp, keep + 1, Len(sp))
              /\ \A i \in 1..keep : sp[i].age > Window
              /\ keep < Len(sp) => sp[keep + 1].age <= Window
  <1> DEFINE Stops(n) == /\ \A i \in 1..n : sp[i].age > Window
                         /\ n < Len(sp) => sp[n + 1].age <= Window
             P == {n \in Nat : n <= Len(sp) => \/ \A i \in 1..n : sp[i].age > Window
                                              \/ \E m \in 0..Len(sp) : Stops(m)}
  <1>1. Len(sp) \in Nat /\ Window \in Nat /\ \A i \in 1..Len(sp) : sp[i].age \in Nat
    BY LedgerSums, LimiterAssumption
  <1>2. 0 \in P
    BY <1>1
  <1>3. ASSUME NEW n \in Nat, n \in P
        PROVE  n + 1 \in P
    <2> SUFFICES ASSUME n + 1 <= Len(sp), ~ \E m \in 0..Len(sp) : Stops(m)
                 PROVE  \A i \in 1..(n + 1) : sp[i].age > Window
      OBVIOUS
    <2>1. n < Len(sp) /\ n \in 0..Len(sp) /\ \A i \in 1..n : sp[i].age > Window
      BY <1>1, <1>3
    <2>2. ~(sp[n + 1].age <= Window)
      BY <2>1
    <2> QED BY <1>1, <2>1, <2>2
  <1>4. Len(sp) \in P
    <2> HIDE DEF P
    <2> QED BY <1>1, <1>2, <1>3, CountingUp
  <1>5. \E m \in 0..Len(sp) : Stops(m)
    BY <1>1, <1>4
  <1>6. PICK m \in 0..Len(sp) : Stops(m) /\ m = CHOOSE n \in 0..Len(sp) : Stops(n)
    BY <1>5
  <1> QED BY <1>6 DEF DropExpired, DropOlder

\* What expired is older than any window one asks about.
LEMMA DropExpiredKeeps ==
    ASSUME NEW sp \in Seq(Charges)
    PROVE  /\ DropExpired(sp) \in Seq(Charges)
           /\ DropExpired(sp) # <<>> => Head(DropExpired(sp)).age \in 0..Window
           /\ \A k \in 0..Window : Charged(DropExpired(sp), k) = Charged(sp, k)
  <1> DEFINE live == DropExpired(sp)
  <1>1. PICK keep \in 0..Len(sp) :
              /\ live = SubSeq(sp, keep + 1, Len(sp))
              /\ \A i \in 1..keep : sp[i].age > Window
              /\ keep < Len(sp) => sp[keep + 1].age <= Window
    BY DropExpiredShape
  <1> HIDE DEF live
  <1>2. /\ Len(sp) \in Nat /\ keep \in Nat /\ keep <= Len(sp) /\ Window \in Nat
        /\ DOMAIN sp = 1..Len(sp)
    BY LedgerSums, LimiterAssumption
  <1>3. /\ live \in Seq(Charges) /\ Len(live) = Len(sp) - keep
        /\ \A i \in 1..(Len(sp) - keep) : live[i] = sp[keep + i]
    <2>1. keep + 1 \in Nat /\ keep + 1 >= 1 /\ \A i \in (keep + 1)..Len(sp) : sp[i] \in Charges
      BY <1>2, LedgerSums
    <2>2. live = [i \in 1..(Len(sp) - keep) |-> sp[keep + i]]
      <3>1. /\ Len(sp) - (keep + 1) + 1 = Len(sp) - keep
            /\ \A i \in 1..(Len(sp) - keep) : i + (keep + 1) - 1 = keep + i
        BY <1>2
      <3>2. live = [i \in 1..(Len(sp) - (keep + 1) + 1) |-> sp[i + (keep + 1) - 1]]
        BY <1>1, <1>2
      <3> QED BY <3>1, <3>2, Zenon
    <2>3. \A i \in 1..(Len(sp) - keep) : sp[keep + i] \in Charges
      BY <1>2, <2>1
    <2> QED BY <1>2, <2>2, <2>3
  <1>4. DOMAIN live = 1..(Len(sp) - keep)
    BY <1>2, <1>3
  <1>5. ASSUME live # <<>>
        PROVE  Head(live).age \in 0..Window
    <2>1. keep < Len(sp) /\ Head(live) = live[1] /\ 1 \in 1..(Len(sp) - keep)
      BY <1>2, <1>3, <1>5
    <2>2. Head(live) = sp[keep + 1] /\ keep + 1 \in DOMAIN sp
      BY <1>2, <1>3, <2>1
    <2>3. sp[keep + 1].age \in Nat
      BY <2>2, LedgerSums
    <2> QED BY <1>1, <1>2, <2>1, <2>2, <2>3
  <1>6. ASSUME NEW k \in 0..Window
        PROVE  Charged(live, k) = Charged(sp, k)
    <2> DEFINE S == Young(live, k)
               T == Young(sp, k)
               b == [i \in S |-> keep + i]
    <2>1. S = {i \in 1..(Len(sp) - keep) : sp[keep + i].age <= k}
      BY <1>3, <1>4 DEF Young
    <2>2. /\ T = {i \in 1..Len(sp) : sp[i].age <= k}
          /\ \A i \in T : i > keep
      <3>1. T = {i \in 1..Len(sp) : sp[i].age <= k}
        BY <1>2 DEF Young
      <3>2. ASSUME NEW i \in T PROVE i > keep
        <4>1. i \in 1..Len(sp) /\ sp[i].age <= k /\ sp[i].age \in Nat
          BY <1>2, <3>1, LedgerSums
        <4>2. CASE i \in 1..keep
          BY <1>1, <1>2, <4>1, <4>2
        <4> QED BY <1>2, <4>1, <4>2
      <3> QED BY <3>1, <3>2
    <2>3. k \in Nat
      BY <1>2
    <2>4. /\ IsFiniteSet(S) /\ IsFiniteSet(T)
          /\ \A i \in S : Tokens(live)[i] \in Nat
      BY <1>3, <1>6, <2>3, LedgerSums
    <2>5. \A i \in S : keep + i \in T /\ Tokens(live)[i] = Tokens(sp)[keep + i]
      BY <1>2, <1>3, <1>4, <2>1, <2>2 DEF Tokens
    <2>6. \A j \in T : j - keep \in S /\ keep + (j - keep) = j
      BY <1>2, <2>1, <2>2
    <2>7. \A i \in S : i \in Nat
      BY <1>2, <2>1
    <2> HIDE DEF S, T
    <2>8. /\ b \in [S -> T] /\ \A i, j \in S : b[i] = b[j] => i = j
          /\ \A j \in T : \E i \in S : b[i] = j
          /\ \A i \in S : Tokens(live)[i] = Tokens(sp)[b[i]]
      BY <1>2, <2>5, <2>6, <2>7
    <2> HIDE DEF b
    <2>9. SumFunctionOnSet(Tokens(live), S) = SumFunctionOnSet(Tokens(sp), T)
      BY <2>4, <2>8, SumMoves
    <2> QED BY <2>9 DEF Charged, S, T
  <1> QED BY <1>3, <1>5, <1>6 DEF live

\* A charge counts in every window from now on.
LEMMA ChargeCounts ==
    ASSUME NEW sp \in Seq(Charges), NEW n \in 1..TokenLimit, NEW k \in 0..Window
    PROVE  /\ Append(sp, [tokens |-> n, age |-> 0]) \in Seq(Charges)
           /\ Charged(Append(sp, [tokens |-> n, age |-> 0]), k) = n + Charged(sp, k)
  <1> DEFINE e == [tokens |-> n, age |-> 0]
             new == Append(sp, e)
             last == Len(sp) + 1
  <1>1. Window \in Nat /\ k \in Nat /\ e \in Charges /\ e.age = 0 /\ e.tokens = n
    BY LimiterAssumption DEF Charges
  <1> HIDE DEF e
  <1>2. /\ new \in Seq(Charges) /\ Len(new) = last /\ DOMAIN new = 1..last
        /\ \A i \in 1..Len(sp) : new[i] = sp[i]
        /\ new[last] = e
        /\ Len(sp) \in Nat /\ DOMAIN sp = 1..Len(sp)
    BY <1>1
  <1> HIDE DEF new
  <1>3. Young(new, k) \ {last} = Young(sp, k) /\ last \in Young(new, k)
    BY <1>1, <1>2 DEF Young
  <1>4. /\ IsFiniteSet(Young(new, k)) /\ IsFiniteSet(Young(sp, k))
        /\ \A i \in Young(new, k) : Tokens(new)[i] \in Nat
        /\ \A i \in Young(sp, k) : Tokens(sp)[i] \in Nat
    BY <1>1, <1>2, LedgerSums
  <1>5. Tokens(new)[last] = n
    BY <1>1, <1>2 DEF Tokens
  <1>6. \A i \in Young(sp, k) : Tokens(new)[i] = Tokens(sp)[i]
    BY <1>2 DEF Tokens, Young
  <1>7. Charged(new, k) = n + SumFunctionOnSet(Tokens(new), Young(sp, k))
    <2> DEFINE S == Young(new, k)
    <2>1. IsFiniteSet(S) /\ last \in S /\ \A i \in S : Tokens(new)[i] \in Nat
      BY <1>3, <1>4
    <2> HIDE DEF S
    <2>2. SumFunctionOnSet(Tokens(new), S)
             = Tokens(new)[last] + SumFunctionOnSet(Tokens(new), S \ {last})
      BY <2>1, SumSplits
    <2> QED BY <1>3, <1>5, <2>2 DEF Charged, S
  <1>8. SumFunctionOnSet(Tokens(new), Young(sp, k)) = Charged(sp, k)
    BY <1>4, <1>6, SumOfSame DEF Charged
  <1> QED BY <1>2, <1>7, <1>8 DEF new, e

\* The numbers of the history; the present tick split off.
LEMMA SentSums ==
    ASSUME NEW s \in [0..Window -> Nat], NEW k \in 0..Window
    PROVE  /\ IsFiniteSet(0..k) /\ Sent(s, k) \in Nat
           /\ 0 \in 0..k /\ \A a \in 0..k : a \in 0..Window /\ s[a] \in Nat
           /\ Sent(s, k) = s[0] + SumFunctionOnSet(s, (0..k) \ {0})
           /\ SumFunctionOnSet(s, (0..k) \ {0}) \in Nat
  <1>1. Window \in Nat /\ k \in Nat
    BY LimiterAssumption
  <1>2. IsFiniteSet(0..k) /\ IsFiniteSet((0..k) \ {0})
    <2>1. IsFiniteSet(0..k)
      BY <1>1, FS_Interval
    <2> QED BY <2>1, FS_RemoveElement
  <1>3. 0 \in 0..k /\ \A a \in 0..k : a \in 0..Window /\ s[a] \in Nat
    BY <1>1
  <1>4. Sent(s, k) \in Nat /\ SumFunctionOnSet(s, (0..k) \ {0}) \in Nat
    BY <1>2, <1>3, SumBelow DEF Sent
  <1>5. Sent(s, k) = s[0] + SumFunctionOnSet(s, (0..k) \ {0})
    BY <1>2, <1>3, SumSplits DEF Sent
  <1> QED BY <1>2, <1>3, <1>4, <1>5

\* What is admitted now counts in every window that ends now.
LEMMA SentCounts ==
    ASSUME NEW s \in [0..Window -> Nat], NEW n \in Nat, NEW k \in 0..Window
    PROVE  /\ [s EXCEPT ![0] = @ + n] \in [0..Window -> Nat]
           /\ Sent([s EXCEPT ![0] = @ + n], k) = n + Sent(s, k)
  <1> DEFINE t == [s EXCEPT ![0] = @ + n]
             rest == (0..k) \ {0}
  <1>1. Window \in Nat /\ 0 \in 0..Window /\ s[0] \in Nat
    BY LimiterAssumption
  <1>2. t \in [0..Window -> Nat] /\ t[0] = s[0] + n /\ \A a \in 0..Window \ {0} : t[a] = s[a]
    BY <1>1
  <1> HIDE DEF t
  <1>3. \A a \in rest : a \in 0..Window \ {0}
    BY SentSums
  <1>4. IsFiniteSet(rest) /\ \A a \in rest : s[a] \in Nat
    BY SentSums, FS_RemoveElement
  <1> HIDE DEF rest
  <1>5. SumFunctionOnSet(s, rest) = SumFunctionOnSet(t, rest)
    BY <1>2, <1>3, <1>4, SumOfSame
  <1>6. /\ Sent(s, k) = s[0] + SumFunctionOnSet(s, rest) /\ SumFunctionOnSet(s, rest) \in Nat
        /\ Sent(t, k) = t[0] + SumFunctionOnSet(t, rest)
    BY <1>2, SentSums DEF rest
  <1>7. Sent(t, k) = n + Sent(s, k)
    BY <1>1, <1>2, <1>5, <1>6
  <1> QED BY <1>2, <1>7 DEF t

Aged(sp) == [i \in DOMAIN sp |-> [sp[i] EXCEPT !.age = Smaller(@ + 1, Window + 1)]]
Shifted(s) == [a \in 0..Window |-> IF a = 0 THEN 0 ELSE s[a - 1]]

\* A tick makes every charge of the last k ticks one of the last k + 1.
LEMMA AgedSums ==
    ASSUME NEW sp \in Seq(Charges)
    PROVE  /\ Aged(sp) \in Seq(Charges)
           /\ Charged(Aged(sp), 0) = 0
           /\ \A k \in 1..Window : Charged(Aged(sp), k) = Charged(sp, k - 1)
  <1> DEFINE new == Aged(sp)
             older(n) == Smaller(n + 1, Window + 1)
  <1>1. /\ Len(sp) \in Nat /\ DOMAIN sp = 1..Len(sp) /\ Window \in Nat
        /\ \A i \in DOMAIN sp : sp[i] \in Charges
    BY LedgerSums, LimiterAssumption
  <1>2. ASSUME NEW n \in 0..(Window + 1)
        PROVE  /\ older(n) \in 0..(Window + 1) /\ older(n) > 0
               /\ \A k \in 1..Window : older(n) <= k <=> n <= k - 1
    BY <1>1 DEF Smaller
  <1> HIDE DEF older
  <1>3. ASSUME NEW c \in Charges
        PROVE  /\ [c EXCEPT !.age = older(@)] \in Charges
               /\ [c EXCEPT !.age = older(@)].age = older(c.age)
               /\ [c EXCEPT !.age = older(@)].tokens = c.tokens
               /\ c.age \in 0..(Window + 1)
    <2>1. c.age \in 0..(Window + 1)
      BY DEF Charges
    <2> DEFINE m == older(c.age)
    <2>2. m \in 0..(Window + 1)
      BY <1>2, <2>1
    <2> HIDE DEF m
    <2>3. [c EXCEPT !.age = m] \in Charges
      BY <2>2 DEF Charges
    <2>4. [c EXCEPT !.age = m].age = m /\ [c EXCEPT !.age = m].tokens = c.tokens
      BY DEF Charges
    <2> QED BY <2>1, <2>3, <2>4 DEF m
  <1>4. new = [i \in DOMAIN sp |-> [sp[i] EXCEPT !.age = older(@)]]
    BY DEF Aged, older
  <1> HIDE DEF new
  <1>5. /\ DOMAIN new = DOMAIN sp
        /\ \A i \in DOMAIN sp : /\ new[i] \in Charges /\ new[i].age = older(sp[i].age)
                                /\ new[i].tokens = sp[i].tokens
                                /\ sp[i].age \in 0..(Window + 1)
    BY <1>1, <1>3, <1>4
  <1>6. new \in Seq(Charges)
    <2>1. new = [i \in 1..Len(sp) |-> new[i]]
      BY <1>1, <1>4
    <2> QED BY <1>1, <1>5, <2>1
  <1>7. Young(new, 0) = {}
    BY <1>2, <1>5 DEF Young
  <1>8. Charged(new, 0) = 0
    BY <1>7, SumOfNothing DEF Charged
  <1>9. ASSUME NEW k \in 1..Window
        PROVE  Charged(new, k) = Charged(sp, k - 1)
    <2>1. k \in Nat /\ k - 1 \in Nat
      BY <1>1
    <2>2. Young(new, k) = Young(sp, k - 1)
      BY <1>2, <1>5 DEF Young
    <2>3. Tokens(new) = Tokens(sp)
      BY <1>5 DEF Tokens
    <2> QED BY <2>2, <2>3 DEF Charged
  <1> QED BY <1>6, <1>8, <1>9 DEF new

\* The same of the history: its last ticks move on by one.
LEMMA ShiftedSums ==
    ASSUME NEW s \in [0..Window -> Nat]
    PROVE  /\ Shifted(s) \in [0..Window -> Nat]
           /\ Sent(Shifted(s), 0) = 0
           /\ \A k \in 1..Window : Sent(Shifted(s), k) = Sent(s, k - 1)
  <1> DEFINE t == Shifted(s)
  <1>1. Window \in Nat /\ 0 \in 0..Window
    BY LimiterAssumption
  <1>2. t \in [0..Window -> Nat] /\ t[0] = 0 /\ \A a \in 1..Window : t[a] = s[a - 1]
    BY <1>1 DEF Shifted
  <1> HIDE DEF t
  <1>3. \A k \in 0..Window : /\ Sent(t, k) = SumFunctionOnSet(t, (0..k) \ {0})
                             /\ Sent(t, k) \in Nat
    <2> SUFFICES ASSUME NEW k \in 0..Window
                 PROVE  /\ Sent(t, k) = SumFunctionOnSet(t, (0..k) \ {0})
                        /\ Sent(t, k) \in Nat
      OBVIOUS
    <2>1. /\ Sent(t, k) = t[0] + SumFunctionOnSet(t, (0..k) \ {0})
          /\ SumFunctionOnSet(t, (0..k) \ {0}) \in Nat
      BY <1>2, SentSums
    <2> QED BY <1>2, <2>1
  <1>4. Sent(t, 0) = 0
    <2>1. (0..0) \ {0} = {}
      OBVIOUS
    <2>2. Sent(t, 0) = SumFunctionOnSet(t, (0..0) \ {0})
      BY <1>1, <1>3
    <2> QED BY <2>1, <2>2, SumOfNothing
  <1>5. ASSUME NEW k \in 1..Window
        PROVE  Sent(t, k) = Sent(s, k - 1)
    <2> DEFINE S == (0..k) \ {0}
               T == 0..(k - 1)
               b == [a \in S |-> a - 1]
    <2>1. k \in 0..Window /\ k - 1 \in 0..Window
      BY <1>1
    <2>2. S = 1..k /\ \A a \in S : a \in 1..Window /\ a \in Nat /\ a - 1 \in T
      BY <1>1
    <2>3. \A j \in T : j + 1 \in S /\ (j + 1) - 1 = j
      BY <1>1
    <2>4. IsFiniteSet(S) /\ IsFiniteSet(T) /\ \A a \in S : t[a] \in Nat
      BY <1>2, <2>1, SentSums, FS_RemoveElement
    <2> HIDE DEF S, T
    <2>5. /\ b \in [S -> T] /\ \A x, y \in S : b[x] = b[y] => x = y
          /\ \A j \in T : \E a \in S : b[a] = j
          /\ \A a \in S : t[a] = s[b[a]]
      <3>1. b \in [S -> T] /\ \A a \in S : b[a] = a - 1
        BY <2>2
      <3>2. \A x, y \in S : b[x] = b[y] => x = y
        BY <2>2, <3>1
      <3>3. \A a \in S : t[a] = s[b[a]]
        BY <1>2, <2>2, <3>1
      <3>4. \A j \in T : b[j + 1] = j
        BY <2>3
      <3> HIDE DEF b
      <3> QED BY <2>3, <3>1, <3>2, <3>3, <3>4
    <2> HIDE DEF b
    <2>6. PICK u, v : u = t /\ v = s
      OBVIOUS
    <2>7. \A a \in S : u[a] \in Nat /\ u[a] = v[b[a]]
      BY <2>4, <2>5, <2>6
    <2>8. SumFunctionOnSet(u, S) = SumFunctionOnSet(v, T)
      BY <2>4, <2>5, <2>7, SumMoves, SMTT(30)
    <2>9. SumFunctionOnSet(t, S) = SumFunctionOnSet(s, T)
      BY <2>6, <2>8
    <2> QED BY <1>3, <2>1, <2>9 DEF Sent, S, T
  <1> QED BY <1>2, <1>4, <1>5 DEF t

-----------------------------------------------------------------------------
\* The ledger holds what was admitted in every window that ends now, and the widest
\* one is within the budget.
Balanced(sp, s) ==
    /\ sp \in Seq(Charges)
    /\ s \in [0..Window -> Nat]
    /\ \A k \in 0..Window : Charged(sp, k) = Sent(s, k)
    /\ Sent(s, Window) <= TokenLimit

ChargesInv ==
    /\ charge \in [Callers -> 0..TokenLimit]
    /\ \A c \in Callers : pc[c] \in {"entering"} \union Queued => charge[c] # 0
    /\ ended \in [Callers -> BOOLEAN]

LedgerInv ==
    /\ ChargesInv
    /\ timer \in [Callers -> 0..Window]
    /\ cooldown \in 0..MaxCooldown
    /\ Balanced(spend, sentTokens)

\* Dropping expired charges, admitting one that fits, and a tick keep the balance.
LEMMA DropBalanced ==
    ASSUME NEW sp, NEW s, Balanced(sp, s)
    PROVE  Balanced(DropExpired(sp), s)
  BY DropExpiredKeeps DEF Balanced

LEMMA AdmitBalanced ==
    ASSUME NEW sp, NEW s, Balanced(sp, s), NEW n \in 1..TokenLimit,
           WindowSum(sp) <= TokenLimit - n
    PROVE  Balanced(Append(sp, [tokens |-> n, age |-> 0]), [s EXCEPT ![0] = @ + n])
  <1> DEFINE new == Append(sp, [tokens |-> n, age |-> 0])
             t == [s EXCEPT ![0] = @ + n]
  <1>1. /\ Window \in Nat /\ Window \in 0..Window /\ TokenLimit \in Nat /\ n \in Nat
        /\ sp \in Seq(Charges) /\ s \in [0..Window -> Nat]
    BY LimiterAssumption DEF Balanced
  <1>2. new \in Seq(Charges) /\ \A k \in 0..Window : Charged(new, k) = n + Charged(sp, k)
    BY <1>1, ChargeCounts
  <1>3. t \in [0..Window -> Nat] /\ \A k \in 0..Window : Sent(t, k) = n + Sent(s, k)
    BY <1>1, SentCounts
  <1> HIDE DEF new, t
  <1>4. /\ Charged(sp, Window) <= WindowSum(sp) /\ Charged(sp, Window) \in Nat
        /\ WindowSum(sp) \in Nat
    BY <1>1, LedgerSums
  <1>5. Charged(sp, Window) = Sent(s, Window) /\ Sent(t, Window) = n + Sent(s, Window)
    BY <1>1, <1>3 DEF Balanced
  <1>6. Sent(t, Window) <= TokenLimit
    BY <1>1, <1>4, <1>5
  <1>7. \A k \in 0..Window : Charged(new, k) = Sent(t, k)
    BY <1>2, <1>3 DEF Balanced
  <1> QED BY <1>2, <1>3, <1>6, <1>7 DEF Balanced, new, t

LEMMA TickBalanced ==
    ASSUME NEW sp, NEW s, Balanced(sp, s)
    PROVE  Balanced(Aged(sp), Shifted(s))
  <1>1. /\ Window \in Nat /\ Window \in 1..Window /\ Window - 1 \in 0..Window
        /\ TokenLimit \in Nat /\ sp \in Seq(Charges) /\ s \in [0..Window -> Nat]
    BY LimiterAssumption DEF Balanced
  <1>2. /\ Aged(sp) \in Seq(Charges) /\ Charged(Aged(sp), 0) = 0
        /\ \A k \in 1..Window : Charged(Aged(sp), k) = Charged(sp, k - 1)
    BY <1>1, AgedSums
  <1>3. /\ Shifted(s) \in [0..Window -> Nat] /\ Sent(Shifted(s), 0) = 0
        /\ \A k \in 1..Window : Sent(Shifted(s), k) = Sent(s, k - 1)
    BY <1>1, ShiftedSums
  <1>4. \A k \in 0..Window : Charged(sp, k) = Sent(s, k)
    BY DEF Balanced
  <1>5. ASSUME NEW k \in 0..Window
        PROVE  Charged(Aged(sp), k) = Sent(Shifted(s), k)
    <2>1. k = 0 \/ (k \in 1..Window /\ k - 1 \in 0..Window)
      BY <1>1
    <2>2. CASE k = 0
      BY <1>2, <1>3, <2>2
    <2>3. CASE k \in 1..Window /\ k - 1 \in 0..Window
      <3>1. /\ Charged(Aged(sp), k) = Charged(sp, k - 1)
            /\ Sent(Shifted(s), k) = Sent(s, k - 1)
        BY <1>2, <1>3, <2>3
      <3>2. Charged(sp, k - 1) = Sent(s, k - 1)
        BY <1>4, <2>3
      <3> QED BY <3>1, <3>2
    <2> QED BY <2>1, <2>2, <2>3
  <1>6. Sent(s, Window - 1) <= Sent(s, Window)
    <2> DEFINE S == 0..Window
               T == 0..(Window - 1)
    <2>1. T \in SUBSET S
      BY <1>1
    <2>2. Window \in 0..Window
      BY <1>1
    <2>3. IsFiniteSet(S) /\ \A a \in S : s[a] \in Nat
      BY <1>1, <2>2, SentSums
    <2> HIDE DEF S, T
    <2>4. SumFunctionOnSet(s, T) <= SumFunctionOnSet(s, S)
      BY <2>1, <2>3, SumOfPart
    <2> QED BY <2>4 DEF Sent, S, T
  <1>7. Sent(Shifted(s), Window) <= TokenLimit
    <2>1. Window \in 0..Window
      BY <1>1
    <2>2. Sent(s, Window - 1) \in Nat /\ Sent(s, Window) \in Nat
      BY <1>1, <2>1, SentSums
    <2>3. Sent(Shifted(s), Window) = Sent(s, Window - 1) /\ Sent(s, Window) <= TokenLimit
      BY <1>1, <1>3 DEF Balanced
    <2> QED BY <1>1, <1>6, <2>2, <2>3
  <1> QED BY <1>2, <1>3, <1>5, <1>7 DEF Balanced

\* A caller goes on with the charge it has, leaves Wait, or enters it with a charge that
\* fits the budget.
LEMMA CallerLedger ==
    ASSUME QueueInv, LedgerInv, NEW c \in Callers, CallerStep(c)
    PROVE  ChargesInv'
  <1>1. /\ pc \in [Callers -> Phases] /\ charge \in [Callers -> 0..TokenLimit]
        /\ \A d \in Callers : pc[d] \in {"entering"} \union Queued => charge[d] # 0
        /\ ended \in [Callers -> BOOLEAN] /\ TokenLimit \in Nat
    BY LimiterAssumption DEF QueueInv, LedgerInv, ChargesInv
  <1>2. ASSUME NEW to \in {"idle", "sent"}, Leave(c, to)
        PROVE  ChargesInv'
    BY <1>1, <1>2 DEF Leave, Queued, Phases, ChargesInv
  <1>3. ASSUME NEW to \in Phases, Goto(c, to),
               to \in {"entering"} \union Queued => charge[c] # 0
        PROVE  ChargesInv'
    BY <1>1, <1>3 DEF Goto, ChargesInv
  <1>4. ASSUME NEW tokens \in Estimates, RoundTrip(c, tokens)
        PROVE  ChargesInv'
    <2>1. Smaller(tokens, TokenLimit) \in 0..TokenLimit
      BY <1>1, LimiterAssumption DEF Smaller
    <2> QED BY <1>1, <1>4, <2>1 DEF RoundTrip, Queued, ChargesInv
  <1>5. CASE ContextEnds(c)
    BY <1>1, <1>5 DEF ContextEnds, ChargesInv
  <1>6. CASE CooldownOver(c)
    BY <1>3, <1>6 DEF CooldownOver, Phases, Queued
  <1>7. CASE CooldownCanceled(c) \/ RequestsRefuse(c) \/ EnterCanceled(c)
    BY <1>2, <1>7 DEF CooldownCanceled, RequestsRefuse, EnterCanceled
  <1>8. CASE RequestsPass(c)
    BY <1>1, <1>2, <1>3, <1>8 DEF RequestsPass, Phases
  <1>9. CASE EnterAdmitted(c) \/ ParkedCanceled(c) \/ TryAdmit(c) \/ SleepCanceled(c)
    BY <1>2, <1>9 DEF EnterAdmitted, ParkedCanceled, TryAdmit, SleepCanceled
  <1>10. CASE Enqueue(c)
    BY <1>1, <1>3, <1>10 DEF Enqueue, Phases
  <1>11. CASE Woken(c) \/ TrySleep(c) \/ SleepOver(c)
    BY <1>1, <1>3, <1>11 DEF Woken, TrySleep, SleepOver, Phases, Queued
  <1>12. CASE Respond(c)
    BY <1>2, <1>12 DEF Respond
  <1>13. ASSUME NEW hint \in Hints, Backoff(c, hint)
         PROVE  ChargesInv'
    BY <1>2, <1>13 DEF Backoff
  <1> QED BY <1>4, <1>5, <1>6, <1>7, <1>8, <1>9, <1>10, <1>11, <1>12, <1>13
          DEF CallerStep, WaitStep, QueueStep

\* Charge with a ledger that tells the same as the present one.
LEMMA ChargeBalances ==
    ASSUME LedgerInv, NEW c \in Callers, charge[c] # 0,
           NEW sp, Balanced(sp, sentTokens), WindowSum(sp) <= TokenLimit - charge[c],
           Charge(sp, c)
    PROVE  Balanced(spend', sentTokens')
  <1>1. charge[c] \in 1..TokenLimit
    BY LimiterAssumption DEF LedgerInv, ChargesInv
  <1> QED BY <1>1, AdmitBalanced DEF Charge

\* Every step keeps the ledger.
LEMMA LedgerStep ==
    ASSUME QueueInv, LedgerInv, [Next]_vars
    PROVE  LedgerInv'
  <1> DEFINE Clocks == /\ timer' \in [Callers -> 0..Window] /\ cooldown' \in 0..MaxCooldown
                       /\ Balanced(spend', sentTokens')
  <1>1. /\ timer \in [Callers -> 0..Window] /\ cooldown \in 0..MaxCooldown
        /\ Balanced(spend, sentTokens)
        /\ Window \in Nat /\ MaxCooldown \in Nat
    BY LimiterAssumption DEF LedgerInv
  <1>2. ASSUME UNCHANGED <<timer, cooldown, spend, sentTokens>>
        PROVE  Clocks
    BY <1>1, <1>2
  <1>3. CASE Tick
    <2>1. timer' \in [Callers -> 0..Window] /\ cooldown' \in 0..MaxCooldown
      BY <1>1, <1>3 DEF Tick, Less
    <2>2. Balanced(spend', sentTokens')
      BY <1>1, <1>3, TickBalanced DEF Tick, Aged, Shifted
    <2>3. pc' = pc /\ charge' = charge /\ ended' = ended
      BY <1>3 DEF Tick, callerVars
    <2> QED BY <2>1, <2>2, <2>3 DEF LedgerInv, ChargesInv
  <1>4. CASE UNCHANGED vars
    BY <1>4 DEF LedgerInv, ChargesInv, vars, callerVars, queueVars, spendVars
  <1>5. ASSUME NEW c \in Callers, CallerStep(c)
        PROVE  LedgerInv'
    <2> HIDE DEF Clocks
    <2> SUFFICES Clocks
      BY <1>5, CallerLedger DEF LedgerInv, Clocks
    <2>1. ASSUME NEW tokens \in Estimates, RoundTrip(c, tokens)
          PROVE  Clocks
      BY <1>2, <2>1 DEF RoundTrip, queueVars, spendVars
    <2>2. CASE ContextEnds(c) \/ Respond(c)
      BY <1>2, <2>2 DEF ContextEnds, Respond, queueVars, spendVars
    <2>3. CASE CooldownOver(c) \/ CooldownCanceled(c) \/ RequestsPass(c) \/ RequestsRefuse(c)
      BY <1>2, <2>3 DEF CooldownOver, CooldownCanceled, RequestsPass, RequestsRefuse,
                        queueVars, spendVars
    <2>4. CASE EnterCanceled(c) \/ Enqueue(c)
      BY <1>2, <2>4 DEF EnterCanceled, Enqueue, queueVars, spendVars
    <2>5. CASE Woken(c) \/ ParkedCanceled(c) \/ SleepOver(c)
      BY <1>2, <2>5 DEF Woken, ParkedCanceled, SleepOver, queueVars, spendVars
    <2>6. CASE SleepCanceled(c)
      <3>1. timer' \in [Callers -> 0..Window] /\ UNCHANGED <<cooldown, spend, sentTokens>>
        BY <1>1, <2>6 DEF SleepCanceled, spendVars
      <3> QED BY <1>1, <3>1 DEF Clocks
    <2>7. CASE EnterAdmitted(c)
      <3>1. /\ UNCHANGED <<timer, cooldown>> /\ Charge(spend, c) /\ charge[c] # 0
            /\ WindowSum(spend) <= TokenLimit - charge[c]
        BY <2>7 DEF EnterAdmitted, queueVars, LedgerInv, ChargesInv
      <3>2. Balanced(spend', sentTokens')
        BY <1>1, <3>1, ChargeBalances
      <3> QED BY <1>1, <3>1, <3>2 DEF Clocks
    <2>8. CASE TryAdmit(c)
      <3> DEFINE live == DropExpired(spend)
      <3>1. /\ UNCHANGED <<timer, cooldown>> /\ Charge(live, c) /\ charge[c] # 0
            /\ WindowSum(live) <= TokenLimit - charge[c]
        BY <2>8 DEF TryAdmit, LedgerInv, ChargesInv, Queued
      <3>2. Balanced(live, sentTokens)
        BY <1>1, DropBalanced
      <3> HIDE DEF live
      <3>3. Balanced(spend', sentTokens')
        BY <3>1, <3>2, ChargeBalances
      <3> QED BY <1>1, <3>1, <3>3 DEF Clocks
    <2>9. CASE TrySleep(c)
      <3> DEFINE live == DropExpired(spend)
      <3>1. /\ UNCHANGED <<sentTokens, cooldown>> /\ spend' = live
            /\ WindowSum(live) > TokenLimit - charge[c]
            /\ timer' = [timer EXCEPT ![c] = Window - Head(live).age]
        BY <2>9 DEF TrySleep
      <3>2. Balanced(live, sentTokens)
        BY <1>1, DropBalanced
      <3>3. spend \in Seq(Charges)
        BY <1>1 DEF Balanced
      <3>4. live \in Seq(Charges) /\ live # <<>> => Head(live).age \in 0..Window
        BY <3>3, DropExpiredKeeps
      <3> HIDE DEF live
      <3>5. live # <<>>
        <4>1. TokenLimit \in Nat /\ charge[c] \in 0..TokenLimit
          BY LimiterAssumption DEF LedgerInv, ChargesInv
        <4>2. live = <<>> => WindowSum(live) = 0
          BY <1>1, <3>2, LedgerSums DEF Balanced
        <4> QED BY <3>1, <4>1, <4>2
      <3>6. Window - Head(live).age \in 0..Window
        BY <1>1, <3>2, <3>4, <3>5 DEF Balanced
      <3>7. timer' \in [Callers -> 0..Window]
        BY <1>1, <3>1, <3>6
      <3> QED BY <1>1, <3>1, <3>2, <3>7 DEF Clocks
    <2>10. ASSUME NEW hint \in Hints, Backoff(c, hint)
           PROVE  Clocks
      <3>1. /\ cooldown' = Larger(cooldown, Smaller(hint, MaxCooldown))
            /\ UNCHANGED <<timer, spend, sentTokens>>
        BY <2>10 DEF Backoff, queueVars, spendVars
      <3>2. cooldown' \in 0..MaxCooldown
        BY <1>1, <3>1, LimiterAssumption DEF Larger, Smaller
      <3> QED BY <1>1, <3>1, <3>2 DEF Clocks
    <2> QED BY <1>5, <2>1, <2>2, <2>3, <2>4, <2>5, <2>6, <2>7, <2>8, <2>9, <2>10
            DEF CallerStep, WaitStep, QueueStep
  <1> QED BY <1>3, <1>4, <1>5 DEF Next

\* It holds at the start, and in every behaviour.
LEMMA LedgerInit == Init => LedgerInv
  <1> SUFFICES ASSUME Init PROVE LedgerInv
    OBVIOUS
  <1>1. /\ TokenLimit \in Nat /\ Window \in Nat /\ MaxCooldown \in Nat
    BY LimiterAssumption
  <1>2. /\ charge \in [Callers -> 0..TokenLimit] /\ ended \in [Callers -> BOOLEAN]
        /\ timer \in [Callers -> 0..Window] /\ cooldown \in 0..MaxCooldown
        /\ \A c \in Callers : pc[c] \in {"entering"} \union Queued => charge[c] # 0
        /\ spend = <<>> /\ sentTokens = [a \in 0..Window |-> 0]
    BY <1>1 DEF Init, Queued
  <1>3. spend \in Seq(Charges) /\ sentTokens \in [0..Window -> Nat]
    BY <1>2
  <1>4. ASSUME NEW k \in 0..Window
        PROVE  Charged(spend, k) = 0 /\ Sent(sentTokens, k) = 0
    <2>1. Young(spend, k) = {}
      BY <1>2 DEF Young
    <2>2. /\ IsFiniteSet(0..k) /\ \A a \in 0..k : sentTokens[a] = 0
      BY <1>2, <1>3, SentSums
    <2>3. SumFunctionOnSet(sentTokens, 0..k) = 0
      BY <2>2, SumOfZeros
    <2> QED BY <2>1, <2>3, SumOfNothing DEF Charged, Sent
  <1>5. Window \in 0..Window
    BY <1>1
  <1>6. Balanced(spend, sentTokens)
    <2>1. Sent(sentTokens, Window) <= TokenLimit
      BY <1>1, <1>4, <1>5
    <2> QED BY <1>3, <1>4, <2>1 DEF Balanced
  <1> QED BY <1>2, <1>6 DEF LedgerInv, ChargesInv

LEMMA LedgerInvHolds == Spec => []LedgerInv
  <1>1. QueueInv /\ LedgerInv /\ [Next]_vars => LedgerInv'
    BY LedgerStep
  <1> QED BY <1>1, LedgerInit, QueueInvHolds, PTL DEF Spec

-----------------------------------------------------------------------------
\* Every variable keeps its type: a charge fits the budget, a head that sleeps has a
\* charge to wait for, so it waits no longer than a window.
THEOREM TypeCorrect == Spec => []TypeOK
  <1>1. ASSUME QueueInv, LedgerInv
        PROVE  TypeOK
    BY <1>1 DEF QueueInv, LedgerInv, ChargesInv, Balanced, Charges, TypeOK
  <1> QED BY <1>1, QueueInvHolds, LedgerInvHolds, PTL

\* In no window of time is more admitted than the budget: whoever is admitted fits what
\* the ledger counts, which is at least what was admitted (windowSumLocked, Wait).
THEOREM BudgetIsKept == Spec => []WindowBudget
  <1>1. ASSUME LedgerInv
        PROVE  WindowBudget
    <2>1. sentTokens \in [0..Window -> Nat] /\ Sent(sentTokens, Window) <= TokenLimit
      BY <1>1 DEF LedgerInv, Balanced
    <2>2. SumFunction(sentTokens) = Sent(sentTokens, Window)
      BY <2>1 DEF SumFunction, Sent
    <2> QED BY <2>1, <2>2 DEF WindowBudget
  <1> QED BY <1>1, LedgerInvHolds, PTL

\* No waiter at the head of the queue is left asleep: every way out of the queue passes
\* the turn on (wakeNextLocked, removeWaiter).
THEOREM HeadIsWoken == Spec => []NoLostWakeup
  <1>1. QueueInv => NoLostWakeup BY DEF QueueInv, NoLostWakeup
  <1> QED BY <1>1, QueueInvHolds, PTL

\* No ready channel is closed twice, so the limiter never panics.
THEOREM ClosedOnce == Spec => []WokenOnce
  <1>1. QueueInv => WokenOnce BY DEF QueueInv, WokenOnce
  <1> QED BY <1>1, QueueInvHolds, PTL

\* The queue holds exactly the callers in the loop of waitTokenWindow, each once, and
\* only its head tries.
THEOREM QueueIsExact == Spec => []QueueMatchesCallers
  <1>1. ASSUME QueueInv PROVE QueueMatchesCallers
    <2>1. ASSUME NEW c \in Callers
          PROVE  Cardinality({i \in DOMAIN waiters : waiters[i] = c})
                    = IF pc[c] \in Queued THEN 1 ELSE 0
      <3>1. CASE pc[c] \in Queued
        <4>1. PICK k \in DOMAIN waiters : waiters[k] = c BY <1>1, <3>1 DEF QueueInv
        <4>2. {i \in DOMAIN waiters : waiters[i] = c} = {k} BY <1>1, <4>1 DEF QueueInv
        <4> QED BY <3>1, <4>2, FS_Singleton
      <3>2. CASE pc[c] \notin Queued
        <4>1. {i \in DOMAIN waiters : waiters[i] = c} = {} BY <1>1, <3>2 DEF QueueInv
        <4> QED BY <3>2, <4>1, FS_EmptySet
      <3> QED BY <3>1, <3>2
    <2>2. \A c \in Callers : pc[c] \in {"trying", "sleeping"} => Head(waiters) = c
      BY <1>1 DEF QueueInv
    <2> QED BY <2>1, <2>2 DEF QueueMatchesCallers
  <1> QED BY <1>1, QueueInvHolds, PTL

\* A request that spends tokens is admitted from the front of the queue, or past an empty
\* one: no stream of small requests starves a large one that waits.
THEOREM FirstComeFirstServed == Spec => NoOvertaking
  <1> DEFINE Fifo(c) == /\ pc[c] # "sent" /\ pc'[c] = "sent"
                        /\ charge[c] > 0
                        => waiters = <<>> \/ Head(waiters) = c
  <1>1. ASSUME QueueInv, [Next]_vars PROVE \A c \in Callers : Fifo(c)
    <2>1. CASE Tick \/ UNCHANGED vars BY <2>1 DEF Tick, vars, callerVars
    <2>2. ASSUME NEW d \in Callers, CallerStep(d), NEW c \in Callers PROVE Fifo(c)
      <3>1. pc \in [Callers -> Phases] BY <1>1 DEF QueueInv
      <3> USE <3>1 DEF Goto, Leave
      <3>2. ASSUME NEW tokens \in Estimates, RoundTrip(d, tokens) PROVE Fifo(c)
        BY <3>2 DEF RoundTrip
      <3>3. CASE ContextEnds(d) BY <3>3 DEF ContextEnds
      <3>4. CASE WaitStep(d)
        <4>1. CASE CooldownOver(d) BY <4>1 DEF CooldownOver
        <4>2. CASE CooldownCanceled(d) BY <4>2 DEF CooldownCanceled
        <4>3. CASE RequestsPass(d) BY <4>3 DEF RequestsPass
        <4>4. CASE RequestsRefuse(d) BY <4>4 DEF RequestsRefuse
        <4>5. CASE EnterCanceled(d) BY <4>5 DEF EnterCanceled
        <4>6. CASE EnterAdmitted(d) BY <4>6 DEF EnterAdmitted
        <4>7. CASE Enqueue(d) BY <4>7 DEF Enqueue
        <4> QED BY <3>4, <4>1, <4>2, <4>3, <4>4, <4>5, <4>6, <4>7 DEF WaitStep
      <3>5. CASE QueueStep(d)
        <4>1. CASE Woken(d) BY <4>1 DEF Woken
        <4>2. CASE ParkedCanceled(d) BY <4>2 DEF ParkedCanceled
        <4>3. CASE TryAdmit(d) BY <4>3 DEF TryAdmit
        <4>4. CASE TrySleep(d) BY <4>4 DEF TrySleep
        <4>5. CASE SleepOver(d) BY <4>5 DEF SleepOver
        <4>6. CASE SleepCanceled(d) BY <4>6 DEF SleepCanceled
        <4> QED BY <3>5, <4>1, <4>2, <4>3, <4>4, <4>5, <4>6 DEF QueueStep
      <3>6. CASE Respond(d) BY <3>6 DEF Respond
      <3>7. ASSUME NEW hint \in Hints, Backoff(d, hint) PROVE Fifo(c) BY <3>7 DEF Backoff
      <3> QED BY <2>2, <3>2, <3>3, <3>4, <3>5, <3>6, <3>7 DEF CallerStep
    <2> QED BY <1>1, <2>1, <2>2 DEF Next
  <1> QED BY <1>1, QueueInvHolds, PTL DEF Spec, NoOvertaking

-----------------------------------------------------------------------------
(***************************************************************************)
(* The refinement: what a step does to the queue and to the window.        *)
(***************************************************************************)

\* Requests(w, ch) is the queue of the waiters w with the charges ch.
RequestsOf(w, ch) == [i \in DOMAIN w |-> [caller |-> w[i], tokens |-> ch[w[i]]]]

\* The queue of requests has the shape of the queue of waiters ...
LEMMA RequestsShape ==
    ASSUME NEW w \in Seq(Callers), NEW ch, \A i \in DOMAIN w : ch[w[i]] \in 1..TokenLimit
    PROVE  /\ Len(w) \in Nat /\ DOMAIN w = 1..Len(w)
           /\ RequestsOf(w, ch) \in Seq(TokenWindowMap!Requests)
           /\ Len(RequestsOf(w, ch)) = Len(w) /\ DOMAIN RequestsOf(w, ch) = DOMAIN w
           /\ \A i \in DOMAIN w : RequestsOf(w, ch)[i] = [caller |-> w[i], tokens |-> ch[w[i]]]
  <1>1. w \in Seq(Callers) /\ Len(w) \in Nat /\ DOMAIN w = 1..Len(w)
    OBVIOUS
  <1>2. ASSUME NEW i \in DOMAIN w
        PROVE  [caller |-> w[i], tokens |-> ch[w[i]]] \in TokenWindowMap!Requests
    <2>1. w[i] \in Callers
      BY <1>1
    <2> QED BY <2>1 DEF TokenWindowMap!Requests
  <1>3. RequestsOf(w, ch) \in [1..Len(w) -> TokenWindowMap!Requests]
    BY <1>1, <1>2 DEF RequestsOf
  <1>4. /\ RequestsOf(w, ch) \in Seq(TokenWindowMap!Requests)
        /\ Len(RequestsOf(w, ch)) = Len(w) /\ DOMAIN RequestsOf(w, ch) = DOMAIN w
    BY <1>1, <1>3
  <1> QED BY <1>1, <1>4 DEF RequestsOf

\* ... and every caller in it has asked for tokens, before a step and after it.
LEMMA WaitersAsk ==
    ASSUME QueueInv, ChargesInv
    PROVE  /\ waiters \in Seq(Callers)
           /\ \A i \in DOMAIN waiters : charge[waiters[i]] \in 1..TokenLimit
  <1>1. waiters \in Seq(Callers) /\ \A i \in DOMAIN waiters : waiters[i] \in Callers
    BY DEF QueueInv
  <1> QED BY <1>1, LimiterAssumption DEF QueueInv, ChargesInv

LEMMA WaitersStillAsk ==
    ASSUME QueueInv', ChargesInv'
    PROVE  /\ waiters' \in Seq(Callers)
           /\ \A i \in DOMAIN waiters' : charge'[waiters'[i]] \in 1..TokenLimit
  <1>1. waiters' \in Seq(Callers) /\ \A i \in DOMAIN waiters' : waiters'[i] \in Callers
    BY DEF QueueInv
  <1> QED BY <1>1, LimiterAssumption DEF QueueInv, ChargesInv

LEMMA WaitingShape ==
    ASSUME QueueInv, ChargesInv
    PROVE  /\ waiters \in Seq(Callers) /\ Len(waiters) \in Nat /\ DOMAIN waiters = 1..Len(waiters)
           /\ Waiting \in Seq(TokenWindowMap!Requests)
           /\ Len(Waiting) = Len(waiters) /\ DOMAIN Waiting = DOMAIN waiters
           /\ \A i \in DOMAIN waiters :
                 Waiting[i] = [caller |-> waiters[i], tokens |-> charge[waiters[i]]]
  <1>1. Waiting = RequestsOf(waiters, charge)
    BY DEF Waiting, RequestsOf
  <1> QED BY <1>1, WaitersAsk, RequestsShape

LEMMA WaitingStillShape ==
    ASSUME QueueInv', ChargesInv'
    PROVE  /\ Len(waiters') \in Nat /\ DOMAIN waiters' = 1..Len(waiters')
           /\ Waiting' \in Seq(TokenWindowMap!Requests) /\ Len(Waiting') = Len(waiters')
           /\ \A i \in DOMAIN waiters' :
                 Waiting'[i] = [caller |-> waiters'[i], tokens |-> charge'[waiters'[i]]]
  <1>1. Waiting' = RequestsOf(waiters', charge')
    BY DEF Waiting, RequestsOf
  <1> QED BY <1>1, WaitersStillAsk, RequestsShape

\* A step leaves the queue alone when nobody joins or leaves, and whoever waits keeps the
\* charge.
LEMMA WaitingStays ==
    ASSUME waiters' = waiters, \A i \in DOMAIN waiters : charge'[waiters[i]] = charge[waiters[i]]
    PROVE  Waiting' = Waiting
  BY DEF Waiting

\* Only a caller in its loop is in the queue.
LEMMA OutsideStays ==
    ASSUME QueueInv, ChargesInv, NEW c \in Callers, pc[c] \notin Queued,
           waiters' = waiters, \A d \in Callers \ {c} : charge'[d] = charge[d]
    PROVE  Waiting' = Waiting
  <1>1. \A i \in DOMAIN waiters : waiters[i] \in Callers \ {c}
    BY DEF QueueInv
  <1> QED BY <1>1, WaitingStays

\* A caller that leaves takes its request out, and nobody else's.
LEMMA TakenOut ==
    ASSUME QueueInv, ChargesInv, QueueInv', ChargesInv', NEW c \in Callers,
           NEW k \in DOMAIN waiters, waiters[k] = c, LeaveQueue(c), NEW to, Leave(c, to)
    PROVE  Waiting' = RemoveAt(Waiting, k)
  <1> DEFINE rest == RemoveAt(Waiting, k)
  <1>1. /\ Len(waiters) \in Nat /\ DOMAIN waiters = 1..Len(waiters)
        /\ Waiting \in Seq(TokenWindowMap!Requests) /\ Len(Waiting) = Len(waiters)
        /\ \A i \in DOMAIN waiters :
              Waiting[i] = [caller |-> waiters[i], tokens |-> charge[waiters[i]]]
    BY WaitingShape
  <1>2. /\ Len(waiters') \in Nat /\ DOMAIN waiters' = 1..Len(waiters')
        /\ Waiting' \in Seq(TokenWindowMap!Requests) /\ Len(Waiting') = Len(waiters')
        /\ \A i \in DOMAIN waiters' :
              Waiting'[i] = [caller |-> waiters'[i], tokens |-> charge'[waiters'[i]]]
    BY WaitingStillShape
  <1>3. /\ Len(waiters') = Len(waiters) - 1
        /\ \A i \in 1..(Len(waiters) - 1) :
              waiters'[i] = IF i < k THEN waiters[i] ELSE waiters[i + 1]
    BY LeaveQueueShape
  <1>4. /\ rest \in Seq(TokenWindowMap!Requests) /\ Len(rest) = Len(waiters) - 1
        /\ \A j \in 1..(Len(waiters) - 1) :
              rest[j] = IF j < k THEN Waiting[j] ELSE Waiting[j + 1]
    <2>1. k \in 1..Len(Waiting)
      BY <1>1
    <2> QED BY <1>1, <2>1, RemoveAtShape
  <1>5. \A i \in DOMAIN waiters : i # k => charge'[waiters[i]] = charge[waiters[i]]
    BY DEF QueueInv, Leave, ChargesInv
  <1> HIDE DEF rest
  <1>6. ASSUME NEW j \in 1..(Len(waiters) - 1)
        PROVE  Waiting'[j] = rest[j]
    <2> DEFINE from == IF j < k THEN j ELSE j + 1
    <2>1. from \in DOMAIN waiters /\ from # k /\ j \in DOMAIN waiters'
      BY <1>1, <1>2, <1>3
    <2>2. waiters'[j] = waiters[from] /\ rest[j] = Waiting[from]
      BY <1>3, <1>4
    <2> HIDE DEF from
    <2>3. Waiting'[j] = [caller |-> waiters[from], tokens |-> charge'[waiters[from]]]
      BY <1>2, <2>1, <2>2
    <2>4. Waiting[from] = [caller |-> waiters[from], tokens |-> charge[waiters[from]]]
      BY <1>1, <2>1
    <2>5. charge'[waiters[from]] = charge[waiters[from]]
      BY <1>5, <2>1
    <2> QED BY <2>2, <2>3, <2>4, <2>5
  <1>7. Waiting' = rest
    BY <1>2, <1>3, <1>4, <1>6
  <1> QED BY <1>7 DEF rest

\* Out of the front it is the tail that remains.
LEMMA FrontTakenOut ==
    ASSUME NEW S, NEW q \in Seq(S), q # <<>>
    PROVE  RemoveAt(q, 1) = Tail(q)
  <1>1. Len(q) \in Nat /\ 1 \in 1..Len(q)
    OBVIOUS
  <1>2. /\ RemoveAt(q, 1) \in Seq(S) /\ Len(RemoveAt(q, 1)) = Len(q) - 1
        /\ \A j \in 1..(Len(q) - 1) : RemoveAt(q, 1)[j] = q[j + 1]
    BY <1>1, RemoveAtShape
  <1>3. /\ Tail(q) \in Seq(S) /\ Len(Tail(q)) = Len(q) - 1
        /\ \A j \in 1..(Len(q) - 1) : Tail(q)[j] = q[j + 1]
    OBVIOUS
  <1> QED BY <1>1, <1>2, <1>3

\* A charge that the ledger takes fits the window.
LEMMA ChargeAdmits ==
    ASSUME LedgerInv, LedgerInv', NEW c \in Callers, charge[c] # 0, NEW sp, Charge(sp, c)
    PROVE  TokenWindowMap!Admit(charge[c])
  <1> DEFINE n == charge[c]
  <1>1. /\ n \in Nat /\ TokenLimit \in Nat /\ Window \in 0..Window
        /\ sentTokens \in [0..Window -> Nat] /\ Sent(sentTokens', Window) <= TokenLimit
    BY LimiterAssumption DEF LedgerInv, ChargesInv, Balanced
  <1>2. sentTokens' = [sentTokens EXCEPT ![0] = @ + n]
    BY DEF Charge
  <1>3. Sent(sentTokens, Window) \in Nat
    BY <1>1, SentSums
  <1>4. SumFunction(sentTokens) = Sent(sentTokens, Window)
    BY <1>1 DEF SumFunction, Sent
  <1> HIDE DEF n
  <1>5. Sent(sentTokens', Window) = n + Sent(sentTokens, Window)
    BY <1>1, <1>2, SentCounts
  <1>6. SumFunction(sentTokens) + n <= TokenLimit
    BY <1>1, <1>3, <1>4, <1>5
  <1>7. TokenWindowMap!SumFunction(sentTokens) = SumFunction(sentTokens)
    BY Zenon DEF SumFunction, TokenWindowMap!SumFunction,
       SumFunctionOnSet, TokenWindowMap!SumFunctionOnSet,
       FoldFunctionOnSet, TokenWindowMap!FoldFunctionOnSet,
       MapThenFoldSet, TokenWindowMap!MapThenFoldSet
  <1> QED BY <1>2, <1>6, <1>7 DEF TokenWindowMap!Admit, n

\* Each step of a caller is a step of the abstract queue, or does not touch it.
LEMMA CallerRefines ==
    ASSUME QueueInv, LedgerInv, QueueInv', LedgerInv', NEW c \in Callers, CallerStep(c)
    PROVE  [TokenWindowMap!Next]_(TokenWindowMap!vars)
  <1> DEFINE own == [caller |-> c, tokens |-> charge[c]]
  <1>1. /\ charge \in [Callers -> 0..TokenLimit] /\ ChargesInv /\ ChargesInv'
        /\ pc \in [Callers -> Phases] /\ TokenLimit \in Nat
        /\ \A d \in Callers : pc[d] \in {"entering"} \union Queued => charge[d] # 0
    BY LimiterAssumption DEF LedgerInv, ChargesInv, QueueInv
  <1>2. ASSUME pc[c] \in {"entering"} \union Queued
        PROVE  own \in TokenWindowMap!Requests
    BY <1>1, <1>2 DEF TokenWindowMap!Requests
  <1>3. ASSUME Waiting' = Waiting, sentTokens' = sentTokens
        PROVE  [TokenWindowMap!Next]_(TokenWindowMap!vars)
    BY <1>3 DEF TokenWindowMap!vars
  <1>4. ASSUME pc[c] \notin Queued, UNCHANGED <<waiters, sentTokens>>,
               \A d \in Callers \ {c} : charge'[d] = charge[d]
        PROVE  [TokenWindowMap!Next]_(TokenWindowMap!vars)
    BY <1>1, <1>3, <1>4, OutsideStays
  <1>5. ASSUME UNCHANGED <<waiters, charge, sentTokens>>
        PROVE  [TokenWindowMap!Next]_(TokenWindowMap!vars)
    BY <1>3, <1>5, WaitingStays
  <1>6. ASSUME NEW to, Leave(c, to)
        PROVE  \A d \in Callers \ {c} : charge'[d] = charge[d]
    BY <1>1, <1>6 DEF Leave
  <1>7. ASSUME NEW tokens \in Estimates, RoundTrip(c, tokens)
        PROVE  [TokenWindowMap!Next]_(TokenWindowMap!vars)
    BY <1>1, <1>4, <1>7 DEF RoundTrip, queueVars, spendVars, Queued
  <1>8. CASE \/ ContextEnds(c) \/ CooldownOver(c) \/ Woken(c) \/ SleepOver(c) \/ TrySleep(c)
    BY <1>5, <1>8 DEF ContextEnds, CooldownOver, Woken, SleepOver, TrySleep, Goto, queueVars,
                      spendVars
  <1>9. CASE CooldownCanceled(c) \/ RequestsRefuse(c) \/ EnterCanceled(c) \/ Respond(c)
    BY <1>4, <1>6, <1>9 DEF CooldownCanceled, RequestsRefuse, EnterCanceled, Respond,
                            queueVars, spendVars, Queued
  <1>10. CASE RequestsPass(c)
    BY <1>4, <1>5, <1>6, <1>10 DEF RequestsPass, Goto, queueVars, spendVars, Queued
  <1>11. ASSUME NEW hint \in Hints, Backoff(c, hint)
         PROVE  [TokenWindowMap!Next]_(TokenWindowMap!vars)
    BY <1>4, <1>6, <1>11 DEF Backoff, queueVars, spendVars, Queued
  <1>12. CASE Enqueue(c)
    <2>1. /\ pc[c] = "entering" /\ waiters' = Append(waiters, c)
          /\ charge' = charge /\ sentTokens' = sentTokens
      BY <1>12 DEF Enqueue, Goto, spendVars
    <2>2. /\ waiters \in Seq(Callers) /\ Len(waiters) \in Nat /\ DOMAIN waiters = 1..Len(waiters)
          /\ Waiting \in Seq(TokenWindowMap!Requests)
          /\ Len(Waiting) = Len(waiters) /\ DOMAIN Waiting = DOMAIN waiters
          /\ \A i \in DOMAIN waiters :
                Waiting[i] = [caller |-> waiters[i], tokens |-> charge[waiters[i]]]
      BY <1>1, WaitingShape
    <2>3. own \in TokenWindowMap!Requests
      BY <1>2, <2>1
    <2>4. \A i \in DOMAIN Waiting : Waiting[i].caller # own.caller
      <3>1. \A i \in DOMAIN waiters : waiters[i] # c
        BY <2>1 DEF QueueInv, Queued
      <3> QED BY <2>2, <3>1
    <2>5. Waiting' = Append(Waiting, own)
      <3> DEFINE new == [i \in DOMAIN waiters' |->
                            [caller |-> waiters'[i], tokens |-> charge[waiters'[i]]]]
      <3>1. Waiting' = new
        BY <2>1 DEF Waiting
      <3>2. /\ DOMAIN waiters' = 1..(Len(waiters) + 1) /\ waiters'[Len(waiters) + 1] = c
            /\ \A i \in 1..Len(waiters) : waiters'[i] = waiters[i]
        BY <2>1, <2>2
      <3>3. /\ Append(Waiting, own) = [i \in 1..(Len(waiters) + 1) |->
                    IF i = Len(waiters) + 1 THEN own ELSE Waiting[i]]
        BY <2>2, <2>3
      <3>4. \A i \in 1..(Len(waiters) + 1) :
               new[i] = IF i = Len(waiters) + 1 THEN own ELSE Waiting[i]
        <4> SUFFICES ASSUME NEW i \in 1..(Len(waiters) + 1)
                     PROVE  new[i] = IF i = Len(waiters) + 1 THEN own ELSE Waiting[i]
          OBVIOUS
        <4>1. CASE i = Len(waiters) + 1
          BY <3>2, <4>1
        <4>2. CASE i \in 1..Len(waiters)
          BY <2>2, <3>2, <4>2
        <4> QED BY <2>2, <4>1, <4>2
      <3>5. DOMAIN new = 1..(Len(waiters) + 1)
        BY <3>2
      <3> HIDE DEF own
      <3> QED BY <3>1, <3>3, <3>4, <3>5
    <2> HIDE DEF own
    <2>6. TokenWindowMap!Wait(own)
      BY <2>1, <2>4, <2>5 DEF TokenWindowMap!Wait
    <2> QED BY <2>3, <2>6 DEF TokenWindowMap!Next
  <1>13. CASE EnterAdmitted(c)
    <2>1. /\ pc[c] = "entering" /\ waiters = <<>> /\ waiters' = waiters
          /\ Charge(spend, c) /\ Leave(c, "sent")
      BY <1>13 DEF EnterAdmitted, queueVars
    <2>2. own \in TokenWindowMap!Requests /\ charge[c] # 0
      BY <1>1, <1>2, <2>1
    <2>3. Waiting' = Waiting
      BY <1>1, <1>6, <2>1, OutsideStays DEF Queued
    <2>4. Waiting = <<>>
      BY <1>1, <2>1, WaitingShape
    <2>5. TokenWindowMap!Admit(own.tokens)
      BY <2>1, <2>2, ChargeAdmits
    <2> HIDE DEF own
    <2>6. TokenWindowMap!AdmitAtOnce(own)
      BY <2>3, <2>4, <2>5 DEF TokenWindowMap!AdmitAtOnce
    <2> QED BY <2>2, <2>6 DEF TokenWindowMap!Next
  <1>14. CASE ParkedCanceled(c) \/ SleepCanceled(c)
    <2>1. pc[c] \in Queued /\ LeaveQueue(c) /\ Leave(c, "idle") /\ sentTokens' = sentTokens
      BY <1>14 DEF ParkedCanceled, SleepCanceled, spendVars, Queued
    <2>2. PICK k \in DOMAIN waiters : waiters[k] = c
      BY <2>1 DEF QueueInv
    <2>3. Waiting' = RemoveAt(Waiting, k)
      BY <1>1, <2>1, <2>2, TakenOut
    <2>4. k \in DOMAIN Waiting
      BY <1>1, WaitingShape
    <2>5. TokenWindowMap!GiveUp(k)
      BY <2>1, <2>3 DEF TokenWindowMap!GiveUp, TokenWindowMap!RemoveAt, RemoveAt
    <2> QED BY <2>4, <2>5 DEF TokenWindowMap!Next
  <1>15. CASE TryAdmit(c)
    <2>1. /\ pc[c] \in Queued /\ waiters # <<>> /\ waiters[1] = c
          /\ Charge(DropExpired(spend), c) /\ LeaveQueue(c) /\ Leave(c, "sent")
      BY <1>15 DEF TryAdmit, QueueInv, Queued
    <2>2. 1 \in DOMAIN waiters /\ 1 \in DOMAIN Waiting
      BY <1>1, <2>1, WaitingShape
    <2>3. /\ Waiting \in Seq(TokenWindowMap!Requests) /\ Waiting # <<>>
          /\ Head(Waiting).tokens = charge[c]
      <3>1. /\ Waiting \in Seq(TokenWindowMap!Requests)
            /\ Waiting[1] = [caller |-> waiters[1], tokens |-> charge[waiters[1]]]
        BY <1>1, <2>2, WaitingShape
      <3>2. Waiting # <<>> /\ Head(Waiting) = Waiting[1]
        BY <2>2, <3>1
      <3> QED BY <2>1, <3>1, <3>2
    <2>4. Waiting' = RemoveAt(Waiting, 1)
      BY <1>1, <2>1, <2>2, TakenOut
    <2>5. Waiting' = Tail(Waiting)
      BY <2>3, <2>4, FrontTakenOut
    <2>6. TokenWindowMap!Admit(charge[c])
      BY <1>1, <2>1, ChargeAdmits
    <2>7. TokenWindowMap!AdmitFirst
      BY <2>3, <2>5, <2>6 DEF TokenWindowMap!AdmitFirst
    <2> QED BY <2>7 DEF TokenWindowMap!Next
  <1> QED BY <1>7, <1>8, <1>9, <1>10, <1>11, <1>12, <1>13, <1>14, <1>15
          DEF CallerStep, WaitStep, QueueStep

\* The limiter is the queue its callers are promised: served in order, each request for the
\* tokens it is charged, within the budget of every window (Wait, waitTokenWindow).
THEOREM RefinesTokenWindow == Spec => ImplementsTokenWindow
  <1>1. ASSUME Init
        PROVE  TokenWindowMap!Init
    BY <1>1 DEF Init, Waiting, TokenWindowMap!Init
  <1>2. ASSUME QueueInv, LedgerInv, QueueInv', LedgerInv', [Next]_vars
        PROVE  [TokenWindowMap!Next]_(TokenWindowMap!vars)
    <2>1. CASE Tick
      <3>1. /\ Waiting' = Waiting
            /\ sentTokens' = [a \in 0..Window |-> IF a = 0 THEN 0 ELSE sentTokens[a - 1]]
        BY <2>1, WaitingStays DEF Tick, callerVars
      <3> QED BY <3>1 DEF TokenWindowMap!Tick, TokenWindowMap!Next
    <2>2. CASE UNCHANGED vars
      BY <2>2, WaitingStays
         DEF vars, callerVars, queueVars, spendVars, TokenWindowMap!vars
    <2>3. ASSUME NEW c \in Callers, CallerStep(c)
          PROVE  [TokenWindowMap!Next]_(TokenWindowMap!vars)
      BY <1>2, <2>3, CallerRefines
    <2> QED BY <1>2, <2>1, <2>2, <2>3 DEF Next
  <1> QED BY <1>1, <1>2, QueueInvHolds, LedgerInvHolds, PTL
          DEF Spec, ImplementsTokenWindow, TokenWindowMap!Spec
=============================================================================
