------------------------- MODULE ConversationProofs -------------------------
(***************************************************************************)
(* Proofs about the conversation of a session, for any number of turns,    *)
(* calls and upsets and any bound of retries and recoveries: a run whose   *)
(* tools ran is not repeated, a summary does not part a call from its      *)
(* result, what a shed result says of a newer one is true, and a request   *)
(* to the model holds one result for each call, and behind it.  The types  *)
(* come last, as they need all of it.                                      *)
(***************************************************************************)
EXTENDS Conversation, FiniteSetTheorems, SequenceTheorems, WellFoundedInduction, TLAPS

-----------------------------------------------------------------------------
(***************************************************************************)
(* Retries.  A tool runs only in a turn whose run has yielded the calls,   *)
(* and only a turn that has begun can have yielded.                        *)
(***************************************************************************)
RetryInv ==
    /\ at \in [Turns -> Places]
    /\ tries \in [Turns -> Nat]
    /\ \A t \in Turns : at[t] # "new" => t \in begun
    /\ \A t \in Turns : at[t] = "tools" => t \in yielded
    /\ touched \subseteq yielded /\ yielded \subseteq begun

\* A turn that is over has forgotten its attempts, and only its own.
LEMMA OverRetryInv ==
    ASSUME RetryInv, NEW t \in Turns, at[t] # "new", Over(t)
    PROVE  RetryInv' /\ tries' = [u \in Turns |-> IF u = t THEN 0 ELSE tries[u]]
  BY DEF RetryInv, Over, Forget, Goto, Places

\* Of the steps of a turn only Retry counts an attempt, and it runs no tool.
LEMMA TurnStepRetry ==
    ASSUME RetryInv, NEW t \in Turns, TurnBegins(t) \/ TurnGoesOn(t) \/ TurnEnds(t)
    PROVE  /\ RetryInv'
           /\ \A u \in Turns : tries'[u] > tries[u] => u \notin touched
  <1> DEFINE Goal == RetryInv' /\ \A u \in Turns : tries'[u] > tries[u] => u \notin touched
  <1>1. ASSUME at[t] # "new", Over(t) PROVE Goal
    BY <1>1, OverRetryInv DEF RetryInv
  <1>2. ASSUME UNCHANGED <<tries, yielded, touched, begun>>, at[t] # "new",
               NEW place \in Places \ {"new", "tools"}, Goto(t, place)
        PROVE  Goal
    BY <1>2 DEF RetryInv, Goto
  <1> SUFFICES Goal OBVIOUS
  <1> HIDE DEF Goal
  <1> USE DEF turnVars, uiVars, Places
  <1>3. CASE AutoCompactNone(t) BY <1>2, <1>3 DEF AutoCompactNone
  <1>4. CASE AutoCompactShed(t) BY <1>2, <1>4 DEF AutoCompactShed
  <1>5. CASE AutoCompactSummarize(t) BY <1>2, <1>5 DEF AutoCompactSummarize
  <1>6. CASE RepairReads(t) BY <1>2, <1>6 DEF RepairReads
  <1>7. CASE RepairAppends(t) BY <1>1, <1>2, <1>7 DEF RepairAppends, AppendEvent
  <1>8. CASE AppendPrompt(t) BY <1>1, <1>2, <1>8 DEF AppendPrompt, AppendEvent
  <1>9. CASE Ask(t) BY <1>2, <1>9 DEF Ask
  <1>10. CASE ModelTalks(t) BY <1>1, <1>2, <1>10 DEF ModelTalks, AppendEvent
  <1>11. CASE ModelCalls(t)
    <2>1. at[t] # "new" BY <1>11 DEF ModelCalls
    <2>2. Over(t) \/ /\ Goto(t, "tools") /\ Yields(t)
                     /\ UNCHANGED <<tries, touched, begun>>
      BY <1>11 DEF ModelCalls, AppendEvent
    <2> QED BY <1>1, <2>1, <2>2 DEF Goal, RetryInv, Goto, Yields
  <1>12. CASE AppendResults(t) BY <1>1, <1>2, <1>12 DEF AppendResults, AppendEvent
  <1>13. CASE \E c \in Calls : ToolReturns(t, c)
    BY <1>13 DEF ToolReturns, Goal, RetryInv
  <1>14. CASE Retry(t)
    BY <1>14 DEF Retry, Goto, Goal, RetryInv
  <1>15. CASE RetryBegins(t) BY <1>2, <1>15 DEF RetryBegins
  <1>16. CASE StuckRecovers(t) BY <1>16 DEF StuckRecovers, LoopShows, Goto, Goal, RetryInv
  <1>17. CASE StuckGivesUp(t) BY <1>1, <1>17 DEF StuckGivesUp, LoopShows
  <1>18. CASE Fails(t) BY <1>1, <1>18 DEF Fails
  <1>19. CASE Canceled(t) BY <1>1, <1>19 DEF Canceled
  <1>20. CASE TurnDone(t) BY <1>1, <1>20 DEF TurnDone
  <1> QED
    BY <1>3, <1>4, <1>5, <1>6, <1>7, <1>8, <1>9, <1>10, <1>11, <1>12, <1>13, <1>14, <1>15,
       <1>16, <1>17, <1>18, <1>19, <1>20 DEF TurnBegins, TurnGoesOn, TurnEnds

\* Every step keeps the invariant, and only a turn without a tool run tries again.
LEMMA NextRetry ==
    ASSUME RetryInv, [Next]_vars
    PROVE  /\ RetryInv'
           /\ \A u \in Turns : tries'[u] > tries[u] => u \notin touched
  <1> USE DEF RetryInv, Places, turnVars, uiVars
  <1>1. ASSUME NEW t \in Turns, Submit(t)
        PROVE  RetryInv' /\ UNCHANGED tries
    BY <1>1 DEF Submit, Goto
  <1>2. CASE Escape BY <1>2 DEF Escape
  <1>3. CASE ClearConversation BY <1>3 DEF ClearConversation
  <1>4. CASE Compact BY <1>4 DEF Compact
  <1>5. CASE Restart BY <1>5 DEF Restart, Forget
  <1>6. CASE UNCHANGED vars BY <1>6 DEF vars
  <1> QED BY <1>1, <1>2, <1>3, <1>4, <1>5, <1>6, TurnStepRetry DEF Next

(***************************************************************************)
(* A run is repeated only when no tool of it ran.                          *)
(***************************************************************************)
THEOREM NoToolRunsTwice == Spec => RetryIsHarmless
<1>1. Init => RetryInv
  BY DEF Init, RetryInv, Places
<1>2. RetryInv /\ [Next]_vars
        => RetryInv' /\ [\A t \in Turns : tries'[t] > tries[t] => t \notin touched]_vars
  BY NextRetry
<1>3. QED BY <1>1, <1>2, PTL DEF Spec, RetryIsHarmless

-----------------------------------------------------------------------------
(***************************************************************************)
(* What the operators on lists of events keep: which calls are asked for   *)
(* together in one event, and which are answered together.                 *)
(***************************************************************************)
IsList(evs) == \E S : evs \in Seq(S)

AskedTogether(evs) == {Asked(ev) : ev \in Range(evs)}
AnsweredTogether(evs) == {Answered(ev) : ev \in Range(evs)}

\* What each kind of event asks for and answers.
LEMMA Sides ==
    /\ \A ev \in {Prompt, Text, Summary} : Asked(ev) = {} /\ Answered(ev) = {}
    /\ \A on : Asked(CallsEvent(on)) = DOMAIN on /\ Answered(CallsEvent(on)) = {}
    /\ \A of : Asked(ResultsEvent(of)) = {} /\ Answered(ResultsEvent(of)) = DOMAIN of
  BY DEF Prompt, Text, Summary, CallsEvent, ResultsEvent, Asked, Answered

\* A set of numbers that is not empty has a least member.
LEMMA MinIsMember ==
    ASSUME NEW S \in SUBSET Nat, S # {}
    PROVE  Min(S) \in S /\ \A y \in S : Min(S) =< y
  <1> DEFINE R == {pair \in Nat \X Nat : pair[1] < pair[2]}
  <1>1. IsWellFoundedOn(R, Nat) BY NatLessThanWellFounded DEF OpToRel
  <1>2. PICK x \in S : \A y \in S : ~(<<y, x>> \in R)
    <2> HIDE DEF R
    <2> QED BY <1>1, WFMin
  <1>3. ASSUME NEW y \in S PROVE x =< y
    <2>1. y \in Nat /\ x \in Nat /\ <<y, x>> \in Nat \X Nat OBVIOUS
    <2>2. ~(y < x) BY <1>2, <2>1
    <2> QED BY <2>1, <2>2
  <1> QED BY <1>3 DEF Min

\* A list of events is a sequence over what is in it.
LEMMA ListShape ==
    ASSUME NEW evs, IsList(evs)
    PROVE  /\ Len(evs) \in Nat /\ DOMAIN evs = 1..Len(evs)
           /\ Range(evs) = {evs[i] : i \in 1..Len(evs)}
           /\ evs \in Seq(Range(evs))
  BY LenProperties, RangeEquality, SeqOfRange DEF IsList

\* An appended event adds its batch of calls and its batch of answers.
LEMMA AppendLists ==
    ASSUME NEW evs, IsList(evs), NEW ev
    PROVE  /\ IsList(Append(evs, ev))
           /\ AskedTogether(Append(evs, ev)) = AskedTogether(evs) \cup {Asked(ev)}
           /\ AnsweredTogether(Append(evs, ev)) = AnsweredTogether(evs) \cup {Answered(ev)}
  <1> DEFINE S == Range(evs) \cup {ev}
  <1>1. evs \in Seq(S) BY ListShape, SeqMonotonic
  <1>2. <<ev>> \in Seq(S) /\ Range(<<ev>>) = {ev} BY DEF Range
  <1>3. Append(evs, ev) = evs \o <<ev>> BY <1>1, AppendIsConcat
  <1>4. Range(evs \o <<ev>>) = Range(evs) \cup Range(<<ev>>)
    <2> HIDE DEF S
    <2> QED BY ZenonT(30), <1>1, <1>2, RangeConcatenation
  <1>5. evs \o <<ev>> \in Seq(S) BY <1>1, <1>2, ConcatProperties
  <1>6. \A x : x \in Range(Append(evs, ev)) <=> x \in Range(evs) \/ x = ev
    BY <1>2, <1>3, <1>4
  <1>7. IsList(Append(evs, ev)) BY <1>3, <1>5 DEF IsList
  <1> QED BY <1>6, <1>7 DEF AskedTogether, AnsweredTogether

\* The back of a list behind something else, event by event.
LEMMA TailShape ==
    ASSUME NEW evs, IsList(evs), NEW cut \in 0..Len(evs), NEW front, NEW S, front \in Seq(S)
    PROVE  LET new == front \o SubSeq(evs, cut + 1, Len(evs))
               f   == Len(front)
               len == Len(evs) - cut
           IN  /\ IsList(new) /\ f \in Nat /\ len \in Nat /\ DOMAIN new = 1..(f + len)
               /\ \A i \in DOMAIN new :
                     \/ i <= f /\ new[i] \in S
                     \/ /\ i > f /\ cut + (i - f) \in cut+1..Len(evs)
                        /\ new[i] = evs[cut + (i - f)]
  <1> DEFINE back == SubSeq(evs, cut + 1, Len(evs))
             new == front \o back
             T == S \cup Range(evs)
             f == Len(front)
             len == Len(evs) - cut
  <1>1. Len(evs) \in Nat /\ DOMAIN evs = 1..Len(evs) /\ \A i \in 1..Len(evs) : evs[i] \in T
    BY ListShape
  <1>2. back \in Seq(T) /\ Len(back) = len /\ \A i \in 1..len : back[i] = evs[cut + i]
    <2>1. \A i \in cut+1..Len(evs) : evs[i] \in T BY <1>1
    <2>2. cut + 1 \in Int /\ Len(evs) \in Int BY <1>1
    <2> HIDE DEF T
    <2>3. /\ back \in Seq(T)
          /\ Len(back) = IF cut + 1 <= Len(evs) THEN Len(evs) - (cut + 1) + 1 ELSE 0
          /\ \A i \in 1..(Len(evs) - (cut + 1) + 1) : back[i] = evs[cut + 1 + i - 1]
      BY <2>1, <2>2, SubSeqProperties
    <2> HIDE DEF back
    <2> QED BY <2>2, <2>3
  <1>3. front \in Seq(T) /\ f \in Nat /\ \A i \in 1..f : front[i] \in S
    BY SeqMonotonic, LenProperties, ElementOfSeq
  <1> HIDE DEF back, T
  <1>4. /\ new \in Seq(T) /\ Len(new) = f + len
        /\ \A i \in 1..(f + len) : new[i] = IF i <= f THEN front[i] ELSE back[i - f]
    <2> HIDE DEF len
    <2> QED BY <1>2, <1>3, ConcatProperties
  <1>5. len \in Nat /\ DOMAIN new = 1..(f + len) BY <1>1, <1>4, LenProperties
  <1> HIDE DEF new, f
  <1>6. ASSUME NEW i \in DOMAIN new
        PROVE  \/ i <= f /\ new[i] \in S
               \/ /\ i > f /\ cut + (i - f) \in cut+1..Len(evs)
                  /\ new[i] = evs[cut + (i - f)]
    <2>1. i \in 1..(f + len) BY <1>5
    <2>2. CASE i <= f BY <2>1, <2>2, <1>3, <1>4
    <2>3. CASE ~(i <= f)
      <3>1. i - f \in 1..len BY <2>1, <2>3, <1>3, <1>5
      <3>2. new[i] = back[i - f] BY <2>1, <2>3, <1>4
      <3>3. new[i] = evs[cut + (i - f)] BY <3>1, <3>2, <1>2
      <3> QED BY <2>1, <2>3, <3>1, <3>3, <1>1, <1>3
    <2> QED BY <2>2, <2>3
  <1>7. IsList(new) BY <1>4 DEF IsList
  <1> QED BY <1>3, <1>5, <1>6, <1>7 DEF new, back, f

\* The back of a list behind something in which nothing is asked or answered.
LEMMA TailLists ==
    ASSUME NEW evs, IsList(evs), NEW cut \in 0..Len(evs), NEW front, NEW S,
           front \in Seq(S), \A ev \in S : Asked(ev) = {} /\ Answered(ev) = {}
    PROVE  LET back == SubSeq(evs, cut + 1, Len(evs)) IN
           /\ IsList(front \o back)
           /\ Range(back) = {evs[i] : i \in cut+1..Len(evs)}
           /\ Range(front \o back) = Range(front) \cup Range(back)
           /\ Range(front) \subseteq S
  <1> DEFINE back == SubSeq(evs, cut + 1, Len(evs))
             T == S \cup Range(evs)
  <1>1. Len(evs) \in Nat /\ \A i \in 1..Len(evs) : evs[i] \in T BY ListShape
  <1>2. /\ back \in Seq(T)
        /\ Len(back) = Len(evs) - cut
        /\ \A i \in 1..(Len(evs) - cut) : back[i] = evs[cut + i]
    <2>1. \A i \in cut+1..Len(evs) : evs[i] \in T BY <1>1
    <2>2. cut + 1 \in Int /\ Len(evs) \in Int BY <1>1
    <2> HIDE DEF T
    <2>3. /\ back \in Seq(T)
          /\ Len(back) = IF cut + 1 <= Len(evs) THEN Len(evs) - (cut + 1) + 1 ELSE 0
          /\ \A i \in 1..(Len(evs) - (cut + 1) + 1) : back[i] = evs[cut + 1 + i - 1]
      BY <2>1, <2>2, SubSeqProperties
    <2> HIDE DEF back
    <2> QED BY <2>2, <2>3
  <1>3. front \in Seq(T) BY SeqMonotonic
  <1>4. Range(back) = {back[i] : i \in 1..Len(back)} BY <1>2, RangeEquality
  <1> HIDE DEF back, T
  <1>5. Range(back) = {evs[i] : i \in cut+1..Len(evs)}
    <2>1. ASSUME NEW i \in cut+1..Len(evs) PROVE evs[i] \in Range(back)
      <3>1. i - cut \in 1..Len(back) /\ cut + (i - cut) = i BY <1>1, <1>2
      <3>2. back[i - cut] = evs[cut + (i - cut)] BY <1>2, <3>1
      <3> QED BY <1>4, <3>1, <3>2
    <2>2. ASSUME NEW i \in 1..Len(back) PROVE \E j \in cut+1..Len(evs) : back[i] = evs[j]
      BY <1>1, <1>2
    <2> QED BY ZenonT(30), <1>4, <2>1, <2>2
  <1>6. IsList(front \o back) BY <1>2, <1>3, ConcatProperties DEF IsList
  <1>7. Range(front \o back) = Range(front) \cup Range(back)
    BY <1>2, <1>3, RangeConcatenation
  <1>8. Range(front) \subseteq S BY RangeOfSeq
  <1> QED BY <1>5, <1>6, <1>7, <1>8 DEF back

-----------------------------------------------------------------------------
(***************************************************************************)
(* What holds of the list in memory and of the one in the log, both.  A    *)
(* call is asked for once.  A stub lies behind none of the last KeepRecent *)
(* events, so that a summary or /compact takes it along, and a result that *)
(* is no stub and comes after it stands in for it.  "After" is the order   *)
(* of the shedding walk, which goes forward within an event: only with it  *)
(* do the stand-ins of a list form no circle.                              *)
(***************************************************************************)
Newer(j, d, i, c) == j > i \/ (j = i /\ d < c)

IsStub(evs, i, c) == c \in Answered(evs[i]) /\ evs[i].of[c] = Stub

StandsIn(evs, j, d, i, c) ==
    /\ j \in DOMAIN evs /\ d \in Answered(evs[j]) /\ d \in AllAsked(evs)
    /\ Newer(j, d, i, c)
    /\ FileOf(evs, d) = FileOf(evs, c)
    /\ ~IsStub(evs, j, d)

CallsUpTo(evs, n) ==
    \A i \in DOMAIN evs : Asked(evs[i]) \subseteq 1..n /\ Answered(evs[i]) \subseteq 1..n

AskedOnce(evs) == \A i, j \in DOMAIN evs : i # j => Asked(evs[i]) \cap Asked(evs[j]) = {}

StubsAreOld(evs) ==
    \A i \in DOMAIN evs : \A c \in Answered(evs[i]) :
        IsStub(evs, i, c) => i <= Len(evs) - KeepRecent

StubsHaveStandIn(evs) ==
    \A i \in DOMAIN evs : \A c \in Answered(evs[i]) :
        IsStub(evs, i, c) /\ c \in AllAsked(evs) => \E j, d : StandsIn(evs, j, d, i, c)

ListInv(evs, n) ==
    /\ IsList(evs) /\ CallsUpTo(evs, n) /\ AskedOnce(evs)
    /\ StubsAreOld(evs) /\ StubsHaveStandIn(evs)

\* The file of a call is the one of the event that asks for it.
LEMMA FileOfIsAsked ==
    ASSUME NEW evs, AskedOnce(evs), NEW i \in DOMAIN evs, NEW c \in Asked(evs[i])
    PROVE  FileOf(evs, c) = evs[i].on[c]
  <1> DEFINE k == CHOOSE k \in DOMAIN evs : c \in Asked(evs[k])
  <1>1. k \in DOMAIN evs /\ c \in Asked(evs[k]) OBVIOUS
  <1>2. k = i BY <1>1 DEF AskedOnce
  <1> QED BY <1>2 DEF FileOf

\* A call is asked for, or answered, by an event at some position.
LEMMA AskedIsIndexed ==
    ASSUME NEW evs, NEW c
    PROVE  /\ c \in AllAsked(evs) <=> \E i \in DOMAIN evs : c \in Asked(evs[i])
           /\ c \in AllAnswered(evs) <=> \E i \in DOMAIN evs : c \in Answered(evs[i])
  BY DEF AllAsked, AllAnswered

\* An event that is appended, whose calls are new and which holds no stub, disturbs
\* nothing in front of it.
LEMMA AppendListInv ==
    ASSUME NEW n \in Nat, NEW m \in Nat, n <= m, NEW evs, ListInv(evs, n), NEW ev,
           Asked(ev) \subseteq n+1..m, Answered(ev) \subseteq 1..n,
           \A c \in Answered(ev) : ev.of[c] # Stub
    PROVE  ListInv(Append(evs, ev), m)
  <1> DEFINE new == Append(evs, ev)
  <1>1. /\ Len(evs) \in Nat /\ Len(new) = Len(evs) + 1
        /\ DOMAIN evs = 1..Len(evs) /\ DOMAIN new = 1..(Len(evs) + 1)
        /\ \A i \in 1..Len(evs) : new[i] = evs[i]
        /\ new[Len(evs) + 1] = ev
        /\ IsList(new)
    <2>1. evs \in Seq(Range(evs) \cup {ev}) BY ListShape, SeqMonotonic DEF ListInv
    <2> DEFINE S == Range(evs) \cup {ev}
    <2>2. ev \in S OBVIOUS
    <2> HIDE DEF S
    <2>3. evs \in Seq(S) BY <2>1 DEF S
    <2>4. /\ new \in Seq(S) /\ Len(new) = Len(evs) + 1
          /\ \A i \in 1..Len(evs) : new[i] = evs[i]
          /\ new[Len(evs) + 1] = ev
      BY <2>2, <2>3, AppendProperties
    <2>5. Len(evs) \in Nat /\ DOMAIN evs = 1..Len(evs) /\ DOMAIN new = 1..Len(new)
      BY <2>3, <2>4, LenProperties
    <2> QED BY <2>4, <2>5 DEF IsList
  <1> HIDE DEF new
  <1>2. CallsUpTo(new, m)
    <2> SUFFICES ASSUME NEW i \in DOMAIN new
                 PROVE  Asked(new[i]) \subseteq 1..m /\ Answered(new[i]) \subseteq 1..m
      BY DEF CallsUpTo
    <2>1. CASE i = Len(evs) + 1 BY <2>1, <1>1
    <2>2. CASE i \in 1..Len(evs) BY <2>2, <1>1 DEF ListInv, CallsUpTo
    <2> QED BY <2>1, <2>2, <1>1
  <1>3. \A i \in 1..Len(evs) : Asked(evs[i]) \cap Asked(ev) = {}
    BY <1>1 DEF ListInv, CallsUpTo
  <1>4. AskedOnce(new)
    <2> SUFFICES ASSUME NEW i \in DOMAIN new, NEW j \in DOMAIN new, i # j
                 PROVE  Asked(new[i]) \cap Asked(new[j]) = {}
      BY DEF AskedOnce
    <2>1. CASE i \in 1..Len(evs) /\ j \in 1..Len(evs)
      <3>1. Asked(evs[i]) \cap Asked(evs[j]) = {} BY <2>1, <1>1 DEF ListInv, AskedOnce
      <3>2. new[i] = evs[i] /\ new[j] = evs[j] BY <2>1, <1>1
      <3> QED BY <3>1, <3>2
    <2>2. CASE i = Len(evs) + 1 /\ j \in 1..Len(evs)
      <3>1. new[i] = ev /\ new[j] = evs[j] BY <2>2, <1>1
      <3> QED BY <2>2, <3>1, <1>3
    <2>3. CASE i \in 1..Len(evs) /\ j = Len(evs) + 1
      <3>1. new[i] = evs[i] /\ new[j] = ev BY <2>3, <1>1
      <3> QED BY <2>3, <3>1, <1>3
    <2> QED BY <2>1, <2>2, <2>3, <1>1
  <1>5. ASSUME NEW i \in DOMAIN new, NEW c \in Answered(new[i]), IsStub(new, i, c)
        PROVE  i \in 1..Len(evs) /\ IsStub(evs, i, c)
    BY <1>1, <1>5 DEF IsStub
  <1>6. StubsAreOld(new)
    <2> SUFFICES ASSUME NEW i \in DOMAIN new, NEW c \in Answered(new[i]), IsStub(new, i, c)
                 PROVE  i <= Len(new) - KeepRecent
      BY DEF StubsAreOld
    <2>1. i \in 1..Len(evs) /\ IsStub(evs, i, c) BY <1>5
    <2>2. i <= Len(evs) - KeepRecent BY <2>1, <1>1 DEF ListInv, StubsAreOld, IsStub
    <2> QED BY <2>1, <2>2, <1>1, ConversationAssumption
  <1>7. ASSUME NEW c \in 1..n
        PROVE  /\ c \in AllAsked(new) <=> c \in AllAsked(evs)
               /\ c \in AllAsked(evs) => FileOf(new, c) = FileOf(evs, c)
    <2>1. c \notin Asked(ev) OBVIOUS
    <2>2. c \in AllAsked(new) => \E i \in 1..Len(evs) : c \in Asked(evs[i])
      BY <2>1, <1>1, AskedIsIndexed
    <2>3. ASSUME NEW i \in 1..Len(evs), c \in Asked(evs[i])
          PROVE  c \in AllAsked(new) /\ FileOf(new, c) = FileOf(evs, c)
      <3>1. i \in DOMAIN new /\ i \in DOMAIN evs /\ new[i] = evs[i] BY <1>1
      <3>2. FileOf(evs, c) = evs[i].on[c] BY <2>3, <3>1, FileOfIsAsked DEF ListInv
      <3>3. FileOf(new, c) = new[i].on[c] BY <2>3, <3>1, <1>4, FileOfIsAsked
      <3> QED BY <2>3, <3>1, <3>2, <3>3, AskedIsIndexed
    <2> QED BY <2>2, <2>3, <1>1, AskedIsIndexed
  <1>8. StubsHaveStandIn(new)
    <2> SUFFICES ASSUME NEW i \in DOMAIN new, NEW c \in Answered(new[i]), IsStub(new, i, c),
                        c \in AllAsked(new)
                 PROVE  \E j, d : StandsIn(new, j, d, i, c)
      BY DEF StubsHaveStandIn
    <2>1. i \in 1..Len(evs) /\ IsStub(evs, i, c) /\ c \in 1..n
      BY <1>1, <1>5 DEF ListInv, CallsUpTo, IsStub
    <2>2. c \in AllAsked(evs) BY <2>1, <1>7
    <2>3. PICK j, d : StandsIn(evs, j, d, i, c)
      BY <2>1, <2>2, <1>1 DEF ListInv, StubsHaveStandIn, IsStub
    <2>4. j \in 1..Len(evs) /\ new[j] = evs[j] /\ d \in 1..n
      BY <2>3, <1>1 DEF StandsIn, ListInv, CallsUpTo
    <2>5. StandsIn(new, j, d, i, c) BY <2>1, <2>2, <2>3, <2>4, <1>1, <1>7 DEF StandsIn, IsStub
    <2> QED BY <2>5
  <1> QED BY <1>1, <1>2, <1>4, <1>6, <1>8 DEF ListInv, new

\* A list of which only the back is kept, from KeepRecent events before the end or
\* later, behind something without calls or results, holds no stub at all.
LEMMA TailListInv ==
    ASSUME NEW n \in Nat, NEW evs, ListInv(evs, n),
           NEW cut \in 0..Len(evs), cut >= Len(evs) - KeepRecent, NEW front, NEW S,
           front \in Seq(S), \A ev \in S : Asked(ev) = {} /\ Answered(ev) = {}
    PROVE  ListInv(front \o SubSeq(evs, cut + 1, Len(evs)), n)
  <1> DEFINE back == SubSeq(evs, cut + 1, Len(evs))
             new == front \o back
             f == Len(front)
             len == Len(evs) - cut
  <1>1. Len(evs) \in Nat /\ DOMAIN evs = 1..Len(evs) BY ListShape DEF ListInv
  <1>2. /\ IsList(new) /\ f \in Nat /\ len \in Nat /\ DOMAIN new = 1..(f + len)
        /\ \A i \in DOMAIN new :
              \/ i <= f /\ new[i] \in S
              \/ /\ i > f /\ cut + (i - f) \in cut+1..Len(evs)
                 /\ new[i] = evs[cut + (i - f)]
    BY ZenonT(30), TailShape DEF ListInv
  <1> HIDE DEF new, f
  <1>3. ASSUME NEW i \in DOMAIN new
        PROVE  \/ i <= f /\ Asked(new[i]) = {} /\ Answered(new[i]) = {}
               \/ /\ i > f /\ cut + (i - f) \in cut+1..Len(evs)
                  /\ new[i] = evs[cut + (i - f)]
    BY <1>2
  <1>4. ASSUME NEW i \in DOMAIN new, NEW c PROVE ~IsStub(new, i, c)
    <2>1. SUFFICES ASSUME IsStub(new, i, c) PROVE FALSE
      OBVIOUS
    <2>2. cut + (i - f) \in cut+1..Len(evs) /\ new[i] = evs[cut + (i - f)]
      BY <2>1, <1>3 DEF IsStub
    <2>3. IsStub(evs, cut + (i - f), c) BY <2>1, <2>2 DEF IsStub
    <2>4. cut + (i - f) <= Len(evs) - KeepRecent
      BY <2>2, <2>3, <1>1 DEF ListInv, StubsAreOld, IsStub
    <2> QED BY <2>2, <2>4, <1>1, <1>2, ConversationAssumption
  <1>5. CallsUpTo(new, n) BY <1>1, <1>3 DEF ListInv, CallsUpTo
  <1>6. AskedOnce(new)
    <2> SUFFICES ASSUME NEW i \in DOMAIN new, NEW j \in DOMAIN new, i # j
                 PROVE  Asked(new[i]) \cap Asked(new[j]) = {}
      BY DEF AskedOnce
    <2>1. CASE ~(i > f) \/ ~(j > f) BY <2>1, <1>3
    <2>2. CASE i > f /\ j > f
      <3>1. cut + (i - f) # cut + (j - f) BY <1>2
      <3> QED BY <2>2, <3>1, <1>1, <1>3 DEF ListInv, AskedOnce
    <2> QED BY <2>1, <2>2
  <1> QED
    BY <1>4, <1>5, <1>2, <1>6 DEF ListInv, StubsAreOld, StubsHaveStandIn, new, back

\* Shedding replaces results by stubs, in front of the last KeepRecent events and where
\* they are superseded, and nothing else.
LEMMA ShedShape ==
    ASSUME NEW evs, IsList(evs), NEW alike
    PROVE  LET new == Shed(evs, alike) IN
           /\ IsList(new) /\ DOMAIN new = DOMAIN evs /\ Len(new) = Len(evs)
           /\ \A i \in DOMAIN evs :
                 /\ Asked(new[i]) = Asked(evs[i]) /\ Answered(new[i]) = Answered(evs[i])
                 /\ Asked(evs[i]) # {} => new[i] = evs[i]
                 /\ \A c : IsStub(new, i, c) =>
                       \/ IsStub(evs, i, c)
                       \/ i <= Len(evs) - KeepRecent /\ Superseded(evs, i, c, alike)
  <1> DEFINE new == Shed(evs, alike)
  <1>1. Len(evs) \in Nat /\ DOMAIN evs = 1..Len(evs) BY ListShape
  <1>2. DOMAIN new = DOMAIN evs BY DEF Shed
  <1>3. IsList(new) /\ Len(new) = Len(evs)
    <2> DEFINE S == {new[i] : i \in 1..Len(evs)}
    <2>1. new \in [1..Len(evs) -> S] BY <1>1 DEF Shed
    <2> HIDE DEF S, new
    <2>2. new \in Seq(S) BY <1>1, <2>1, SeqDef
    <2>3. Len(new) \in Nat /\ 1..Len(new) = 1..Len(evs) BY <1>1, <1>2, <2>2, LenProperties
    <2>4. Len(new) = Len(evs) BY <1>1, <2>3
    <2> QED BY <2>2, <2>4 DEF IsList
  <1>4. ASSUME NEW i \in DOMAIN evs, evs[i].kind # "results" \/ i > Len(evs) - KeepRecent
        PROVE  new[i] = evs[i]
    BY <1>4 DEF Shed
  <1>5. ASSUME NEW i \in DOMAIN evs, evs[i].kind = "results", ~(i > Len(evs) - KeepRecent)
        PROVE  /\ Asked(new[i]) = {} /\ Asked(evs[i]) = {}
               /\ Answered(new[i]) = DOMAIN evs[i].of /\ Answered(evs[i]) = DOMAIN evs[i].of
               /\ \A c \in DOMAIN evs[i].of :
                     new[i].of[c] = IF evs[i].of[c] = Full /\ Superseded(evs, i, c, alike)
                                    THEN Stub ELSE evs[i].of[c]
    <2> DEFINE of == [c \in DOMAIN evs[i].of |->
                         IF evs[i].of[c] = Full /\ Superseded(evs, i, c, alike)
                         THEN Stub ELSE evs[i].of[c]]
    <2>1. new[i] = ResultsEvent(of) BY <1>5 DEF Shed
    <2>2. DOMAIN of = DOMAIN evs[i].of OBVIOUS
    <2> HIDE DEF of, new
    <2>3. new[i].of = of BY <2>1 DEF ResultsEvent
    <2>4. Asked(new[i]) = {} /\ Answered(new[i]) = DOMAIN of BY <2>1, Sides
    <2>5. Asked(evs[i]) = {} /\ Answered(evs[i]) = DOMAIN evs[i].of
      BY <1>5 DEF Asked, Answered
    <2> QED BY <2>2, <2>3, <2>4, <2>5 DEF of
  <1> HIDE DEF new
  <1>6. ASSUME NEW i \in DOMAIN evs
        PROVE  /\ Asked(new[i]) = Asked(evs[i]) /\ Answered(new[i]) = Answered(evs[i])
               /\ Asked(evs[i]) # {} => new[i] = evs[i]
               /\ \A c : IsStub(new, i, c) =>
                     \/ IsStub(evs, i, c)
                     \/ i <= Len(evs) - KeepRecent /\ Superseded(evs, i, c, alike)
    <2>1. CASE evs[i].kind # "results" \/ i > Len(evs) - KeepRecent
      BY <2>1, <1>4 DEF IsStub
    <2>2. CASE evs[i].kind = "results" /\ ~(i > Len(evs) - KeepRecent)
      <3>1. i <= Len(evs) - KeepRecent BY <2>2, <1>1, ConversationAssumption
      <3> QED BY <2>2, <3>1, <1>5 DEF IsStub
    <2> QED BY <2>1, <2>2
  <1> QED BY <1>2, <1>3, <1>6 DEF new

\* Of what supersedes a call that is in the list, or stands in for it, one is no stub.
LEMMA SupersededHasStandIn ==
    ASSUME NEW n \in Nat, NEW evs, ListInv(evs, n), NEW alike,
           NEW i \in DOMAIN evs, NEW c \in Answered(evs[i]), c \in AllAsked(evs),
           IsStub(evs, i, c) \/ Superseded(evs, i, c, alike)
    PROVE  \E j, d : StandsIn(evs, j, d, i, c)
  <1>1. Len(evs) \in Nat /\ DOMAIN evs = 1..Len(evs) BY ListShape DEF ListInv
  <1>2. CASE IsStub(evs, i, c) BY <1>2 DEF ListInv, StubsHaveStandIn
  <1>3. CASE Superseded(evs, i, c, alike)
    <2>0. PICK j \in i..(Len(evs) - KeepRecent) :
             \E d \in Answered(evs[j]) : (j > i \/ d < c) /\ SameTarget(evs, c, d, alike)
      BY <1>3 DEF Superseded
    <2>1. PICK d \in Answered(evs[j]) : (j > i \/ d < c) /\ SameTarget(evs, c, d, alike)
      BY <2>0
    <2>2. j \in DOMAIN evs /\ j \in Nat /\ i \in Nat BY <1>1, ConversationAssumption
    <2>3. c \in Nat /\ d \in Nat
      <3>1. c \in 1..n /\ d \in 1..n BY <2>1, <2>2 DEF ListInv, CallsUpTo
      <3> QED BY <3>1
    <2>4. Newer(j, d, i, c) BY <2>1, <2>2 DEF Newer
    <2>5. d \in AllAsked(evs) /\ FileOf(evs, d) = FileOf(evs, c) BY <2>1 DEF SameTarget
    <2>6. CASE ~IsStub(evs, j, d)
      <3>1. StandsIn(evs, j, d, i, c) BY <2>1, <2>2, <2>4, <2>5, <2>6 DEF StandsIn
      <3> QED BY <3>1
    <2>7. CASE IsStub(evs, j, d)
      <3>1. PICK k, e : StandsIn(evs, k, e, j, d)
        BY <2>1, <2>2, <2>5, <2>7 DEF ListInv, StubsHaveStandIn
      <3>2. k \in Nat /\ e \in 1..n BY <3>1, <1>1 DEF StandsIn, ListInv, CallsUpTo
      <3>3. Newer(k, e, i, c) BY <2>2, <2>3, <2>4, <3>1, <3>2 DEF Newer, StandsIn
      <3>4. StandsIn(evs, k, e, i, c) BY <2>5, <3>1, <3>3 DEF StandsIn
      <3> QED BY <3>4
    <2> QED BY <2>6, <2>7
  <1> QED BY <1>2, <1>3

\* After "newer" there is a newest: of the results that stand in for one, the last event
\* has one that nothing stands in for.
NoneStandsIn(evs, j, d) == ~\E k, e : StandsIn(evs, k, e, j, d)

\* Of the results that stand in for a call, the newest has none in its place: by the
\* well-founded order of positions, not by induction.
LEMMA NewestStandIn ==
    ASSUME NEW n \in Nat, NEW evs, ListInv(evs, n), NEW i, NEW c,
           i \in DOMAIN evs, c \in 1..n, \E j, d : StandsIn(evs, j, d, i, c)
    PROVE  \E j, d : StandsIn(evs, j, d, i, c) /\ NoneStandsIn(evs, j, d)
  <1> DEFINE len == Len(evs)
             Behind == {len - j : j \in {j \in 1..len : \E d : StandsIn(evs, j, d, i, c)}}
             last == len - Min(Behind)
             There == {d \in 1..n : StandsIn(evs, last, d, i, c)}
             first == Min(There)
  <1>1. len \in Nat /\ DOMAIN evs = 1..len BY ListShape DEF ListInv
  <1>2. ASSUME NEW j, NEW d, NEW k, NEW e, StandsIn(evs, j, d, k, e)
        PROVE  j \in 1..len /\ d \in 1..n
    BY <1>1, <1>2 DEF StandsIn, ListInv, CallsUpTo
  <1>3. Behind \subseteq Nat /\ Behind # {} BY <1>1, <1>2
  <1>4. Min(Behind) \in Behind /\ \A y \in Behind : Min(Behind) =< y
    <2> HIDE DEF Behind
    <2> QED BY <1>3, MinIsMember
  <1>5. /\ last \in 1..len
        /\ \E d : StandsIn(evs, last, d, i, c)
        /\ \A j, d : StandsIn(evs, j, d, i, c) => j <= last
    <2>1. PICK j0 \in 1..len : /\ \E d : StandsIn(evs, j0, d, i, c)
                               /\ Min(Behind) = len - j0
      <3> DEFINE m == Min(Behind)
      <3>1. m \in Behind BY <1>4
      <3> HIDE DEF m
      <3>2. \E j0 \in 1..len : (\E d : StandsIn(evs, j0, d, i, c)) /\ m = len - j0 BY <3>1
      <3> QED BY <3>2 DEF m
    <2>2. last = j0 BY <1>1, <2>1
    <2>3. ASSUME NEW j, NEW d, StandsIn(evs, j, d, i, c) PROVE j <= last
      <3>1. j \in 1..len BY <1>2, <2>3
      <3>2. len - j \in Behind BY <2>3, <3>1
      <3>3. len - j0 =< len - j BY <3>2, <1>4, <2>1
      <3> QED BY <1>1, <2>2, <3>1, <3>3
    <2> QED BY <2>1, <2>2, <2>3
  <1> HIDE DEF Behind, last
  <1>6. There \in SUBSET Nat /\ There # {} BY <1>2, <1>5
  <1>7. first \in There /\ \A y \in There : first =< y
    <2> HIDE DEF There
    <2> QED BY <1>6, MinIsMember
  <1> HIDE DEF first
  <1>8. StandsIn(evs, last, first, i, c) /\ first \in 1..n BY <1>7
  <1>9. ASSUME NEW k, NEW e, StandsIn(evs, k, e, last, first) PROVE FALSE
    <2>1. k \in 1..len /\ e \in 1..n BY <1>2, <1>9
    <2>2. Newer(k, e, last, first) BY <1>9 DEF StandsIn
    <2>3. i \in Nat /\ c \in Nat BY <1>1
    <2>4. Newer(k, e, i, c) BY <1>5, <1>8, <2>1, <2>2, <2>3 DEF Newer, StandsIn
    <2>5. StandsIn(evs, k, e, i, c) BY <1>8, <1>9, <2>4 DEF StandsIn
    <2>6. k = last /\ e < first BY <1>5, <2>1, <2>2, <2>5 DEF Newer
    <2>7. e \in There BY <2>1, <2>5, <2>6
    <2> QED BY <1>7, <1>8, <2>1, <2>6, <2>7
  <1> QED BY <1>8, <1>9 DEF NoneStandsIn

\* Shedding keeps what holds of a list.
LEMMA ShedListInv ==
    ASSUME NEW n \in Nat, NEW evs, ListInv(evs, n), NEW alike
    PROVE  ListInv(Shed(evs, alike), n)
  <1> DEFINE new == Shed(evs, alike)
  <1>1. /\ IsList(new) /\ DOMAIN new = DOMAIN evs /\ Len(new) = Len(evs)
        /\ \A i \in DOMAIN evs :
              /\ Asked(new[i]) = Asked(evs[i]) /\ Answered(new[i]) = Answered(evs[i])
              /\ Asked(evs[i]) # {} => new[i] = evs[i]
              /\ \A c : IsStub(new, i, c) =>
                    \/ IsStub(evs, i, c)
                    \/ i <= Len(evs) - KeepRecent /\ Superseded(evs, i, c, alike)
    BY ShedShape DEF ListInv
  <1> HIDE DEF new
  <1>2. CallsUpTo(new, n) BY <1>1 DEF ListInv, CallsUpTo
  <1>3. AskedOnce(new) BY <1>1 DEF ListInv, AskedOnce
  <1>4. StubsAreOld(new)
    <2> SUFFICES ASSUME NEW i \in DOMAIN new, NEW c \in Answered(new[i]), IsStub(new, i, c)
                 PROVE  i <= Len(new) - KeepRecent
      BY DEF StubsAreOld
    <2>1. IsStub(evs, i, c) => i <= Len(evs) - KeepRecent
      BY <1>1 DEF ListInv, StubsAreOld
    <2> QED BY <1>1, <2>1
  <1>5. ASSUME NEW c
        PROVE  /\ c \in AllAsked(new) <=> c \in AllAsked(evs)
               /\ c \in AllAsked(evs) => FileOf(new, c) = FileOf(evs, c)
    <2>1. c \in AllAsked(new) <=> c \in AllAsked(evs) BY <1>1, AskedIsIndexed
    <2>2. ASSUME c \in AllAsked(evs) PROVE FileOf(new, c) = FileOf(evs, c)
      <3>1. PICK i \in DOMAIN evs : c \in Asked(evs[i]) BY <2>2, AskedIsIndexed
      <3>2. new[i] = evs[i] /\ i \in DOMAIN new BY <1>1, <3>1
      <3>3. FileOf(evs, c) = evs[i].on[c] BY <3>1, FileOfIsAsked DEF ListInv
      <3>4. FileOf(new, c) = new[i].on[c] BY <3>1, <3>2, <1>3, FileOfIsAsked
      <3> QED BY <3>2, <3>3, <3>4
    <2> QED BY <2>1, <2>2
  <1>6. StubsHaveStandIn(new)
    <2> SUFFICES ASSUME NEW i \in DOMAIN new, NEW c \in Answered(new[i]), IsStub(new, i, c),
                        c \in AllAsked(new)
                 PROVE  \E j, d : StandsIn(new, j, d, i, c)
      BY DEF StubsHaveStandIn
    <2>1. /\ i \in DOMAIN evs /\ c \in Answered(evs[i]) /\ c \in AllAsked(evs)
          /\ IsStub(evs, i, c) \/ Superseded(evs, i, c, alike)
      BY <1>1, <1>5
    <2>2. \E j, d : StandsIn(evs, j, d, i, c) BY <2>1, SupersededHasStandIn
    <2>3. c \in 1..n BY <2>1 DEF ListInv, CallsUpTo
    <2>4. PICK j, d : StandsIn(evs, j, d, i, c) /\ NoneStandsIn(evs, j, d)
      BY <2>1, <2>2, <2>3, NewestStandIn
    <2>5. j \in DOMAIN evs /\ d \in Answered(evs[j]) /\ d \in AllAsked(evs)
      BY <2>4 DEF StandsIn
    <2>6. ~IsStub(new, j, d)
      <3>1. SUFFICES ASSUME IsStub(new, j, d) PROVE FALSE
        OBVIOUS
      <3>2. IsStub(evs, j, d) \/ Superseded(evs, j, d, alike) BY <1>1, <2>5, <3>1
      <3>3. \E k, e : StandsIn(evs, k, e, j, d) BY <2>5, <3>2, SupersededHasStandIn
      <3> QED BY <2>4, <3>3 DEF NoneStandsIn
    <2>7. StandsIn(new, j, d, i, c) BY <1>1, <1>5, <2>1, <2>4, <2>5, <2>6 DEF StandsIn
    <2> QED BY <2>7
  <1> QED BY <1>1, <1>2, <1>3, <1>4, <1>6 DEF ListInv, new

\* What a stub says of a newer result is true.
LEMMA ListInvKeepsNewest ==
    ASSUME NEW n \in Nat, ListInv(events, n)
    PROVE  NewestKept
  <1> SUFFICES ASSUME NEW i \in DOMAIN events,
                      NEW c \in Answered(events[i]) \cap AllAsked(events),
                      events[i].of[c] = Stub
               PROVE  \E j \in i..Len(events) : \E d \in Answered(events[j]) \cap AllAsked(events) :
                         /\ FileOf(events, d) = FileOf(events, c)
                         /\ events[j].of[d] # Stub
    BY DEF NewestKept
  <1>1. Len(events) \in Nat /\ DOMAIN events = 1..Len(events) BY ListShape DEF ListInv
  <1>2. PICK j, d : StandsIn(events, j, d, i, c)
    <2>1. IsStub(events, i, c) BY DEF IsStub
    <2> QED BY <2>1 DEF ListInv, StubsHaveStandIn
  <1>3. j \in i..Len(events) /\ d \in Answered(events[j]) \cap AllAsked(events)
    BY <1>1, <1>2 DEF StandsIn, Newer
  <1> QED BY <1>2, <1>3 DEF StandsIn, IsStub

\* A list that replaces another keeps what holds of it, and asks and answers nothing
\* together that the other did not.
Rewrites(new, evs) ==
    /\ \A n \in Nat : ListInv(evs, n) => ListInv(new, n)
    /\ AskedTogether(new) \subseteq AskedTogether(evs) \cup {{}}
    /\ AnsweredTogether(new) \subseteq AnsweredTogether(evs) \cup {{}}

\* The back of a list behind something without calls or results is a rewrite of it.
LEMMA TailRewrites ==
    ASSUME NEW evs, IsList(evs), NEW cut \in 0..Len(evs), cut >= Len(evs) - KeepRecent,
           NEW front, NEW S, front \in Seq(S), \A ev \in S : Asked(ev) = {} /\ Answered(ev) = {}
    PROVE  Rewrites(front \o SubSeq(evs, cut + 1, Len(evs)), evs)
  <1> DEFINE back == SubSeq(evs, cut + 1, Len(evs))
             new == front \o back
  <1>1. /\ Range(back) = {evs[i] : i \in cut+1..Len(evs)}
        /\ Range(new) = Range(front) \cup Range(back)
        /\ Range(front) \subseteq S
    BY TailLists
  <1>2. Range(back) \subseteq Range(evs) BY <1>1, ListShape
  <1>3. \A n \in Nat : ListInv(evs, n) => ListInv(new, n) BY TailListInv
  <1> HIDE DEF back, new
  <1>4. ASSUME NEW ev \in Range(new)
        PROVE  ev \in Range(evs) \/ (Asked(ev) = {} /\ Answered(ev) = {})
    <2>1. ev \in Range(front) \/ ev \in Range(back) BY <1>1
    <2>2. ev \in Range(front) => ev \in S BY <1>1
    <2> QED BY <1>2, <2>1, <2>2
  <1> QED BY <1>3, <1>4 DEF Rewrites, AskedTogether, AnsweredTogether, new, back

\* In front of what a summary keeps there are prompts and summaries.
LEMMA SummarizedFront ==
    ASSUME NEW evs, IsList(evs), NEW cut \in 0..Len(evs)
    PROVE  \E front \in Seq({Prompt, Summary}) :
              Summarized(evs, cut) = front \o SubSeq(evs, cut + 1, Len(evs))
  <1> DEFINE S == {Prompt, Summary}
             opening == IF evs[1] = Summary THEN <<Summary>> ELSE <<>>
             front == opening \o Prompts(evs, cut) \o <<Summary>>
  <1>1. opening \in Seq(S) /\ <<Summary>> \in Seq(S)
    <2>1. Summary \in S OBVIOUS
    <2> HIDE DEF S
    <2>2. <<Summary>> \in Seq(S) /\ <<>> \in Seq(S) BY <2>1
    <2> QED BY <2>2
  <1>2. Prompts(evs, cut) \in Seq(S)
    <2> DEFINE N == Cardinality({i \in 1..cut : evs[i] = Prompt})
    <2>1. cut \in Nat BY ListShape
    <2>2. IsFiniteSet(1..cut) BY <2>1, FS_Interval
    <2>3. IsFiniteSet({i \in 1..cut : evs[i] = Prompt}) BY <2>2, FS_Subset
    <2>4. N \in Nat BY <2>3, FS_CardinalityType
    <2> HIDE DEF N
    <2>5. [k \in 1..N |-> Prompt] \in [1..N -> S] OBVIOUS
    <2>6. [k \in 1..N |-> Prompt] \in Seq(S) BY <2>4, <2>5, SeqDef
    <2> QED BY <2>6 DEF Prompts, N
  <1>3. front \in Seq(S)
    <2> HIDE DEF opening, S
    <2>1. opening \o Prompts(evs, cut) \in Seq(S) BY <1>1, <1>2, ConcatProperties
    <2> QED BY <1>1, <2>1, ConcatProperties
  <1> QED BY <1>3 DEF Summarized

\* The summary of a list is a rewrite of it, and keeps exactly the results behind the cut.
LEMMA SummarizedRewrites ==
    ASSUME NEW evs, IsList(evs), NEW cut \in 0..Len(evs), cut >= Len(evs) - KeepRecent
    PROVE  /\ Rewrites(Summarized(evs, cut), evs)
           /\ \A ev \in Range(Summarized(evs, cut)) :
                 Answered(ev) # {} => \E i \in cut+1..Len(evs) : ev = evs[i]
           /\ \A i \in cut+1..Len(evs) : evs[i] \in Range(Summarized(evs, cut))
  <1> DEFINE S == {Prompt, Summary}
             back == SubSeq(evs, cut + 1, Len(evs))
  <1>1. PICK front \in Seq(S) : Summarized(evs, cut) = front \o back BY SummarizedFront
  <1>2. \A ev \in S : Asked(ev) = {} /\ Answered(ev) = {} BY Sides
  <1> HIDE DEF S
  <1>3. Rewrites(front \o back, evs) BY <1>2, TailRewrites
  <1>4. /\ Range(back) = {evs[i] : i \in cut+1..Len(evs)}
        /\ Range(front \o back) = Range(front) \cup Range(back)
        /\ Range(front) \subseteq S
    BY <1>2, TailLists
  <1> HIDE DEF back
  <1>5. \A ev \in Range(front \o back) :
           Answered(ev) # {} => \E i \in cut+1..Len(evs) : ev = evs[i]
    BY <1>2, <1>4
  <1>6. \A i \in cut+1..Len(evs) : evs[i] \in Range(front \o back) BY <1>4
  <1> QED BY <1>1, <1>3, <1>5, <1>6

\* So is what /compact leaves.
LEMMA CompactRewrites ==
    ASSUME NEW evs, IsList(evs), KeepRecent < Len(evs)
    PROVE  Rewrites(<<Summary>> \o SubSeq(evs, Len(evs) - KeepRecent + 1, Len(evs)), evs)
  <1>1. Len(evs) \in Nat BY ListShape
  <1>2. /\ Len(evs) - KeepRecent \in 0..Len(evs)
        /\ Len(evs) - KeepRecent >= Len(evs) - KeepRecent
    BY <1>1, ConversationAssumption
  <1>3. <<Summary>> \in Seq({Summary}) OBVIOUS
  <1>4. \A ev \in {Summary} : Asked(ev) = {} /\ Answered(ev) = {} BY Sides
  <1> DEFINE cut == Len(evs) - KeepRecent
  <1> HIDE DEF cut
  <1>5. Rewrites(<<Summary>> \o SubSeq(evs, cut + 1, Len(evs)), evs)
    BY <1>2, <1>3, <1>4, TailRewrites DEF cut
  <1> QED BY <1>5 DEF cut

\* So is the list with superseded results shed.
LEMMA ShedRewrites ==
    ASSUME NEW evs, IsList(evs), NEW alike
    PROVE  Rewrites(Shed(evs, alike), evs)
  <1> DEFINE new == Shed(evs, alike)
  <1>1. /\ IsList(new) /\ DOMAIN new = DOMAIN evs
        /\ \A i \in DOMAIN evs : Asked(new[i]) = Asked(evs[i]) /\ Answered(new[i]) = Answered(evs[i])
    BY ShedShape
  <1>2. \A n \in Nat : ListInv(evs, n) => ListInv(new, n) BY ShedListInv
  <1> HIDE DEF new
  <1>3. \A ev \in Range(new) : \E old \in Range(evs) :
            Asked(ev) = Asked(old) /\ Answered(ev) = Answered(old)
    BY <1>1 DEF Range
  <1> QED BY <1>2, <1>3 DEF Rewrites, AskedTogether, AnsweredTogether, new

\* So is the empty list.
LEMMA ClearRewrites == \A evs : Rewrites(<<>>, evs)
  <1>1. Range(<<>>) = {} /\ DOMAIN <<>> = {} BY DEF Range
  <1>2. IsList(<<>>) BY DEF IsList
  <1> QED
    BY <1>1, <1>2 DEF Rewrites, AskedTogether, AnsweredTogether, ListInv, CallsUpTo, AskedOnce,
                      StubsAreOld, StubsHaveStandIn

-----------------------------------------------------------------------------
(***************************************************************************)
(* The calls of one event are answered together, whole, wherever they      *)
(* stand: in memory, in the log, with the turn that is busy with them, or  *)
(* with the turn that is about to answer what it found dangling.           *)
(***************************************************************************)
Batches ==
    AskedTogether(events) \cup AskedTogether(log) \cup {DOMAIN doing[t] : t \in Turns}

Answers ==
    AnsweredTogether(events) \cup AnsweredTogether(log)
        \cup {DOMAIN got[t] : t \in {u \in Turns : at[u] = "repairing"}}

Whole ==
    /\ \A B \in Batches : \A C \in Batches : B = C \/ B \cap C = {}
    /\ \A A \in Answers : \A B \in Batches : B \subseteq A \/ A \cap B = {}

TurnInv ==
    /\ at \in [Turns -> Places]
    /\ doing = [t \in Turns |-> doing[t]] /\ got = [t \in Turns |-> got[t]]
    /\ \A t \in Turns : DOMAIN doing[t] \subseteq 1..calls /\ DOMAIN got[t] \subseteq 1..calls
    /\ \A t \in Turns : \A c \in DOMAIN got[t] : got[t][c] # Stub

CallsInv ==
    /\ calls \in Nat
    /\ ListInv(events, calls) /\ ListInv(log, calls)
    /\ TurnInv
    /\ Whole

\* No list names a call that has not been made.
LEMMA TogetherUpTo ==
    ASSUME NEW n \in Nat, NEW evs, ListInv(evs, n)
    PROVE  /\ \A B \in AskedTogether(evs) : B \subseteq 1..n
           /\ \A A \in AnsweredTogether(evs) : A \subseteq 1..n
  BY DEF ListInv, CallsUpTo, AskedTogether, AnsweredTogether, Range

\* No batch and no answer in the program names a call that has not been made.
LEMMA NumberedUpToCalls ==
    ASSUME CallsInv
    PROVE  (\A B \in Batches : B \subseteq 1..calls) /\ (\A A \in Answers : A \subseteq 1..calls)
  BY TogetherUpTo DEF CallsInv, TurnInv, Batches, Answers

\* Of the calls that were made together, all dangle or none.
LEMMA DanglingIsWhole ==
    ASSUME CallsInv
    PROVE  /\ \A B \in Batches : B \subseteq Dangling(events) \/ Dangling(events) \cap B = {}
           /\ Dangling(events) \subseteq 1..calls
  <1>1. ASSUME NEW c
        PROVE  /\ c \in AllAsked(events) <=> \E B \in AskedTogether(events) : c \in B
               /\ c \in AllAnswered(events) <=> \E A \in AnsweredTogether(events) : c \in A
    BY AskedIsIndexed DEF AskedTogether, AnsweredTogether, Range
  <1>2. AskedTogether(events) \subseteq Batches /\ AnsweredTogether(events) \subseteq Answers
    BY DEF Batches, Answers
  <1>3. ASSUME NEW B \in Batches, NEW c \in B, c \in Dangling(events), NEW d \in B
        PROVE  d \in Dangling(events)
    <2>1. c \in AllAsked(events) /\ c \notin AllAnswered(events) BY <1>3 DEF Dangling
    <2>2. PICK C \in AskedTogether(events) : c \in C BY <2>1, <1>1
    <2>3. d \in C BY <1>2, <2>2 DEF CallsInv, Whole
    <2>4. d \notin AllAnswered(events)
      <3>1. SUFFICES ASSUME NEW A \in AnsweredTogether(events), d \in A PROVE FALSE
        BY <1>1
      <3>2. c \in A BY <1>2, <3>1 DEF CallsInv, Whole
      <3> QED BY <1>1, <2>1, <3>2
    <2> QED BY <1>1, <2>2, <2>3, <2>4 DEF Dangling
  <1>4. Dangling(events) \subseteq 1..calls
    BY <1>1, <1>2, NumberedUpToCalls DEF Dangling
  <1> QED BY <1>3, <1>4

\* Wholeness is kept by a step whose new batch, if any, is of new calls, and whose new
\* answer, if any, is to a batch or to all that dangles.
LEMMA WholeKept ==
    ASSUME CallsInv, NEW new, new \cap (1..calls) = {},
           Batches' \subseteq Batches \cup {{}, new},
           Answers' \subseteq Answers \cup Batches \cup {{}, Dangling(events)}
    PROVE  Whole'
  <1>1. /\ \A B \in Batches : B \subseteq 1..calls
        /\ \A A \in Answers : A \subseteq 1..calls
    BY NumberedUpToCalls
  <1>2. ASSUME NEW B \in Batches', NEW C \in Batches' PROVE B = C \/ B \cap C = {}
    <2>1. B \in Batches \/ B = {} \/ B = new OBVIOUS
    <2>2. C \in Batches \/ C = {} \/ C = new OBVIOUS
    <2>3. B \in Batches /\ C \in Batches => B = C \/ B \cap C = {} BY DEF CallsInv, Whole
    <2> QED BY <2>1, <2>2, <2>3, <1>1
  <1>3. ASSUME NEW A \in Answers', NEW B \in Batches' PROVE B \subseteq A \/ A \cap B = {}
    <2>1. B \in Batches \/ B = {} \/ B = new OBVIOUS
    <2>2. A \in Answers \/ A \in Batches \/ A = {} \/ A = Dangling(events) OBVIOUS
    <2>3. B = {} => B \subseteq A /\ A \cap B = {} OBVIOUS
    <2>4. A \subseteq 1..calls BY <2>2, <1>1, DanglingIsWhole
    <2>5. B = new => A \cap B = {} BY <2>4
    <2>6. CASE B \in Batches
      <3>1. A \in Answers => B \subseteq A \/ A \cap B = {} BY <2>6 DEF CallsInv, Whole
      <3>2. A \in Batches => B = A \/ B \cap A = {} BY <2>6 DEF CallsInv, Whole
      <3>3. A = Dangling(events) => B \subseteq A \/ A \cap B = {} BY <2>6, DanglingIsWhole
      <3> QED BY <2>2, <3>1, <3>2, <3>3
    <2> QED BY <2>1, <2>3, <2>5, <2>6
  <1> QED BY <1>2, <1>3 DEF Whole

\* A step of turn t, which goes to place, is then busy with x and has y in hand.
Moves(t, place, x, y) ==
    /\ at' = [at EXCEPT ![t] = place]
    /\ doing' = [doing EXCEPT ![t] = x] /\ got' = [got EXCEPT ![t] = y]

\* The turns' side of such a step.
LEMMA TurnSide ==
    ASSUME CallsInv, NEW t \in Turns, NEW place \in Places, NEW x, NEW y,
           calls' \in Nat, calls <= calls',
           Moves(t, place, x, y), DOMAIN x \subseteq 1..calls', DOMAIN y \subseteq 1..calls',
           \A c \in DOMAIN y : y[c] # Stub
    PROVE  /\ TurnInv'
           /\ \A u \in Turns : DOMAIN doing'[u] \in {DOMAIN doing[u], DOMAIN x}
           /\ \A u \in Turns : at'[u] = "repairing" =>
                 \/ at[u] = "repairing" /\ DOMAIN got'[u] = DOMAIN got[u]
                 \/ u = t /\ place = "repairing" /\ DOMAIN got'[u] = DOMAIN y
  <1>1. /\ at \in [Turns -> Places]
        /\ DOMAIN doing = Turns /\ DOMAIN got = Turns
        /\ \A u \in Turns : DOMAIN doing[u] \subseteq 1..calls /\ DOMAIN got[u] \subseteq 1..calls
        /\ \A u \in Turns : \A c \in DOMAIN got[u] : got[u][c] # Stub
        /\ 1..calls \subseteq 1..calls'
    BY DEF CallsInv, TurnInv
  <1>2. /\ doing' = [u \in Turns |-> IF u = t THEN x ELSE doing[u]]
        /\ got' = [u \in Turns |-> IF u = t THEN y ELSE got[u]]
        /\ at' = [u \in Turns |-> IF u = t THEN place ELSE at[u]]
    BY <1>1 DEF Moves
  <1>3. TurnInv'
    <2>1. at' \in [Turns -> Places] BY <1>2, <1>1
    <2>2. /\ doing' = [u \in Turns |-> doing'[u]]
          /\ got' = [u \in Turns |-> got'[u]]
      BY <1>2
    <2>3. \A u \in Turns : DOMAIN doing'[u] \subseteq 1..calls' /\ DOMAIN got'[u] \subseteq 1..calls'
      BY <1>1, <1>2
    <2>4. \A u \in Turns : \A c \in DOMAIN got'[u] : got'[u][c] # Stub
      BY <1>1, <1>2
    <2> QED BY <2>1, <2>2, <2>3, <2>4 DEF TurnInv
  <1>4. ASSUME NEW u \in Turns PROVE DOMAIN doing'[u] \in {DOMAIN doing[u], DOMAIN x}
    <2>1. CASE u = t BY <2>1, <1>2
    <2>2. CASE u # t BY <2>2, <1>2
    <2> QED BY <2>1, <2>2
  <1>5. ASSUME NEW u \in Turns, at'[u] = "repairing"
        PROVE  \/ at[u] = "repairing" /\ DOMAIN got'[u] = DOMAIN got[u]
               \/ u = t /\ place = "repairing" /\ DOMAIN got'[u] = DOMAIN y
    <2>1. CASE u = t BY <2>1, <1>2, <1>5
    <2>2. CASE u # t BY <2>2, <1>2, <1>5
    <2> QED BY <2>1, <2>2
  <1> QED BY <1>3, <1>4, <1>5

\* The lists' side of a step: both are as they should be, and what is asked together or
\* answered together in them is known already, or the calls of new.
ListsKept(new) ==
    /\ ListInv(events', calls') /\ ListInv(log', calls')
    /\ AskedTogether(events') \cup AskedTogether(log') \subseteq Batches \cup {{}, new}
    /\ AnsweredTogether(events') \cup AnsweredTogether(log') \subseteq Answers \cup Batches \cup {{}}

\* A step that leaves the lists alone.
LEMMA UnchangedLists ==
    ASSUME CallsInv, UNCHANGED <<events, log, calls>>
    PROVE  ListsKept({})
  BY DEF CallsInv, ListsKept, Batches, Answers

\* A step that replaces the list by a rewrite of it, or by the file, which may fail to
\* be written.
LEMMA RewrittenLists ==
    ASSUME CallsInv, calls' = calls, NEW evs, Rewrites(evs, events) \/ evs = log,
           events' = evs, log' \in {log, evs}
    PROVE  ListsKept({})
  <1>1. /\ ListInv(evs, calls)
        /\ AskedTogether(evs) \subseteq Batches \cup {{}}
        /\ AnsweredTogether(evs) \subseteq Answers \cup {{}}
    BY DEF CallsInv, Rewrites, Batches, Answers
  <1>2. /\ ListInv(log, calls)
        /\ AskedTogether(log) \subseteq Batches /\ AnsweredTogether(log) \subseteq Answers
    BY DEF CallsInv, Batches, Answers
  <1>3. CASE log' = log BY <1>1, <1>2, <1>3 DEF ListsKept
  <1>4. CASE log' = evs BY <1>1, <1>4 DEF ListsKept
  <1> QED BY <1>3, <1>4

\* What holds of a list goes on to hold as calls are made.
LEMMA ListInvGrows ==
    ASSUME NEW n \in Nat, NEW m \in Nat, n <= m, NEW evs, ListInv(evs, n)
    PROVE  ListInv(evs, m)
  <1>1. 1..n \subseteq 1..m OBVIOUS
  <1>2. CallsUpTo(evs, m)
    <2> SUFFICES ASSUME NEW i \in DOMAIN evs
                 PROVE  Asked(evs[i]) \subseteq 1..m /\ Answered(evs[i]) \subseteq 1..m
      BY DEF CallsUpTo
    <2>1. Asked(evs[i]) \subseteq 1..n /\ Answered(evs[i]) \subseteq 1..n
      BY DEF ListInv, CallsUpTo
    <2> QED BY <1>1, <2>1
  <1> QED BY <1>2 DEF ListInv

\* A step that appends an event, with new calls or with answers to a batch that is known.
LEMMA AppendedLists ==
    ASSUME CallsInv, calls' \in Nat, calls <= calls', NEW ev, NEW new,
           new \subseteq calls+1..calls', Asked(ev) \in {{}, new},
           Answered(ev) \in Answers \cup Batches \cup {{}},
           \A c \in Answered(ev) : ev.of[c] # Stub,
           events' = Append(events, ev), log' \in {log, Append(log, ev)}
    PROVE  ListsKept(new)
  <1>1. Asked(ev) \subseteq calls+1..calls' /\ Answered(ev) \subseteq 1..calls
    BY NumberedUpToCalls
  <1>2. ASSUME NEW evs, ListInv(evs, calls), AskedTogether(evs) \subseteq Batches,
               AnsweredTogether(evs) \subseteq Answers, NEW next, next \in {evs, Append(evs, ev)}
        PROVE  /\ ListInv(next, calls')
               /\ AskedTogether(next) \subseteq Batches \cup {{}, new}
               /\ AnsweredTogether(next) \subseteq Answers \cup Batches \cup {{}}
    <2>1. calls \in Nat BY DEF CallsInv
    <2>2. CASE next = evs BY <1>2, <2>1, <2>2, ListInvGrows
    <2>3. CASE next = Append(evs, ev)
      <3>1. ListInv(Append(evs, ev), calls') BY <1>1, <1>2, <2>1, AppendListInv
      <3>2. /\ AskedTogether(Append(evs, ev)) = AskedTogether(evs) \cup {Asked(ev)}
            /\ AnsweredTogether(Append(evs, ev)) = AnsweredTogether(evs) \cup {Answered(ev)}
        BY <1>2, AppendLists DEF ListInv
      <3> QED BY <1>2, <2>3, <3>1, <3>2
    <2> QED BY <1>2, <2>2, <2>3
  <1>3. /\ ListInv(events, calls) /\ ListInv(log, calls)
        /\ AskedTogether(events) \subseteq Batches /\ AnsweredTogether(events) \subseteq Answers
        /\ AskedTogether(log) \subseteq Batches /\ AnsweredTogether(log) \subseteq Answers
    BY DEF CallsInv, Batches, Answers
  <1>4. /\ ListInv(events', calls')
        /\ AskedTogether(events') \subseteq Batches \cup {{}, new}
        /\ AnsweredTogether(events') \subseteq Answers \cup Batches \cup {{}}
    BY <1>2, <1>3
  <1>5. /\ ListInv(log', calls')
        /\ AskedTogether(log') \subseteq Batches \cup {{}, new}
        /\ AnsweredTogether(log') \subseteq Answers \cup Batches \cup {{}}
    BY <1>2, <1>3
  <1> QED BY <1>4, <1>5 DEF ListsKept

\* A step of one turn whose lists are kept keeps the whole invariant.
LEMMA MovesKeepCalls ==
    ASSUME CallsInv, NEW t \in Turns, NEW place \in Places, NEW x, NEW y, NEW new,
           Moves(t, place, x, y), ListsKept(new),
           calls' \in Nat, calls <= calls', new \subseteq calls+1..calls',
           DOMAIN x \in Batches \cup {{}, new}, DOMAIN y \subseteq 1..calls,
           \A c \in DOMAIN y : y[c] # Stub,
           place = "repairing" => DOMAIN y = Dangling(events)
    PROVE  CallsInv'
  <1>1. 1..calls \subseteq 1..calls' /\ new \subseteq 1..calls' /\ new \cap (1..calls) = {}
    BY DEF CallsInv
  <1>2. DOMAIN x \subseteq 1..calls' BY <1>1, NumberedUpToCalls
  <1>3. DOMAIN y \subseteq 1..calls' BY <1>1
  <1>4. /\ TurnInv'
        /\ \A u \in Turns : DOMAIN doing'[u] \in {DOMAIN doing[u], DOMAIN x}
        /\ \A u \in Turns : at'[u] = "repairing" =>
              \/ at[u] = "repairing" /\ DOMAIN got'[u] = DOMAIN got[u]
              \/ u = t /\ place = "repairing" /\ DOMAIN got'[u] = DOMAIN y
    BY <1>2, <1>3, TurnSide
  <1>5. Batches' \subseteq Batches \cup {{}, new}
    <2>1. \A u \in Turns : DOMAIN doing[u] \in Batches BY DEF Batches
    <2>2. \A u \in Turns : DOMAIN doing'[u] \in Batches \cup {{}, new} BY <2>1, <1>4
    <2>3. Batches' = AskedTogether(events') \cup AskedTogether(log')
                        \cup {DOMAIN doing'[u] : u \in Turns}
      BY DEF Batches, AskedTogether
    <2> QED BY <2>2, <2>3 DEF ListsKept
  <1>6. Answers' \subseteq Answers \cup Batches \cup {{}, Dangling(events)}
    <2>1. \A u \in Turns : at[u] = "repairing" => DOMAIN got[u] \in Answers BY DEF Answers
    <2>2. \A u \in Turns : at'[u] = "repairing" => DOMAIN got'[u] \in Answers \cup {Dangling(events)}
      BY <2>1, <1>4
    <2>3. Answers' = AnsweredTogether(events') \cup AnsweredTogether(log')
                        \cup {DOMAIN got'[u] : u \in {v \in Turns : at'[v] = "repairing"}}
      BY DEF Answers, AnsweredTogether
    <2> QED BY <2>2, <2>3 DEF ListsKept
  <1>7. Whole' BY <1>1, <1>5, <1>6, WholeKept
  <1>8. ListInv(events, calls)' /\ ListInv(log, calls)'
    BY DEF ListsKept, ListInv, CallsUpTo, AskedOnce, StubsAreOld, StubsHaveStandIn, IsList
  <1> QED BY <1>4, <1>7, <1>8 DEF CallsInv

\* Most steps of a turn leave what it is busy with and has in hand, or drop it.
LEMMA PlainMove ==
    ASSUME CallsInv, NEW t \in Turns, NEW place \in Places \ {"repairing"},
           NEW x, x \in {doing[t], <<>>}, NEW y, y \in {got[t], <<>>},
           Moves(t, place, x, y), ListsKept({}), calls' = calls
    PROVE  CallsInv'
  <1>1. DOMAIN x \in Batches \cup {{}, {}}
    <2>1. DOMAIN doing[t] \in Batches BY DEF Batches
    <2>2. DOMAIN <<>> = {} OBVIOUS
    <2> QED BY <2>1, <2>2
  <1>2. DOMAIN y \subseteq 1..calls /\ \A c \in DOMAIN y : y[c] # Stub
    BY DEF CallsInv, TurnInv
  <1>3. calls' \in Nat /\ calls <= calls' /\ {} \subseteq calls+1..calls' BY DEF CallsInv
  <1> QED BY <1>1, <1>2, <1>3, MovesKeepCalls

\* The end of a turn is such a step.
LEMMA OverMoves ==
    ASSUME CallsInv, NEW t \in Turns, Over(t)
    PROVE  Moves(t, "over", <<>>, <<>>)
  BY DEF CallsInv, TurnInv, Over, Goto, Forget, Moves

\* So is going to another place, with or without letting go of what is in hand.
LEMMA GotoMoves ==
    ASSUME CallsInv, NEW t \in Turns, NEW place, Goto(t, place)
    PROVE  /\ UNCHANGED <<doing, got>> => Moves(t, place, doing[t], got[t])
           /\ UNCHANGED got /\ doing' = [doing EXCEPT ![t] = <<>>]
                => Moves(t, place, <<>>, got[t])
           /\ UNCHANGED doing /\ got' = [got EXCEPT ![t] = <<>>]
                => Moves(t, place, doing[t], <<>>)
           /\ doing' = [doing EXCEPT ![t] = <<>>] /\ got' = [got EXCEPT ![t] = <<>>]
                => Moves(t, place, <<>>, <<>>)
  <1>1. doing = [doing EXCEPT ![t] = doing[t]] /\ got = [got EXCEPT ![t] = got[t]]
    BY DEF CallsInv, TurnInv
  <1> QED BY <1>1 DEF Goto, Moves

\* The steps that end a turn or only take it to another place.
LEMMA GoingCalls ==
    ASSUME CallsInv, NEW t \in Turns, UNCHANGED <<events, log, calls>>,
           \/ Over(t)
           \/ \E place \in Places \ {"repairing"} :
                 Goto(t, place) /\ UNCHANGED got /\ doing' \in {doing, [doing EXCEPT ![t] = <<>>]}
    PROVE  CallsInv'
  <1>1. ListsKept({}) BY UnchangedLists
  <1>2. CASE Over(t)
    <2>1. Moves(t, "over", <<>>, <<>>) BY <1>2, OverMoves
    <2> QED BY <1>1, <2>1, PlainMove DEF Places
  <1>3. ASSUME NEW place \in Places \ {"repairing"}, Goto(t, place), UNCHANGED got,
               doing' \in {doing, [doing EXCEPT ![t] = <<>>]}
        PROVE  CallsInv'
    <2>1. Moves(t, place, doing[t], got[t]) \/ Moves(t, place, <<>>, got[t])
      BY <1>3, GotoMoves
    <2> QED BY <1>1, <2>1, PlainMove
  <1> QED BY <1>2, <1>3

\* The steps that rewrite the list and go on.
LEMMA RewritingCalls ==
    ASSUME CallsInv, NEW t \in Turns, Goto(t, "repair"), UNCHANGED <<doing, got, calls>>,
           NEW evs, Rewrites(evs, events), events' = evs, log' \in {log, evs}
    PROVE  CallsInv'
  <1>1. ListsKept({}) BY RewrittenLists
  <1>2. Moves(t, "repair", doing[t], got[t]) BY GotoMoves
  <1> QED BY <1>1, <1>2, PlainMove DEF Places

\* The cut of a summary is in front of the last KeepRecent events or behind them, and
\* clean.
LEMMA CutIsClean ==
    ASSUME IsList(events), KeepRecent < Len(events)
    PROVE  LET n == CleanBoundary(events, Len(events) - KeepRecent) IN
           /\ n \in 0..Len(events) /\ n >= Len(events) - KeepRecent
           /\ n = Len(events) \/ (~CutsCall(events, n) /\ ~CutsResponse(events, n))
  <1> DEFINE cut == Len(events) - KeepRecent
             Clean == {n \in cut..Len(events) :
                          n = Len(events) \/ (~CutsCall(events, n) /\ ~CutsResponse(events, n))}
  <1>1. Len(events) \in Nat /\ cut \in Nat BY ListShape, ConversationAssumption
  <1>2. Len(events) \in Clean BY <1>1, ConversationAssumption
  <1>3. Clean \in SUBSET Nat BY <1>1
  <1>4. Min(Clean) \in Clean
    <2> HIDE DEF Clean
    <2> QED BY <1>2, <1>3, MinIsMember
  <1>5. CleanBoundary(events, cut) = Min(Clean) BY DEF CleanBoundary
  <1> DEFINE m == Min(Clean)
  <1>6. m \in Clean BY <1>4
  <1> HIDE DEF m
  <1>7. /\ m \in cut..Len(events)
        /\ m = Len(events) \/ (~CutsCall(events, m) /\ ~CutsResponse(events, m))
    BY <1>6
  <1>8. m \in 0..Len(events) /\ m >= cut BY <1>1, <1>7
  <1> QED BY <1>5, <1>7, <1>8 DEF m

-----------------------------------------------------------------------------
(***************************************************************************)
(* The actions, one by one.                                                *)
(***************************************************************************)
\* The steps that leave the lists as they are and make no call.
LEMMA QuietStepsCalls ==
    ASSUME CallsInv, NEW t \in Turns,
           AutoCompactNone(t) \/ Submit(t) \/ Ask(t) \/ TurnEnds(t)
    PROVE  CallsInv'
  <1>1. UNCHANGED <<events, log, calls>>
    BY DEF AutoCompactNone, Submit, Ask, TurnEnds, Retry, RetryBegins, StuckRecovers,
           StuckGivesUp, Fails, Canceled, TurnDone, convVars
  <1>2. CASE AutoCompactNone(t)
    <2>1. Goto(t, "repair") /\ UNCHANGED <<doing, got>>
      BY <1>2 DEF AutoCompactNone, turnVars
    <2> QED BY <1>1, <2>1, GoingCalls DEF Places
  <1>3. CASE Submit(t) \/ RetryBegins(t)
    <2>1. Goto(t, "hook") /\ UNCHANGED <<doing, got>>
      BY <1>3 DEF Submit, RetryBegins, turnVars
    <2> QED BY <1>1, <2>1, GoingCalls DEF Places
  <1>4. CASE Ask(t)
    <2>1. Goto(t, "asking") /\ UNCHANGED <<doing, got>> BY <1>4 DEF Ask, turnVars
    <2> QED BY <1>1, <2>1, GoingCalls DEF Places
  <1>5. CASE Retry(t)
    <2>1. Goto(t, "waiting") /\ UNCHANGED <<doing, got>> BY <1>5 DEF Retry
    <2> QED BY <1>1, <2>1, GoingCalls DEF Places
  <1>6. CASE StuckRecovers(t)
    <2>1. Goto(t, "hook") /\ UNCHANGED got /\ doing' = [doing EXCEPT ![t] = <<>>]
      BY <1>6 DEF StuckRecovers
    <2> QED BY <1>1, <2>1, GoingCalls DEF Places
  <1>7. CASE StuckGivesUp(t) \/ Fails(t) \/ Canceled(t) \/ TurnDone(t)
    <2>1. Over(t) BY <1>7 DEF StuckGivesUp, Fails, Canceled, TurnDone
    <2> QED BY <1>1, <2>1, GoingCalls
  <1> QED BY <1>2, <1>3, <1>4, <1>5, <1>6, <1>7 DEF TurnEnds

\* Compaction before a turn.
LEMMA AutoCompactCalls ==
    ASSUME CallsInv, NEW t \in Turns, AutoCompactShed(t) \/ AutoCompactSummarize(t)
    PROVE  CallsInv'
  <1>1. ListInv(events, calls) /\ calls \in Nat BY DEF CallsInv
  <1>2. CASE AutoCompactShed(t)
    <2>1. PICK alike \in BOOLEAN : Replace(Shed(events, alike), 0) BY <1>2 DEF AutoCompactShed
    <2> DEFINE evs == Shed(events, alike)
    <2>2. events' = evs /\ log' \in {log, evs} BY <2>1 DEF Replace
    <2>3. Rewrites(evs, events) BY <1>1, ShedRewrites DEF ListInv
    <2>4. Goto(t, "repair") /\ UNCHANGED <<doing, got, calls>>
      BY <1>2 DEF AutoCompactShed, turnVars
    <2> HIDE DEF evs
    <2> QED BY <2>2, <2>3, <2>4, RewritingCalls
  <1>3. CASE AutoCompactSummarize(t)
    <2> DEFINE n == CleanBoundary(events, Len(events) - KeepRecent)
               evs == Summarized(events, n)
    <2>1. KeepRecent < Len(events) BY <1>3 DEF AutoCompactSummarize
    <2>2. events' = evs /\ log' \in {log, evs} BY <1>3 DEF AutoCompactSummarize
    <2>3. n \in 0..Len(events) /\ n >= Len(events) - KeepRecent
      BY <1>1, <2>1, CutIsClean DEF ListInv
    <2> HIDE DEF n
    <2>4. Rewrites(evs, events) BY <1>1, <2>3, SummarizedRewrites DEF ListInv
    <2>5. Goto(t, "repair") /\ UNCHANGED <<doing, got, calls>>
      BY <1>3 DEF AutoCompactSummarize, turnVars
    <2> HIDE DEF evs
    <2> QED BY <2>2, <2>4, <2>5, RewritingCalls
  <1> QED BY <1>2, <1>3

\* What is appended is answers to calls that are known, or no calls and no answers; the
\* turn goes on with what it has, or without, or is over.
LEMMA AppendingCalls ==
    ASSUME CallsInv, NEW t \in Turns, calls' = calls, NEW ev, NEW Onward,
           AppendEvent(t, ev, Onward), Asked(ev) = {},
           Answered(ev) \in Answers \cup Batches \cup {{}},
           \A c \in Answered(ev) : ev.of[c] # Stub,
           NEW place \in Places \ {"repairing"},
           NEW x \in {doing[t], <<>>}, NEW y \in {got[t], <<>>},
           Onward => Moves(t, place, x, y)
    PROVE  CallsInv'
  <1>1. events' = Append(events, ev) /\ log' \in {log, Append(log, ev)}
    BY DEF AppendEvent
  <1>2. calls' \in Nat /\ calls <= calls' /\ {} \subseteq calls+1..calls' BY DEF CallsInv
  <1>3. ListsKept({}) BY <1>1, <1>2, AppendedLists
  <1>4. CASE Onward
    <2>1. Moves(t, place, x, y) BY <1>4
    <2> QED BY <1>3, <2>1, PlainMove
  <1>5. CASE Over(t)
    <2>1. Moves(t, "over", <<>>, <<>>) BY <1>5, OverMoves
    <2> QED BY <1>3, <2>1, PlainMove DEF Places
  <1>6. Onward \/ Over(t) BY DEF AppendEvent
  <1> QED BY <1>4, <1>5, <1>6

\* A prompt or a text of the model asks for nothing and answers nothing.
LEMMA TextOrPromptCalls ==
    ASSUME CallsInv, NEW t \in Turns, AppendPrompt(t) \/ ModelTalks(t)
    PROVE  CallsInv'
  <1>1. \A ev \in {Prompt, Text} : Asked(ev) = {} /\ Answered(ev) = {}
    BY DEF Prompt, Text, Asked, Answered
  <1>2. CASE AppendPrompt(t)
    <2> DEFINE Onward == Goto(t, "ready") /\ UNCHANGED turnVars
    <2>1. AppendEvent(t, Prompt, Onward) /\ calls' = calls BY <1>2 DEF AppendPrompt
    <2>2. Onward => Moves(t, "ready", doing[t], got[t]) BY GotoMoves DEF turnVars
    <2> HIDE DEF Onward
    <2> QED BY <1>1, <2>1, <2>2, AppendingCalls DEF Places
  <1>3. CASE ModelTalks(t)
    <2> DEFINE Onward == Goto(t, "done") /\ UNCHANGED turnVars
    <2>1. AppendEvent(t, Text, Onward) /\ calls' = calls BY <1>3 DEF ModelTalks
    <2>2. Onward => Moves(t, "done", doing[t], got[t]) BY GotoMoves DEF turnVars
    <2> HIDE DEF Onward
    <2> QED BY <1>1, <2>1, <2>2, AppendingCalls DEF Places
  <1> QED BY <1>2, <1>3

\* A repair answers what it found dangling, a turn the calls that it is busy with.
LEMMA AnswersCalls ==
    ASSUME CallsInv, NEW t \in Turns, RepairAppends(t) \/ AppendResults(t)
    PROVE  CallsInv'
  <1> DEFINE ev == ResultsEvent(got[t])
  <1>1. Asked(ev) = {} /\ Answered(ev) = DOMAIN got[t] /\ ev.of = got[t]
    BY DEF ResultsEvent, Asked, Answered
  <1>2. \A c \in Answered(ev) : ev.of[c] # Stub BY <1>1 DEF CallsInv, TurnInv
  <1>3. calls' = calls BY DEF RepairAppends, AppendResults
  <1> HIDE DEF ev
  <1>4. CASE RepairAppends(t)
    <2> DEFINE Onward == /\ Goto(t, "prompt")
                         /\ got' = [got EXCEPT ![t] = <<>>]
                         /\ UNCHANGED <<doing, tries, stuck, yielded, touched>>
    <2>1. AppendEvent(t, ev, Onward) BY <1>4 DEF RepairAppends, ev
    <2>2. Onward => Moves(t, "prompt", doing[t], <<>>) BY GotoMoves
    <2>3. Answered(ev) \in Answers BY <1>1, <1>4 DEF RepairAppends, Answers
    <2> HIDE DEF Onward
    <2> QED BY <1>1, <1>2, <1>3, <2>1, <2>2, <2>3, AppendingCalls DEF Places
  <1>5. CASE AppendResults(t)
    <2> DEFINE Onward == /\ Goto(t, "ready")
                         /\ doing' = [doing EXCEPT ![t] = <<>>]
                         /\ got' = [got EXCEPT ![t] = <<>>]
                         /\ UNCHANGED <<tries, stuck, yielded, touched>>
    <2>1. AppendEvent(t, ev, Onward) BY <1>5 DEF AppendResults, ev
    <2>2. Onward => Moves(t, "ready", <<>>, <<>>) BY GotoMoves
    <2>3. Answered(ev) \in Batches BY <1>1, <1>5 DEF AppendResults, Batches
    <2> HIDE DEF Onward
    <2> QED BY <1>1, <1>2, <1>3, <2>1, <2>2, <2>3, AppendingCalls DEF Places
  <1> QED BY <1>4, <1>5

\* What dangles is found.
LEMMA RepairReadsCalls ==
    ASSUME CallsInv, NEW t \in Turns, RepairReads(t)
    PROVE  CallsInv'
  <1>1. UNCHANGED <<events, log, calls, doing>> BY DEF RepairReads, convVars
  <1>2. CASE Dangling(events) = {}
    <2>1. Goto(t, "prompt") /\ UNCHANGED got BY <1>2 DEF RepairReads
    <2> QED BY <1>1, <2>1, GoingCalls DEF Places
  <1>3. CASE Dangling(events) # {}
    <2> DEFINE y == [c \in Dangling(events) |-> Error]
    <2>1. Goto(t, "repairing") /\ got' = [got EXCEPT ![t] = y] BY <1>3 DEF RepairReads
    <2>2. doing' = [doing EXCEPT ![t] = doing[t]] BY <1>1 DEF CallsInv, TurnInv
    <2>3. Moves(t, "repairing", doing[t], y) BY <2>1, <2>2 DEF Moves, Goto
    <2>4. DOMAIN y = Dangling(events) /\ \A c \in DOMAIN y : y[c] # Stub
      BY DEF Error, Stub
    <2>5. DOMAIN y \subseteq 1..calls BY <2>4, DanglingIsWhole
    <2>6. ListsKept({}) BY <1>1, UnchangedLists
    <2>7. DOMAIN doing[t] \in Batches BY DEF Batches
    <2>8. calls' \in Nat /\ calls <= calls' /\ {} \subseteq calls+1..calls'
      BY <1>1 DEF CallsInv
    <2> HIDE DEF y
    <2> QED BY <2>3, <2>4, <2>5, <2>6, <2>7, <2>8, MovesKeepCalls DEF Places
  <1> QED BY <1>2, <1>3

\* A result comes back, which is never a stub.
LEMMA ToolReturnsCalls ==
    ASSUME CallsInv, NEW t \in Turns, NEW c \in Calls, ToolReturns(t, c)
    PROVE  CallsInv'
  <1>1. UNCHANGED <<events, log, calls, doing, at>> BY DEF ToolReturns, convVars
  <1>2. at[t] = "tools" /\ c \in DOMAIN doing[t] BY DEF ToolReturns
  <1> DEFINE With(r) == [d \in DOMAIN got[t] \cup {c} |-> IF d = c THEN r ELSE got[t][d]]
  <1>3. PICK r : r # Stub /\ got' = [got EXCEPT ![t] = With(r)]
    BY DEF ToolReturns, Error, Pointer, Full, Stub
  <1> DEFINE y == With(r)
  <1>4. DOMAIN y = DOMAIN got[t] \cup {c} OBVIOUS
  <1>5. \A d \in DOMAIN y : y[d] = IF d = c THEN r ELSE got[t][d] OBVIOUS
  <1>6. DOMAIN y \subseteq 1..calls /\ \A d \in DOMAIN y : y[d] # Stub
    BY <1>2, <1>3, <1>4, <1>5 DEF CallsInv, TurnInv
  <1>7. Moves(t, "tools", doing[t], y)
    BY <1>1, <1>2, <1>3 DEF Moves, CallsInv, TurnInv
  <1>8. ListsKept({}) BY <1>1, UnchangedLists
  <1>9. DOMAIN doing[t] \in Batches BY DEF Batches
  <1>10. calls' \in Nat /\ calls <= calls' /\ {} \subseteq calls+1..calls'
    BY <1>1 DEF CallsInv
  <1> HIDE DEF y
  <1> QED BY <1>6, <1>7, <1>8, <1>9, <1>10, MovesKeepCalls DEF Places

\* The model makes calls: new ones.
LEMMA ModelCallsCalls ==
    ASSUME CallsInv, NEW t \in Turns, ModelCalls(t)
    PROVE  CallsInv'
  <1>0. calls \in Nat /\ MaxCalls \in Nat BY ConversationAssumption DEF CallsInv
  <1> DEFINE Onward(on) == /\ Goto(t, "tools")
                           /\ doing' = [doing EXCEPT ![t] = on]
                           /\ Yields(t)
                           /\ UNCHANGED <<got, tries, stuck, touched>>
  <1>1. PICK n \in 1..(MaxCalls - calls) : \E on \in [calls+1..calls+n -> Files] :
            calls' = calls + n /\ AppendEvent(t, CallsEvent(on), Onward(on))
    BY DEF ModelCalls
  <1> DEFINE new == calls+1..calls+n
  <1>2. PICK on \in [new -> Files] :
            calls' = calls + n /\ AppendEvent(t, CallsEvent(on), Onward(on))
    BY <1>1
  <1>3. calls' \in Nat /\ calls <= calls' /\ new \subseteq calls+1..calls' /\ DOMAIN on = new
    BY <1>0, <1>2
  <1> DEFINE ev == CallsEvent(on)
  <1>4. Asked(ev) = new /\ Answered(ev) = {} BY <1>3 DEF CallsEvent, Asked, Answered
  <1>5. events' = Append(events, ev) /\ log' \in {log, Append(log, ev)}
    BY <1>2 DEF AppendEvent
  <1> HIDE DEF ev, new
  <1>6. ListsKept(new) BY <1>3, <1>4, <1>5, AppendedLists
  <1>7. CASE Onward(on)
    <2>1. Moves(t, "tools", on, got[t])
      BY <1>7 DEF Moves, Goto, CallsInv, TurnInv
    <2>2. DOMAIN got[t] \subseteq 1..calls /\ \A c \in DOMAIN got[t] : got[t][c] # Stub
      BY DEF CallsInv, TurnInv
    <2> HIDE DEF Onward
    <2> QED BY <1>3, <1>6, <2>1, <2>2, MovesKeepCalls DEF Places
  <1>8. CASE Over(t)
    <2>1. Moves(t, "over", <<>>, <<>>) BY <1>8, OverMoves
    <2>2. DOMAIN <<>> = {} OBVIOUS
    <2> QED BY <1>3, <1>6, <2>1, <2>2, MovesKeepCalls DEF Places
  <1>9. Onward(on) \/ Over(t) BY <1>2 DEF AppendEvent
  <1> QED BY <1>7, <1>8, <1>9

\* The user's steps, which touch no turn's calls and results.
LEMMA UserCalls ==
    ASSUME CallsInv, Escape \/ ClearConversation \/ Compact \/ UNCHANGED vars
    PROVE  CallsInv'
  <1>1. UNCHANGED <<at, doing, got, calls>>
    BY DEF Escape, ClearConversation, Compact, vars, turnVars, uiVars, convVars
  <1>2. ListsKept({})
    <2>1. CASE Escape \/ UNCHANGED vars
      BY <2>1, <1>1, UnchangedLists DEF Escape, vars, convVars
    <2>2. CASE ClearConversation
      <3>1. events' = <<>> /\ log' \in {log, <<>>}
        BY <2>2 DEF ClearConversation, Replace
      <3> QED BY <1>1, <3>1, ClearRewrites, RewrittenLists
    <2>3. CASE Compact
      <3> DEFINE evs == <<Summary>> \o SubSeq(events, Len(events) - KeepRecent + 1, Len(events))
      <3>1. events' = evs /\ log' \in {log, evs} BY <2>3 DEF Compact, Replace
      <3>2. Rewrites(evs, events)
        BY <2>3, CompactRewrites DEF Compact, CallsInv, ListInv
      <3> HIDE DEF evs
      <3> QED BY <1>1, <3>1, <3>2, RewrittenLists
    <2> QED BY <2>1, <2>2, <2>3
  <1>3. TurnInv'
    <2>1. TurnInv BY DEF CallsInv
    <2> QED BY <1>1, <2>1 DEF TurnInv
  <1>4. Batches' \subseteq Batches \cup {{}, {}}
    <2>1. Batches' = AskedTogether(events') \cup AskedTogether(log')
                        \cup {DOMAIN doing[t] : t \in Turns}
      BY <1>1 DEF Batches, AskedTogether
    <2> QED BY <1>2, <2>1 DEF ListsKept, Batches
  <1>5. Answers' \subseteq Answers \cup Batches \cup {{}, Dangling(events)}
    <2>1. Answers' = AnsweredTogether(events') \cup AnsweredTogether(log')
                        \cup {DOMAIN got[t] : t \in {u \in Turns : at[u] = "repairing"}}
      BY <1>1 DEF Answers, AnsweredTogether
    <2> QED BY <1>2, <2>1 DEF ListsKept, Answers
  <1>6. Whole'
    <2>1. {} \cap (1..calls) = {} OBVIOUS
    <2> QED BY <1>4, <1>5, <2>1, WholeKept
  <1>7. ListInv(events, calls)' /\ ListInv(log, calls)' /\ calls' \in Nat
    BY <1>1, <1>2 DEF CallsInv, ListsKept, ListInv, CallsUpTo, AskedOnce, StubsAreOld,
                      StubsHaveStandIn, IsList
  <1> QED BY <1>3, <1>6, <1>7 DEF CallsInv

\* The next process loads the log, and no turn has anything in hand.
LEMMA RestartCalls ==
    ASSUME CallsInv, Restart
    PROVE  CallsInv'
  <1>1. /\ events' = log /\ log' = log /\ calls' = calls
        /\ at' = [t \in Turns |-> IF t \in begun THEN "over" ELSE at[t]]
        /\ doing' = [t \in Turns |-> <<>>] /\ got' = [t \in Turns |-> <<>>]
    BY DEF Restart, Forget
  <1>2. ListsKept({}) BY <1>1, RewrittenLists
  <1>3. DOMAIN <<>> = {} OBVIOUS
  <1>4. TurnInv'
    <2>1. at' \in [Turns -> Places] BY <1>1 DEF CallsInv, TurnInv, Places
    <2>2. /\ doing' = [t \in Turns |-> doing'[t]] /\ got' = [t \in Turns |-> got'[t]]
          /\ \A t \in Turns : DOMAIN doing'[t] = {} /\ DOMAIN got'[t] = {}
      BY <1>1, <1>3
    <2> QED BY <2>1, <2>2 DEF TurnInv
  <1>5. Batches' \subseteq Batches \cup {{}, {}}
    <2>1. Batches' = AskedTogether(events') \cup AskedTogether(log')
                        \cup {DOMAIN doing'[t] : t \in Turns}
      BY DEF Batches, AskedTogether
    <2>2. \A t \in Turns : DOMAIN doing'[t] = {} BY <1>1, <1>3
    <2> QED BY <1>2, <2>1, <2>2 DEF ListsKept
  <1>6. Answers' \subseteq Answers \cup Batches \cup {{}, Dangling(events)}
    <2>1. Answers' = AnsweredTogether(events') \cup AnsweredTogether(log')
                        \cup {DOMAIN got'[t] : t \in {u \in Turns : at'[u] = "repairing"}}
      BY DEF Answers, AnsweredTogether
    <2>2. \A t \in Turns : DOMAIN got'[t] = {} BY <1>1, <1>3
    <2> QED BY <1>2, <2>1, <2>2 DEF ListsKept
  <1>7. Whole'
    <2>1. {} \cap (1..calls) = {} OBVIOUS
    <2> QED BY <1>5, <1>6, <2>1, WholeKept
  <1>8. ListInv(events, calls)' /\ ListInv(log, calls)' /\ calls' \in Nat
    BY <1>1, <1>2 DEF CallsInv, ListsKept, ListInv, CallsUpTo, AskedOnce, StubsAreOld,
                      StubsHaveStandIn, IsList
  <1> QED BY <1>4, <1>7, <1>8 DEF CallsInv

\* Every step keeps the invariant of the calls.
LEMMA NextCalls == CallsInv /\ [Next]_vars => CallsInv'
  <1> SUFFICES ASSUME CallsInv, [Next]_vars PROVE CallsInv'
    OBVIOUS
  <1>1. ASSUME NEW t \in Turns, Submit(t) \/ TurnBegins(t) \/ TurnGoesOn(t) \/ TurnEnds(t)
        PROVE  CallsInv'
    <2>1. CASE Submit(t) \/ AutoCompactNone(t) \/ Ask(t) \/ TurnEnds(t)
      BY <2>1, QuietStepsCalls
    <2>2. CASE AutoCompactShed(t) \/ AutoCompactSummarize(t) BY <2>2, AutoCompactCalls
    <2>3. CASE RepairReads(t) BY <2>3, RepairReadsCalls
    <2>4. CASE RepairAppends(t) \/ AppendResults(t) BY <2>4, AnswersCalls
    <2>5. CASE AppendPrompt(t) \/ ModelTalks(t) BY <2>5, TextOrPromptCalls
    <2>6. CASE ModelCalls(t) BY <2>6, ModelCallsCalls
    <2>7. CASE \E c \in Calls : ToolReturns(t, c) BY <2>7, ToolReturnsCalls
    <2> QED BY <1>1, <2>1, <2>2, <2>3, <2>4, <2>5, <2>6, <2>7 DEF TurnBegins, TurnGoesOn
  <1>2. CASE Escape \/ ClearConversation \/ Compact \/ UNCHANGED vars BY <1>2, UserCalls
  <1>3. CASE Restart BY <1>3, RestartCalls
  <1> QED BY <1>1, <1>2, <1>3 DEF Next

\* A conversation starts empty, or with the four events of earlier days.
LEMMA OldSessionList ==
    ASSUME NEW f \in Files
    PROVE  /\ ListInv(OldSession(f), 1)
           /\ AskedTogether(OldSession(f)) = {{}, {1}}
           /\ AnsweredTogether(OldSession(f)) = {{}}
  <1> DEFINE evs == OldSession(f)
             asks == CallsEvent([c \in {1} |-> f])
  <1>1. /\ Asked(asks) = {1} /\ Answered(asks) = {}
        /\ \A ev \in {Prompt, Text} : Asked(ev) = {} /\ Answered(ev) = {}
    BY DEF CallsEvent, Prompt, Text, Asked, Answered
  <1> HIDE DEF asks
  <1>2. evs = <<Prompt, asks, Prompt, Text>> BY DEF OldSession, asks
  <1>3. evs \in Seq({Prompt, asks, Text}) BY <1>2
  <1>4. /\ DOMAIN evs = 1..4
        /\ evs[1] = Prompt /\ evs[2] = asks /\ evs[3] = Prompt /\ evs[4] = Text
    BY <1>2
  <1>5. DOMAIN evs = {1, 2, 3, 4} BY <1>4
  <1> HIDE DEF evs
  <1>6. \A i \in DOMAIN evs : /\ Answered(evs[i]) = {}
                              /\ Asked(evs[i]) = IF i = 2 THEN {1} ELSE {}
    BY <1>1, <1>4, <1>5
  <1>7. ListInv(evs, 1)
    <2>1. IsList(evs) BY <1>3 DEF IsList
    <2>2. CallsUpTo(evs, 1) BY <1>6 DEF CallsUpTo
    <2>3. AskedOnce(evs) BY <1>6 DEF AskedOnce
    <2>4. StubsAreOld(evs) /\ StubsHaveStandIn(evs) BY <1>6 DEF StubsAreOld, StubsHaveStandIn
    <2> QED BY <2>1, <2>2, <2>3, <2>4 DEF ListInv
  <1>8. Range(evs) = {Prompt, asks, Text} BY <1>4, <1>5 DEF Range
  <1>9. AskedTogether(evs) = {{}, {1}} /\ AnsweredTogether(evs) = {{}}
    BY <1>1, <1>8 DEF AskedTogether, AnsweredTogether
  <1> QED BY <1>7, <1>9 DEF evs

\* It holds at the start.
LEMMA InitCalls == Init => CallsInv
  <1> SUFFICES ASSUME Init PROVE CallsInv
    OBVIOUS
  <1>1. /\ log = events /\ at = [t \in Turns |-> "new"]
        /\ doing = [t \in Turns |-> <<>>] /\ got = [t \in Turns |-> <<>>]
    BY DEF Init
  <1>2. \A t \in Turns : DOMAIN doing[t] = {} /\ DOMAIN got[t] = {} BY <1>1
  <1>3. calls \in Nat /\ ListInv(events, calls) /\ AnsweredTogether(events) \subseteq {{}}
            /\ AskedTogether(events) \subseteq {{}, {1}}
    <2>1. CASE events = <<>> /\ calls = 0
      <3>1. Range(<<>>) = {} /\ DOMAIN <<>> = {} BY DEF Range
      <3>2. IsList(<<>>) BY DEF IsList
      <3>3. ListInv(<<>>, 0)
        BY <3>1, <3>2 DEF ListInv, CallsUpTo, AskedOnce, StubsAreOld, StubsHaveStandIn
      <3> QED BY <2>1, <3>1, <3>3 DEF AskedTogether, AnsweredTogether
    <2>2. CASE calls = 1 /\ \E f \in Files : events = OldSession(f)
      BY <2>2, OldSessionList
    <2> QED BY <2>1, <2>2 DEF Init
  <1>4. TurnInv
    <2>1. at \in [Turns -> Places] BY <1>1 DEF Places
    <2>2. doing = [t \in Turns |-> doing[t]] /\ got = [t \in Turns |-> got[t]] BY <1>1
    <2> QED BY <1>2, <2>1, <2>2 DEF TurnInv
  <1>5. Whole
    <2>1. Batches \subseteq {{}, {1}}
      BY <1>1, <1>2, <1>3 DEF Batches
    <2>2. Answers \subseteq {{}}
      BY <1>1, <1>2, <1>3 DEF Answers
    <2> QED BY <2>1, <2>2 DEF Whole
  <1> QED BY <1>1, <1>3, <1>4, <1>5 DEF CallsInv

\* Of the results for one file a newer one than any stub is always there, however the
\* conversation was shed, summarized, compacted, cleared, restarted or written to by a
\* turn that had been stopped (compaction_shed.go:36-39).
THEOREM StubsTellTheTruth == Spec => []NewestKept
  <1>1. CallsInv => NewestKept BY ListInvKeepsNewest DEF CallsInv
  <1> QED BY <1>1, InitCalls, NextCalls, PTL DEF Spec

\* A cut that looks at the first call in front of it and the first result behind it
\* parts no call from its result, since the calls that were made together are answered
\* together.
LEMMA CutPartsNothing ==
    ASSUME CallsInv, NEW t \in Turns, AutoCompactSummarize(t), Adjacent(events)
    PROVE  AllAnswered(events') \cap AllAsked(events) \subseteq AllAsked(events')
  <1> DEFINE n == CleanBoundary(events, Len(events) - KeepRecent)
             new == Summarized(events, n)
  <1>1. IsList(events) /\ KeepRecent < Len(events)
    BY DEF CallsInv, ListInv, AutoCompactSummarize
  <1>2. Len(events) \in Nat /\ DOMAIN events = 1..Len(events) BY <1>1, ListShape
  <1>3. /\ n \in 0..Len(events) /\ n >= Len(events) - KeepRecent
        /\ n = Len(events) \/ (~CutsCall(events, n) /\ ~CutsResponse(events, n))
    BY <1>1, CutIsClean
  <1>4. events' = new BY DEF AutoCompactSummarize
  <1> HIDE DEF n
  <1>5. /\ \A ev \in Range(new) :
              Answered(ev) # {} => \E i \in n+1..Len(events) : ev = events[i]
        /\ \A i \in n+1..Len(events) : events[i] \in Range(new)
    BY <1>1, <1>3, SummarizedRewrites
  <1> HIDE DEF new
  <1>6. ASSUME NEW c
        PROVE  /\ c \in AllAsked(new) <=> \E ev \in Range(new) : c \in Asked(ev)
               /\ c \in AllAnswered(new) <=> \E ev \in Range(new) : c \in Answered(ev)
    BY AskedIsIndexed DEF Range
  <1>7. SUFFICES ASSUME NEW c, c \in AllAnswered(new), c \in AllAsked(events)
                 PROVE  c \in AllAsked(new)
    BY <1>4 DEF AllAsked, AllAnswered
  <1>8. PICK k \in n+1..Len(events) : c \in Answered(events[k])
    <2>1. PICK ev \in Range(new) : c \in Answered(ev) BY <1>6, <1>7
    <2> QED BY <1>5, <2>1
  <1>9. /\ k \in DOMAIN events /\ k \in Nat /\ n \in Nat
        /\ n + 1 <= k /\ k <= Len(events)
    <2>1. n \in 0..Len(events) BY <1>3
    <2> QED BY <1>2, <2>1
  <1>10. k > 1 /\ c \in Asked(events[k-1])
    BY <1>7, <1>8, <1>9 DEF Adjacent
  <1>11. CASE k - 1 >= n + 1
    <2>1. k - 1 \in n+1..Len(events) BY <1>2, <1>9, <1>11
    <2>2. events[k-1] \in Range(new) BY <1>5, <2>1
    <2> QED BY <1>6, <1>10, <2>2
  <1>12. CASE k = n + 1
    <2>1. c \in Asked(events[n]) /\ c \in Answered(events[n+1]) /\ n+1 \in DOMAIN events
             /\ n \in DOMAIN events /\ n < Len(events)
      BY <1>2, <1>8, <1>9, <1>10, <1>12
    <2>2. Asked(events[n]) \in Batches /\ Answered(events[n+1]) \in Answers
      BY <2>1 DEF Batches, Answers, AskedTogether, AnsweredTogether, Range
    <2>3. Asked(events[n]) \subseteq Answered(events[n+1])
      BY <2>1, <2>2 DEF CallsInv, Whole
    <2>4. Asked(events[n]) \in SUBSET Nat BY <2>2, NumberedUpToCalls DEF CallsInv
    <2>5. Min(Asked(events[n])) \in Asked(events[n]) BY <2>1, <2>4, MinIsMember
    <2>6. n+1 \in n+1..Len(events) BY <1>2, <1>3, <2>1
    <2>7. CutsCall(events, n) BY <2>1, <2>3, <2>5, <2>6 DEF CutsCall
    <2> QED BY <1>3, <2>1, <2>7
  <1> QED BY <1>2, <1>9, <1>11, <1>12

\* A summary never takes a call and leaves its result, several calls in an event
\* included (autocompact.go:109-113, 141-147).
THEOREM SummaryPartsNoPair == Spec => CutKeepsPairs
  <1>1. CallsInv /\ [Next]_vars =>
            [\A t \in Turns : AutoCompactSummarize(t) /\ Adjacent(events) =>
                AllAnswered(events') \cap AllAsked(events) \subseteq AllAsked(events')]_vars
    BY CutPartsNothing
  <1> QED BY <1>1, InitCalls, NextCalls, PTL DEF Spec, CutKeepsPairs

-----------------------------------------------------------------------------
(***************************************************************************)
(* Lists of events: a call is answered behind the event that asks for it,  *)
(* and once; a list of which the front was cut off keeps that, and the     *)
(* answer of each call that it keeps.                                      *)
(***************************************************************************)
AnswersFollow(evs) ==
    \A i, k \in DOMAIN evs : \A c \in Asked(evs[i]) \cap Answered(evs[k]) : k > i

AnsweredOnce(evs) ==
    \A i, k \in DOMAIN evs : i # k => Answered(evs[i]) \cap Answered(evs[k]) = {}

OneAnswer(evs) == AnswersFollow(evs) /\ AnsweredOnce(evs)

\* What is left of a list, put in its place.
Prunes(new, evs) ==
    /\ AllAsked(new) \subseteq AllAsked(evs) /\ AllAnswered(new) \subseteq AllAnswered(evs)
    /\ OneAnswer(evs) =>
          OneAnswer(new) /\ AllAsked(new) \cap AllAnswered(evs) \subseteq AllAnswered(new)

SameSides(ev, old) == Asked(ev) = Asked(old) /\ Answered(ev) = Answered(old)

\* The events of new are those of evs behind the cut, s places further on, or neither
\* ask nor answer.
BackOf(new, evs, s, cut) ==
    /\ \A i \in DOMAIN new :
          \/ Asked(new[i]) = {} /\ Answered(new[i]) = {}
          \/ i + s \in DOMAIN evs /\ i + s > cut /\ SameSides(new[i], evs[i + s])
    /\ \A k \in DOMAIN evs : k > cut => k - s \in DOMAIN new /\ SameSides(new[k - s], evs[k])

\* A list whose back is that of another, and which has no pairs in front, drops whole pairs only.
LEMMA BackPrunes ==
    ASSUME NEW new, IsList(new), NEW evs, IsList(evs), NEW s \in Int, NEW cut \in Int,
           BackOf(new, evs, s, cut)
    PROVE  Prunes(new, evs)
  <1>1. /\ Len(evs) \in Nat /\ DOMAIN evs = 1..Len(evs)
        /\ Len(new) \in Nat /\ DOMAIN new = 1..Len(new)
    BY ListShape
  <1>2. ASSUME NEW i \in DOMAIN new, NEW c, c \in Asked(new[i]) \/ c \in Answered(new[i])
        PROVE  i + s \in DOMAIN evs /\ i + s > cut /\ SameSides(new[i], evs[i + s])
    BY <1>2 DEF BackOf
  <1>3. AllAsked(new) \subseteq AllAsked(evs) /\ AllAnswered(new) \subseteq AllAnswered(evs)
    <2>1. ASSUME NEW c \in AllAsked(new) PROVE c \in AllAsked(evs)
      <3>1. PICK i \in DOMAIN new : c \in Asked(new[i]) BY AskedIsIndexed
      <3> QED BY <3>1, <1>2, AskedIsIndexed DEF SameSides
    <2>2. ASSUME NEW c \in AllAnswered(new) PROVE c \in AllAnswered(evs)
      <3>1. PICK i \in DOMAIN new : c \in Answered(new[i]) BY AskedIsIndexed
      <3> QED BY <3>1, <1>2, AskedIsIndexed DEF SameSides
    <2> QED BY <2>1, <2>2
  <1>4. ASSUME OneAnswer(evs) PROVE AnswersFollow(new)
    <2> SUFFICES ASSUME NEW i \in DOMAIN new, NEW k \in DOMAIN new,
                        NEW c \in Asked(new[i]) \cap Answered(new[k])
                 PROVE  k > i
      BY DEF AnswersFollow
    <2>1. /\ i + s \in DOMAIN evs /\ k + s \in DOMAIN evs
          /\ c \in Asked(evs[i + s]) \cap Answered(evs[k + s])
      BY <1>2 DEF SameSides
    <2>2. k + s > i + s BY <1>4, <2>1 DEF OneAnswer, AnswersFollow
    <2> QED BY <2>2, <1>1
  <1>5. ASSUME OneAnswer(evs) PROVE AnsweredOnce(new)
    <2> SUFFICES ASSUME NEW i \in DOMAIN new, NEW k \in DOMAIN new, i # k,
                        NEW c \in Answered(new[i]) \cap Answered(new[k])
                 PROVE  FALSE
      BY DEF AnsweredOnce
    <2>1. /\ i + s \in DOMAIN evs /\ k + s \in DOMAIN evs
          /\ c \in Answered(evs[i + s]) \cap Answered(evs[k + s])
      BY <1>2 DEF SameSides
    <2>2. i + s # k + s BY <1>1
    <2> QED BY <1>5, <2>1, <2>2 DEF OneAnswer, AnsweredOnce
  <1>6. ASSUME OneAnswer(evs), NEW c \in AllAsked(new), c \in AllAnswered(evs)
        PROVE  c \in AllAnswered(new)
    <2>1. PICK i \in DOMAIN new : c \in Asked(new[i]) BY AskedIsIndexed
    <2>2. PICK k \in DOMAIN evs : c \in Answered(evs[k]) BY <1>6, AskedIsIndexed
    <2>3. i + s \in DOMAIN evs /\ i + s > cut /\ c \in Asked(evs[i + s])
      BY <1>2, <2>1 DEF SameSides
    <2>4. k > i + s BY <1>6, <2>2, <2>3 DEF OneAnswer, AnswersFollow
    <2>5. k > cut BY <1>1, <2>1, <2>2, <2>3, <2>4
    <2>6. k - s \in DOMAIN new /\ c \in Answered(new[k - s])
      BY <2>2, <2>5 DEF BackOf, SameSides
    <2> QED BY <2>6, AskedIsIndexed
  <1> QED BY <1>3, <1>4, <1>5, <1>6 DEF Prunes, OneAnswer

\* A list prunes itself.
LEMMA SamePrunes == \A evs : Prunes(evs, evs)
  BY DEF Prunes

\* The empty list prunes every list.
LEMMA ClearPrunes == \A evs : Prunes(<<>>, evs)
  BY DEF Prunes, OneAnswer, AnswersFollow, AnsweredOnce, AllAsked, AllAnswered

\* Shedding keeps who asks and who answers.
LEMMA ShedPrunes ==
    ASSUME NEW evs, IsList(evs), NEW alike
    PROVE  Prunes(Shed(evs, alike), evs)
  <1> DEFINE new == Shed(evs, alike)
  <1>1. /\ IsList(new) /\ DOMAIN new = DOMAIN evs
        /\ \A i \in DOMAIN evs : SameSides(new[i], evs[i])
    BY ShedShape DEF SameSides
  <1>2. DOMAIN evs = 1..Len(evs) /\ Len(evs) \in Nat BY ListShape
  <1> HIDE DEF new
  <1>3. \A i \in DOMAIN evs : i + 0 = i /\ i - 0 = i /\ i > 0 BY <1>2
  <1>4. BackOf(new, evs, 0, 0) BY <1>1, <1>3 DEF BackOf
  <1> QED BY <1>1, <1>4, BackPrunes DEF new

\* The back of a list behind something without calls or results prunes it.
LEMMA TailPrunes ==
    ASSUME NEW evs, IsList(evs), NEW cut \in 0..Len(evs), NEW front, NEW S,
           front \in Seq(S), \A ev \in S : Asked(ev) = {} /\ Answered(ev) = {}
    PROVE  Prunes(front \o SubSeq(evs, cut + 1, Len(evs)), evs)
  <1> DEFINE new == front \o SubSeq(evs, cut + 1, Len(evs))
             f == Len(front)
             len == Len(evs) - cut
  <1>1. Len(evs) \in Nat /\ DOMAIN evs = 1..Len(evs) BY ListShape
  <1>2. /\ IsList(new) /\ f \in Nat /\ len \in Nat /\ DOMAIN new = 1..(f + len)
        /\ \A i \in DOMAIN new :
              \/ i <= f /\ new[i] \in S
              \/ /\ i > f /\ cut + (i - f) \in cut+1..Len(evs)
                 /\ new[i] = evs[cut + (i - f)]
    BY ZenonT(30), TailShape
  <1> HIDE DEF new, f
  <1>3. \A i \in Int : i + (cut - f) = cut + (i - f) BY <1>1, <1>2
  <1>4. ASSUME NEW i \in DOMAIN new
        PROVE  \/ Asked(new[i]) = {} /\ Answered(new[i]) = {}
               \/ /\ i + (cut - f) \in DOMAIN evs /\ i + (cut - f) > cut
                  /\ SameSides(new[i], evs[i + (cut - f)])
    <2>1. CASE new[i] \in S BY <2>1
    <2>2. CASE cut + (i - f) \in cut+1..Len(evs) /\ new[i] = evs[cut + (i - f)]
      BY <2>2, <1>1, <1>2, <1>3 DEF SameSides
    <2> QED BY <2>1, <2>2, <1>2
  <1>5. ASSUME NEW k \in DOMAIN evs, k > cut
        PROVE  k - (cut - f) \in DOMAIN new /\ SameSides(new[k - (cut - f)], evs[k])
    <2> DEFINE i == k - (cut - f)
    <2>1. i \in 1..(f + len) /\ ~(i <= f) /\ cut + (i - f) = k
      BY <1>1, <1>2, <1>5
    <2> HIDE DEF i
    <2>2. new[i] = evs[k] BY <2>1, <1>2
    <2> QED BY <2>1, <2>2, <1>2 DEF SameSides, i
  <1>6. cut - f \in Int /\ cut \in Int BY <1>1, <1>2
  <1>7. BackOf(new, evs, cut - f, cut) BY <1>4, <1>5 DEF BackOf
  <1> QED BY <1>2, <1>6, <1>7, BackPrunes DEF new

\* So does the summary of a list.
LEMMA SummarizedPrunes ==
    ASSUME NEW evs, IsList(evs), NEW cut \in 0..Len(evs)
    PROVE  Prunes(Summarized(evs, cut), evs)
  <1>1. \A ev \in {Prompt, Summary} : Asked(ev) = {} /\ Answered(ev) = {} BY Sides
  <1>2. PICK front \in Seq({Prompt, Summary}) :
            Summarized(evs, cut) = front \o SubSeq(evs, cut + 1, Len(evs))
    BY SummarizedFront
  <1> QED BY <1>1, <1>2, TailPrunes

\* So does what /compact leaves.
LEMMA CompactPrunes ==
    ASSUME NEW evs, IsList(evs), KeepRecent < Len(evs)
    PROVE  Prunes(<<Summary>> \o SubSeq(evs, Len(evs) - KeepRecent + 1, Len(evs)), evs)
  <1> DEFINE cut == Len(evs) - KeepRecent
  <1>1. Len(evs) \in Nat BY ListShape
  <1>2. cut \in 0..Len(evs) BY <1>1, ConversationAssumption
  <1>3. <<Summary>> \in Seq({Summary}) OBVIOUS
  <1>4. \A ev \in {Summary} : Asked(ev) = {} /\ Answered(ev) = {} BY Sides
  <1> HIDE DEF cut
  <1>5. Prunes(<<Summary>> \o SubSeq(evs, cut + 1, Len(evs)), evs)
    BY <1>2, <1>3, <1>4, TailPrunes
  <1> QED BY <1>5 DEF cut

-----------------------------------------------------------------------------
(***************************************************************************)
(* Both lists hold one answer to a call at most, and the log none that the *)
(* list in memory lacks.                                                   *)
(***************************************************************************)
ListsPair(evs, lg) ==
    /\ OneAnswer(evs) /\ OneAnswer(lg)
    /\ AllAnswered(lg) \cap AllAsked(evs) \subseteq AllAnswered(evs)

\* What a turn has in hand answers calls to which no answer was given, and that is all
\* that dangles; where a turn has nothing in hand, nothing dangles.
InStep(place, x, y, evs, lg) ==
    LET given == AllAnswered(evs) \cup AllAnswered(lg)
    IN  /\ place = "tools" => DOMAIN x \cap given = {} /\ Dangling(evs) \subseteq DOMAIN x
        /\ place = "repairing" => DOMAIN y \cap given = {} /\ Dangling(evs) \subseteq DOMAIN y
        /\ place \in {"prompt", "ready", "asking"} => Dangling(evs) = {}

\* The turns are begun one after the other.
BegunInOrder ==
    /\ Cardinality(begun) \in 0..MaxTurns /\ begun = 1..Cardinality(begun)
    /\ \A t \in Turns : at[t] # "new" => t \in begun

PairInv ==
    /\ BegunInOrder
    /\ ~late => /\ ListsPair(events, log)
                /\ \A t \in Turns : Newest(t) => InStep(at[t], doing[t], got[t], events, log)

\* Rewriting the list, in memory and perhaps in the log, leaves a turn in step.
LEMMA PrunedPair ==
    ASSUME NEW evs, NEW lg, ListsPair(evs, lg), NEW new, Prunes(new, evs),
           NEW newlog \in {lg, new}
    PROVE  /\ ListsPair(new, newlog)
           /\ \A place, x, y : InStep(place, x, y, evs, lg) => InStep(place, x, y, new, newlog)
  <1>1. /\ OneAnswer(new) /\ OneAnswer(newlog)
        /\ AllAsked(new) \subseteq AllAsked(evs) /\ AllAnswered(new) \subseteq AllAnswered(evs)
        /\ AllAsked(new) \cap AllAnswered(evs) \subseteq AllAnswered(new)
        /\ AllAnswered(newlog) \subseteq AllAnswered(evs) \cup AllAnswered(lg)
    BY DEF Prunes, ListsPair
  <1>2. AllAnswered(newlog) \cap AllAsked(new) \subseteq AllAnswered(new)
    BY <1>1 DEF ListsPair
  <1>3. Dangling(new) \subseteq Dangling(evs) BY <1>1 DEF Dangling
  <1>4. ASSUME NEW place, NEW x, NEW y, InStep(place, x, y, evs, lg)
        PROVE  InStep(place, x, y, new, newlog)
    BY <1>1, <1>3, <1>4 DEF InStep
  <1> QED BY <1>1, <1>2, <1>4 DEF ListsPair

\* What is asked and answered once an event is appended.
LEMMA AppendedSides ==
    ASSUME NEW evs, IsList(evs), NEW ev
    PROVE  /\ AllAsked(Append(evs, ev)) = AllAsked(evs) \cup Asked(ev)
           /\ AllAnswered(Append(evs, ev)) = AllAnswered(evs) \cup Answered(ev)
  <1> DEFINE new == Append(evs, ev)
  <1>1. ASSUME NEW old
        PROVE  /\ AllAsked(old) = UNION AskedTogether(old)
               /\ AllAnswered(old) = UNION AnsweredTogether(old)
    BY AskedIsIndexed DEF AskedTogether, AnsweredTogether, Range
  <1>2. /\ AskedTogether(new) = AskedTogether(evs) \cup {Asked(ev)}
        /\ AnsweredTogether(new) = AnsweredTogether(evs) \cup {Answered(ev)}
    BY AppendLists
  <1> HIDE DEF new
  <1>3. ASSUME NEW c
        PROVE  /\ c \in AllAsked(new) <=> c \in AllAsked(evs) \cup Asked(ev)
               /\ c \in AllAnswered(new) <=> c \in AllAnswered(evs) \cup Answered(ev)
    BY <1>1, <1>2
  <1> QED BY <1>3 DEF new

\* An event that asks for new calls, or answers some that have no answer.
Fits(ev, n, evs, lg) ==
    /\ Answered(ev) \subseteq 1..n /\ Asked(ev) \cap (1..n) = {}
    /\ Answered(ev) \cap (AllAnswered(evs) \cup AllAnswered(lg)) = {}

\* An event that fits keeps the list and the file paired, written to the file or not.
LEMMA AppendedPair ==
    ASSUME NEW n \in Nat, NEW evs, ListInv(evs, n), NEW lg, ListInv(lg, n),
           ListsPair(evs, lg), NEW ev, Fits(ev, n, evs, lg), NEW newlog \in {lg, Append(lg, ev)}
    PROVE  ListsPair(Append(evs, ev), newlog)
  <1>1. ASSUME NEW old, ListInv(old, n), Answered(ev) \cap AllAnswered(old) = {}, OneAnswer(old)
        PROVE  OneAnswer(Append(old, ev))
    <2> DEFINE new == Append(old, ev)
               m == Len(old)
    <2>1. m \in Nat /\ DOMAIN old = 1..m /\ old \in Seq(Range(old) \cup {ev})
      BY <1>1, ListShape, SeqMonotonic DEF ListInv
    <2>2. /\ DOMAIN new = 1..(m + 1) /\ new[m + 1] = ev
          /\ \A i \in 1..m : new[i] = old[i]
      <3>1. ev \in Range(old) \cup {ev} OBVIOUS
      <3> QED BY <2>1, <3>1, AppendProperties, LenProperties
    <2> HIDE DEF new, m
    <2>3. \A i \in DOMAIN new : i \in DOMAIN old \/ i = m + 1 BY <2>1, <2>2
    <2>4. \A i \in DOMAIN old : i \in DOMAIN new /\ new[i] = old[i] /\ i < m + 1
      BY <2>1, <2>2
    <2>5. AnswersFollow(new)
      <3> SUFFICES ASSUME NEW i \in DOMAIN new, NEW k \in DOMAIN new,
                          NEW c \in Asked(new[i]) \cap Answered(new[k])
                   PROVE  k > i
        BY DEF AnswersFollow
      <3>1. CASE i \in DOMAIN old /\ k \in DOMAIN old
        BY <3>1, <2>4, <1>1 DEF OneAnswer, AnswersFollow
      <3>2. CASE i \in DOMAIN old /\ k = m + 1 BY <3>2, <2>1, <2>4
      <3>3. CASE i = m + 1
        <4>1. c \in Asked(ev) BY <3>3, <2>2
        <4>2. c \in 1..n
          <5>1. CASE k = m + 1 BY <5>1, <2>2 DEF Fits
          <5>2. CASE k \in DOMAIN old BY <5>2, <2>4, <1>1 DEF ListInv, CallsUpTo
          <5> QED BY <5>1, <5>2, <2>3
        <4> QED BY <4>1, <4>2 DEF Fits
      <3> QED BY <3>1, <3>2, <3>3, <2>3
    <2>6. AnsweredOnce(new)
      <3> SUFFICES ASSUME NEW i \in DOMAIN new, NEW k \in DOMAIN new, i # k,
                          NEW c \in Answered(new[i]) \cap Answered(new[k])
                   PROVE  FALSE
        BY DEF AnsweredOnce
      <3>1. CASE i \in DOMAIN old /\ k \in DOMAIN old
        BY <3>1, <2>4, <1>1 DEF OneAnswer, AnsweredOnce
      <3>2. CASE i = m + 1 \/ k = m + 1
        <4>1. c \in Answered(ev) /\ c \in AllAnswered(old)
          BY <3>2, <2>2, <2>3, <2>4, AskedIsIndexed
        <4> QED BY <4>1, <1>1
      <3> QED BY <3>1, <3>2, <2>3
    <2> QED BY <2>5, <2>6 DEF OneAnswer, new
  <1>2. OneAnswer(evs) /\ OneAnswer(lg) BY DEF ListsPair
  <1>3. /\ OneAnswer(Append(evs, ev)) /\ OneAnswer(newlog)
        /\ AllAsked(Append(evs, ev)) = AllAsked(evs) \cup Asked(ev)
        /\ AllAnswered(Append(evs, ev)) = AllAnswered(evs) \cup Answered(ev)
    BY <1>1, <1>2, AppendedSides DEF Fits, ListInv
  <1>4. AllAnswered(lg) \cap Asked(ev) = {}
    <2>1. AllAnswered(lg) \subseteq 1..n
      BY AskedIsIndexed DEF ListInv, CallsUpTo
    <2> QED BY <2>1 DEF Fits
  <1>5. AllAnswered(newlog) \subseteq AllAnswered(lg) \cup Answered(ev)
    BY AppendedSides DEF ListInv
  <1> QED BY <1>3, <1>4, <1>5 DEF ListsPair

-----------------------------------------------------------------------------
(***************************************************************************)
(* The steps.                                                              *)
(***************************************************************************)
\* A turn that is the newest is the only one.
LEMMA NewestIsOne ==
    ASSUME NEW t \in Turns, NEW u \in Turns, Newest(t), Newest(u)
    PROVE  t = u
  BY DEF Newest

\* Where a step that a turn makes takes it, what it is busy with and what it has in hand,
\* and that the others stay as they are.
LEMMA MovedTurns ==
    ASSUME CallsInv, NEW t \in Turns, NEW place, NEW x, NEW y, Moves(t, place, x, y)
    PROVE  \A u \in Turns :
              /\ u = t => at'[u] = place /\ doing'[u] = x /\ got'[u] = y
              /\ u # t => at'[u] = at[u] /\ doing'[u] = doing[u] /\ got'[u] = got[u]
  <1>1. /\ at \in [Turns -> Places] /\ DOMAIN doing = Turns /\ DOMAIN got = Turns
    BY DEF CallsInv, TurnInv
  <1> QED BY <1>1 DEF Moves

\* A turn that moves stays among those that have begun.
LEMMA MovedBegun ==
    ASSUME CallsInv, BegunInOrder, NEW t \in Turns, NEW place, NEW x, NEW y,
           Moves(t, place, x, y), at[t] # "new", begun' = begun
    PROVE  BegunInOrder'
  <1>1. \A u \in Turns : at'[u] # "new" => u \in begun
    BY MovedTurns DEF BegunInOrder
  <1> QED BY <1>1 DEF BegunInOrder

\* A step of a turn that appends nothing.
LEMMA StepPairs ==
    ASSUME CallsInv, PairInv, NEW t \in Turns, at[t] # "new", UNCHANGED <<late, begun>>,
           NEW place, NEW x, NEW y, Moves(t, place, x, y),
           Prunes(events', events), log' \in {log, events'},
           ~late /\ Newest(t) => InStep(place, x, y, events', log')
    PROVE  PairInv'
  <1>1. BegunInOrder' BY MovedBegun DEF PairInv
  <1>2. ASSUME ~late PROVE ListsPair(events', log')
    BY <1>2, PrunedPair DEF PairInv
  <1>3. ASSUME ~late, NEW u \in Turns, Newest(u)
        PROVE  InStep(at'[u], doing'[u], got'[u], events', log')
    <2>1. CASE u = t BY <1>3, <2>1, MovedTurns
    <2>2. CASE u # t
      <3>1. InStep(at[u], doing[u], got[u], events, log) BY <1>3 DEF PairInv
      <3>2. InStep(at[u], doing[u], got[u], events', log')
        BY <1>3, <3>1, PrunedPair DEF PairInv
      <3> QED BY <2>2, <3>2, MovedTurns
    <2> QED BY <2>1, <2>2
  <1>4. \A u \in Turns : Newest(u)' <=> Newest(u) BY DEF Newest
  <1> QED BY <1>1, <1>2, <1>3, <1>4 DEF PairInv

\* A step of a turn that appends an event: if the turn is not the newest, it is late.
LEMMA AppendPairs ==
    ASSUME CallsInv, PairInv, NEW t \in Turns, at[t] # "new", NEW ev, NEW Onward,
           AppendEvent(t, ev, Onward),
           ~late /\ Newest(t) => Fits(ev, calls, events, log),
           NEW place, NEW x, NEW y, Onward => Moves(t, place, x, y),
           ~late /\ Newest(t) => InStep(place, x, y, events', log')
    PROVE  PairInv'
  <1>1. /\ events' = Append(events, ev) /\ log' \in {log, Append(log, ev)}
        /\ late' = (late \/ ~Newest(t)) /\ begun' = begun
    BY DEF AppendEvent, Lateness, uiVars, Over
  <1>2. Moves(t, place, x, y) \/ Moves(t, "over", <<>>, <<>>)
    BY OverMoves DEF AppendEvent
  <1>3. BegunInOrder' BY <1>1, <1>2, MovedBegun DEF PairInv
  <1>4. ASSUME ~late, Newest(t) PROVE ListsPair(events', log')
    <2>1. /\ calls \in Nat /\ ListInv(events, calls) /\ ListInv(log, calls) BY DEF CallsInv
    <2>2. ListsPair(events, log) BY <1>4 DEF PairInv
    <2>3. Fits(ev, calls, events, log) BY <1>4
    <2>4. log' \in {log, Append(log, ev)} BY <1>1
    <2>5. ListsPair(Append(events, ev), log') BY <2>1, <2>2, <2>3, <2>4, AppendedPair
    <2> QED BY <1>1, <2>5
  <1>5. ASSUME ~late, Newest(t), NEW u \in Turns, Newest(u)
        PROVE  InStep(at'[u], doing'[u], got'[u], events', log')
    <2>1. u = t BY <1>5, NewestIsOne
    <2>2. CASE Moves(t, place, x, y) BY <1>5, <2>1, <2>2, MovedTurns
    <2>3. CASE Moves(t, "over", <<>>, <<>>)
      <3>1. at'[u] = "over" BY <2>1, <2>3, MovedTurns
      <3> QED BY <3>1 DEF InStep
    <2> QED BY <1>2, <2>2, <2>3
  <1>6. \A u \in Turns : Newest(u)' <=> Newest(u) BY <1>1 DEF Newest
  <1> QED BY <1>1, <1>3, <1>4, <1>5, <1>6 DEF PairInv

\* The steps that take a turn to where nothing is asked of it.
LEMMA IdleSteps ==
    ASSUME CallsInv, PairInv, NEW t \in Turns, AutoCompactNone(t) \/ TurnEnds(t)
    PROVE  PairInv'
  <1>1. UNCHANGED <<late, begun, events, log>> /\ at[t] # "new"
    BY DEF AutoCompactNone, TurnEnds, Retry, RetryBegins, StuckRecovers, StuckGivesUp, LoopShows,
           Fails, Canceled, TurnDone, Over, convVars, uiVars
  <1>2. PICK place, x, y :
             place \in {"repair", "waiting", "hook", "over"} /\ Moves(t, place, x, y)
    <2>1. CASE AutoCompactNone(t)
      <3>1. Moves(t, "repair", doing[t], got[t])
        BY <2>1, GotoMoves DEF AutoCompactNone, turnVars
      <3> QED BY <3>1
    <2>2. CASE Retry(t)
      <3>1. Moves(t, "waiting", doing[t], got[t]) BY <2>2, GotoMoves DEF Retry
      <3> QED BY <3>1
    <2>3. CASE RetryBegins(t)
      <3>1. Moves(t, "hook", doing[t], got[t]) BY <2>3, GotoMoves DEF RetryBegins, turnVars
      <3> QED BY <3>1
    <2>4. CASE StuckRecovers(t)
      <3>1. Moves(t, "hook", <<>>, got[t]) BY <2>4, GotoMoves DEF StuckRecovers
      <3> QED BY <3>1
    <2>5. CASE StuckGivesUp(t) \/ Fails(t) \/ Canceled(t) \/ TurnDone(t)
      <3>1. Moves(t, "over", <<>>, <<>>)
        BY <2>5, OverMoves DEF StuckGivesUp, Fails, Canceled, TurnDone
      <3> QED BY <3>1
    <2> QED BY <2>1, <2>2, <2>3, <2>4, <2>5 DEF TurnEnds
  <1>3. InStep(place, x, y, events', log') BY <1>2 DEF InStep
  <1> QED BY <1>1, <1>2, <1>3, SamePrunes, StepPairs

\* The compaction before a turn, by either stage.
LEMMA AutoCompactPairs ==
    ASSUME CallsInv, PairInv, NEW t \in Turns, AutoCompactShed(t) \/ AutoCompactSummarize(t)
    PROVE  PairInv'
  <1>1. /\ UNCHANGED <<late, begun>> /\ at[t] # "new" /\ Goto(t, "repair")
        /\ UNCHANGED <<doing, got>> /\ log' \in {log, events'}
    BY DEF AutoCompactShed, AutoCompactSummarize, Replace, uiVars, turnVars
  <1>2. IsList(events) BY DEF CallsInv, ListInv
  <1>3. Prunes(events', events)
    <2>1. CASE AutoCompactShed(t)
      BY <1>2, <2>1, ShedPrunes DEF AutoCompactShed, Replace
    <2>2. CASE AutoCompactSummarize(t)
      <3> DEFINE n == CleanBoundary(events, Len(events) - KeepRecent)
      <3>1. n \in 0..Len(events) BY <1>2, <2>2, CutIsClean DEF AutoCompactSummarize
      <3>2. events' = Summarized(events, n) BY <2>2 DEF AutoCompactSummarize
      <3> HIDE DEF n
      <3> QED BY <1>2, <3>1, <3>2, SummarizedPrunes
    <2> QED BY <2>1, <2>2
  <1>4. Moves(t, "repair", doing[t], got[t]) BY <1>1, GotoMoves
  <1>5. InStep("repair", doing[t], got[t], events', log') BY DEF InStep
  <1> QED BY <1>1, <1>3, <1>4, <1>5, StepPairs

\* A repair has in hand all that dangles, of which the log answers nothing either.
LEMMA RepairReadsPairs ==
    ASSUME CallsInv, PairInv, NEW t \in Turns, RepairReads(t)
    PROVE  PairInv'
  <1>1. UNCHANGED <<late, begun, events, log, doing>> /\ at[t] # "new"
    BY DEF RepairReads, convVars, uiVars
  <1>2. CASE Dangling(events) = {}
    <2>1. Moves(t, "prompt", doing[t], got[t]) BY <1>1, <1>2, GotoMoves DEF RepairReads
    <2>2. InStep("prompt", doing[t], got[t], events', log') BY <1>1, <1>2 DEF InStep
    <2> QED BY <1>1, <2>1, <2>2, SamePrunes, StepPairs
  <1>3. CASE Dangling(events) # {}
    <2> DEFINE y == [c \in Dangling(events) |-> Error]
    <2>1. doing' = [doing EXCEPT ![t] = doing[t]] BY <1>1 DEF CallsInv, TurnInv
    <2>2. Moves(t, "repairing", doing[t], y) BY <1>3, <2>1 DEF RepairReads, Goto, Moves
    <2>3. DOMAIN y = Dangling(events) OBVIOUS
    <2> HIDE DEF y
    <2>4. ASSUME ~late
          PROVE  Dangling(events) \cap (AllAnswered(events) \cup AllAnswered(log)) = {}
      BY <2>4 DEF PairInv, ListsPair, Dangling
    <2>5. ~late => InStep("repairing", doing[t], y, events', log')
      BY <1>1, <2>3, <2>4 DEF InStep
    <2> QED BY <1>1, <2>2, <2>5, SamePrunes, StepPairs
  <1> QED BY <1>2, <1>3

\* The model asks for tools.
LEMMA AskPairs ==
    ASSUME CallsInv, PairInv, NEW t \in Turns, Ask(t)
    PROVE  PairInv'
  <1>1. UNCHANGED <<late, begun, events, log>> /\ at[t] = "ready"
    BY DEF Ask, convVars, uiVars
  <1>2. Moves(t, "asking", doing[t], got[t]) BY GotoMoves DEF Ask, turnVars
  <1>3. ~late /\ Newest(t) => InStep("asking", doing[t], got[t], events', log')
    BY <1>1 DEF PairInv, InStep
  <1> QED BY <1>1, <1>2, <1>3, SamePrunes, StepPairs

\* A tool returns.
LEMMA ToolReturnsPairs ==
    ASSUME CallsInv, PairInv, NEW t \in Turns, NEW c \in Calls, ToolReturns(t, c)
    PROVE  PairInv'
  <1>1. UNCHANGED <<late, begun, events, log, at, doing>> /\ at[t] = "tools"
    BY DEF ToolReturns, convVars, uiVars
  <1>2. PICK y : got' = [got EXCEPT ![t] = y] BY DEF ToolReturns
  <1>3. Moves(t, "tools", doing[t], y) BY <1>1, <1>2 DEF Moves, CallsInv, TurnInv
  <1>4. ~late /\ Newest(t) => InStep("tools", doing[t], y, events', log')
    BY <1>1 DEF PairInv, InStep
  <1> QED BY <1>1, <1>3, <1>4, SamePrunes, StepPairs

\* A prompt or a text of the model.
LEMMA TextOrPromptPairs ==
    ASSUME CallsInv, PairInv, NEW t \in Turns, AppendPrompt(t) \/ ModelTalks(t)
    PROVE  PairInv'
  <1> DEFINE ev == IF at[t] = "prompt" THEN Prompt ELSE Text
             place == IF at[t] = "prompt" THEN "ready" ELSE "done"
             Onward == Goto(t, place) /\ UNCHANGED turnVars
  <1>1. Asked(ev) = {} /\ Answered(ev) = {} BY Sides
  <1>2. AppendEvent(t, ev, Onward) /\ at[t] \in {"prompt", "asking"}
    BY DEF AppendPrompt, ModelTalks
  <1>3. Onward => Moves(t, place, doing[t], got[t]) BY GotoMoves DEF turnVars
  <1>4. place \in {"ready", "done"} OBVIOUS
  <1> HIDE DEF Onward, ev, place
  <1>5. events' = Append(events, ev) BY <1>2 DEF AppendEvent
  <1>6. Fits(ev, calls, events, log) BY <1>1 DEF Fits
  <1>7. ~late /\ Newest(t) => InStep(place, doing[t], got[t], events', log')
    <2> SUFFICES ASSUME ~late, Newest(t)
                 PROVE  InStep(place, doing[t], got[t], events', log')
      OBVIOUS
    <2>1. Dangling(events) = {} BY <1>2 DEF PairInv, InStep
    <2>2. /\ AllAsked(events') = AllAsked(events)
          /\ AllAnswered(events') = AllAnswered(events)
      <3>1. /\ AllAsked(Append(events, ev)) = AllAsked(events) \cup Asked(ev)
            /\ AllAnswered(Append(events, ev)) = AllAnswered(events) \cup Answered(ev)
        BY AppendedSides DEF CallsInv, ListInv
      <3> QED BY <1>1, <1>5, <3>1
    <2> QED BY <1>4, <2>1, <2>2 DEF InStep, Dangling
  <1> QED BY <1>2, <1>3, <1>6, <1>7, AppendPairs

\* The answers are to calls that have none, and are all that dangles.
LEMMA AnswersPairs ==
    ASSUME CallsInv, PairInv, NEW t \in Turns, RepairAppends(t) \/ AppendResults(t)
    PROVE  PairInv'
  <1> DEFINE ev == ResultsEvent(got[t])
             place == IF at[t] = "repairing" THEN "prompt" ELSE "ready"
             x == IF at[t] = "repairing" THEN doing[t] ELSE <<>>
             Repaired == /\ Goto(t, "prompt") /\ got' = [got EXCEPT ![t] = <<>>]
                         /\ UNCHANGED <<doing, tries, stuck, yielded, touched>>
             Resulted == /\ Goto(t, "ready")
                         /\ doing' = [doing EXCEPT ![t] = <<>>]
                         /\ got' = [got EXCEPT ![t] = <<>>]
                         /\ UNCHANGED <<tries, stuck, yielded, touched>>
             Onward == IF at[t] = "repairing" THEN Repaired ELSE Resulted
  <1>1. Asked(ev) = {} /\ Answered(ev) = DOMAIN got[t] BY Sides
  <1>2. /\ at[t] = "repairing" \/ (at[t] = "tools" /\ DOMAIN got[t] = DOMAIN doing[t])
        /\ AppendEvent(t, ev, Onward)
    BY DEF RepairAppends, AppendResults
  <1>3. Onward => Moves(t, place, x, <<>>)
    <2>1. Repaired => Moves(t, "prompt", doing[t], <<>>) BY GotoMoves
    <2>2. Resulted => Moves(t, "ready", <<>>, <<>>) BY GotoMoves
    <2> HIDE DEF Repaired, Resulted
    <2> QED BY <2>1, <2>2
  <1>4. place \in {"prompt", "ready"} OBVIOUS
  <1> HIDE DEF Onward, ev, place, x
  <1>5. events' = Append(events, ev) BY <1>2 DEF AppendEvent
  <1>6. ASSUME ~late, Newest(t)
        PROVE  /\ Fits(ev, calls, events, log)
               /\ Dangling(events) \subseteq Answered(ev)
    <2>1. InStep(at[t], doing[t], got[t], events, log) BY <1>6 DEF PairInv
    <2>2. /\ Answered(ev) \cap (AllAnswered(events) \cup AllAnswered(log)) = {}
          /\ Dangling(events) \subseteq Answered(ev)
      BY <1>1, <1>2, <2>1 DEF InStep
    <2>3. Answered(ev) \subseteq 1..calls BY <1>1 DEF CallsInv, TurnInv
    <2> QED BY <1>1, <2>2, <2>3 DEF Fits
  <1>7. ~late /\ Newest(t) => InStep(place, x, <<>>, events', log')
    <2> SUFFICES ASSUME ~late, Newest(t) PROVE InStep(place, x, <<>>, events', log')
      OBVIOUS
    <2>1. /\ AllAsked(Append(events, ev)) = AllAsked(events) \cup Asked(ev)
          /\ AllAnswered(Append(events, ev)) = AllAnswered(events) \cup Answered(ev)
      BY AppendedSides DEF CallsInv, ListInv
    <2>2. Dangling(events') = {} BY <1>1, <1>5, <1>6, <2>1 DEF Dangling
    <2> QED BY <1>4, <2>2 DEF InStep
  <1>8. at[t] # "new" BY <1>2
  <1> QED BY <1>2, <1>3, <1>6, <1>7, <1>8, AppendPairs

\* The calls are new, so that nothing answers them, and nothing else dangles.
LEMMA ModelCallsPairs ==
    ASSUME CallsInv, PairInv, NEW t \in Turns, ModelCalls(t)
    PROVE  PairInv'
  <1> DEFINE Onward(on) == /\ Goto(t, "tools")
                           /\ doing' = [doing EXCEPT ![t] = on]
                           /\ Yields(t)
                           /\ UNCHANGED <<got, tries, stuck, touched>>
  <1>1. PICK n \in 1..(MaxCalls - calls) : \E on \in [calls+1..calls+n -> Files] :
            AppendEvent(t, CallsEvent(on), Onward(on))
    BY DEF ModelCalls
  <1>2. PICK on \in [calls+1..calls+n -> Files] : AppendEvent(t, CallsEvent(on), Onward(on))
    BY <1>1
  <1> DEFINE ev == CallsEvent(on)
  <1>3. Asked(ev) = DOMAIN on /\ Answered(ev) = {} BY Sides
  <1>4. calls \in Nat /\ DOMAIN on \cap (1..calls) = {} BY DEF CallsInv
  <1>5. Onward(on) => Moves(t, "tools", on, got[t])
    BY DEF Moves, Goto, CallsInv, TurnInv
  <1>6. at[t] = "asking" BY DEF ModelCalls
  <1>7. AppendEvent(t, ev, Onward(on)) BY <1>2
  <1> HIDE DEF ev, Onward
  <1>8. events' = Append(events, ev) /\ log' \in {log, Append(log, ev)}
    BY <1>7 DEF AppendEvent
  <1>9. Fits(ev, calls, events, log) BY <1>3, <1>4 DEF Fits
  <1>10. ~late /\ Newest(t) => InStep("tools", on, got[t], events', log')
    <2> SUFFICES ASSUME ~late, Newest(t) PROVE InStep("tools", on, got[t], events', log')
      OBVIOUS
    <2>1. /\ ListInv(events, calls) /\ ListInv(log, calls)
          /\ ListsPair(events, log) /\ Dangling(events) = {}
      BY <1>6 DEF CallsInv, PairInv, InStep
    <2>2. /\ AllAsked(Append(events, ev)) = AllAsked(events) \cup Asked(ev)
          /\ AllAnswered(Append(events, ev)) = AllAnswered(events) \cup Answered(ev)
          /\ AllAnswered(Append(log, ev)) = AllAnswered(log) \cup Answered(ev)
      BY <2>1, AppendedSides DEF ListInv
    <2>3. AllAnswered(log') \subseteq AllAnswered(log) \cup Answered(ev) BY <1>8, <2>2
    <2>4. AllAnswered(events) \cup AllAnswered(log) \subseteq 1..calls
      BY <2>1, AskedIsIndexed DEF ListInv, CallsUpTo
    <2>5. DOMAIN on \cap (AllAnswered(events') \cup AllAnswered(log')) = {}
      BY <1>3, <1>4, <1>8, <2>2, <2>3, <2>4
    <2>6. Dangling(events') \subseteq DOMAIN on
      BY <1>3, <1>8, <2>1, <2>2 DEF Dangling
    <2> QED BY <2>5, <2>6 DEF InStep
  <1> QED BY <1>5, <1>6, <1>7, <1>9, <1>10, AppendPairs

\* The turns are begun in order, and a turn that begins is the newest.
LEMMA SubmitPairs ==
    ASSUME CallsInv, PairInv, NEW t \in Turns, Submit(t)
    PROVE  PairInv'
  <1> DEFINE n == Cardinality(begun)
  <1>1. n \in Nat /\ begun = 1..n /\ MaxTurns \in Nat
    BY ConversationAssumption DEF PairInv, BegunInOrder
  <1>2. t = n + 1 /\ begun' = begun \cup {t} BY DEF Submit
  <1> HIDE DEF n
  <1>3. begun' = 1..(n + 1) BY <1>1, <1>2
  <1>4. Cardinality(begun') = n + 1
    <2>1. Cardinality(1..(n + 1)) = n + 1 BY <1>1, FS_Interval
    <2> QED BY <1>3, <2>1, Zenon
  <1>5. Moves(t, "hook", doing[t], got[t]) BY GotoMoves DEF Submit, turnVars
  <1>6. BegunInOrder'
    <2>1. Cardinality(begun') \in 0..MaxTurns BY <1>1, <1>2, <1>4 DEF Turns
    <2>2. begun' = 1..Cardinality(begun') BY <1>3, <1>4, Zenon
    <2>3. \A u \in Turns : at'[u] # "new" => u \in begun'
      BY <1>2, <1>5, MovedTurns DEF PairInv, BegunInOrder
    <2> QED BY <2>1, <2>2, <2>3 DEF BegunInOrder
  <1>7. ASSUME NEW u \in Turns, Newest(u)' PROVE at'[u] = "hook"
    <2>1. u = t BY <1>2, <1>4, <1>7 DEF Newest
    <2> QED BY <1>5, <2>1, MovedTurns
  <1>8. UNCHANGED <<late, events, log>> BY DEF Submit, convVars
  <1>9. ASSUME ~late PROVE ListsPair(events', log') BY <1>8, <1>9 DEF PairInv
  <1>10. ASSUME NEW u \in Turns, Newest(u)'
         PROVE  InStep(at'[u], doing'[u], got'[u], events', log')
    BY <1>7, <1>10 DEF InStep
  <1> QED BY <1>6, <1>8, <1>9, <1>10 DEF PairInv

\* What the user does to the conversation.
LEMMA UserPairs ==
    ASSUME CallsInv, PairInv, Escape \/ ClearConversation \/ Compact \/ UNCHANGED vars
    PROVE  PairInv'
  <1>1. UNCHANGED <<at, doing, got, begun, late>>
    BY DEF Escape, ClearConversation, Compact, vars, turnVars, uiVars, convVars
  <1>2. Prunes(events', events) /\ log' \in {log, events'}
    <2>1. CASE Escape \/ UNCHANGED vars
      BY <2>1, SamePrunes DEF Escape, vars, convVars
    <2>2. CASE ClearConversation
      BY <2>2, ClearPrunes DEF ClearConversation, Replace
    <2>3. CASE Compact
      <3>1. KeepRecent < Len(events) /\ IsList(events)
        BY <2>3 DEF Compact, CallsInv, ListInv
      <3> QED BY <2>3, <3>1, CompactPrunes DEF Compact, Replace
    <2> QED BY <2>1, <2>2, <2>3
  <1>3. BegunInOrder' BY <1>1 DEF PairInv, BegunInOrder
  <1>4. ASSUME ~late PROVE ListsPair(events', log')
    BY <1>2, <1>4, PrunedPair DEF PairInv
  <1>5. ASSUME ~late, NEW u \in Turns, Newest(u)
        PROVE  InStep(at[u], doing[u], got[u], events', log')
    <2>1. InStep(at[u], doing[u], got[u], events, log) /\ ListsPair(events, log)
      BY <1>5 DEF PairInv
    <2> QED BY <1>2, <2>1, PrunedPair
  <1>6. \A u \in Turns : Newest(u)' <=> Newest(u) BY <1>1 DEF Newest
  <1> QED BY <1>1, <1>3, <1>4, <1>5, <1>6 DEF PairInv

\* The program ends and the session is read again.
LEMMA RestartPairs ==
    ASSUME CallsInv, PairInv, Restart
    PROVE  PairInv'
  <1>1. /\ events' = log /\ log' = log /\ begun' = begun /\ late' = late
        /\ at' = [t \in Turns |-> IF t \in begun THEN "over" ELSE at[t]]
    BY DEF Restart
  <1>2. \A u \in Turns : at'[u] \in {"over", "new"}
    BY <1>1 DEF PairInv, BegunInOrder
  <1>3. BegunInOrder' BY <1>1 DEF PairInv, BegunInOrder
  <1>4. ASSUME ~late PROVE ListsPair(events', log')
    BY <1>1, <1>4 DEF PairInv, ListsPair
  <1>5. ASSUME NEW u \in Turns PROVE InStep(at'[u], doing'[u], got'[u], events', log')
    BY <1>2 DEF InStep
  <1> QED BY <1>1, <1>3, <1>4, <1>5 DEF PairInv

\* Every step keeps the pairing.
LEMMA NextPairs == CallsInv /\ PairInv /\ [Next]_vars => PairInv'
  <1> SUFFICES ASSUME CallsInv, PairInv, [Next]_vars PROVE PairInv'
    OBVIOUS
  <1>1. ASSUME NEW t \in Turns, Submit(t) \/ TurnBegins(t) \/ TurnGoesOn(t) \/ TurnEnds(t)
        PROVE  PairInv'
    <2>1. CASE AutoCompactNone(t) \/ TurnEnds(t) BY <2>1, IdleSteps
    <2>2. CASE AutoCompactShed(t) \/ AutoCompactSummarize(t) BY <2>2, AutoCompactPairs
    <2>3. CASE RepairReads(t) BY <2>3, RepairReadsPairs
    <2>4. CASE RepairAppends(t) \/ AppendResults(t) BY <2>4, AnswersPairs
    <2>5. CASE AppendPrompt(t) \/ ModelTalks(t) BY <2>5, TextOrPromptPairs
    <2>6. CASE ModelCalls(t) BY <2>6, ModelCallsPairs
    <2>7. CASE \E c \in Calls : ToolReturns(t, c) BY <2>7, ToolReturnsPairs
    <2>8. CASE Ask(t) BY <2>8, AskPairs
    <2>9. CASE Submit(t) BY <2>9, SubmitPairs
    <2> QED
      BY <1>1, <2>1, <2>2, <2>3, <2>4, <2>5, <2>6, <2>7, <2>8, <2>9 DEF TurnBegins, TurnGoesOn
  <1>2. CASE Escape \/ ClearConversation \/ Compact \/ UNCHANGED vars BY <1>2, UserPairs
  <1>3. CASE Restart BY <1>3, RestartPairs
  <1> QED BY <1>1, <1>2, <1>3 DEF Next

\* It holds at the start.
LEMMA InitPairs == Init => PairInv
  <1> SUFFICES ASSUME Init PROVE PairInv
    OBVIOUS
  <1>1. at = [t \in Turns |-> "new"] /\ begun = {} /\ log = events BY DEF Init
  <1>2. Cardinality(begun) = 0 BY <1>1, FS_EmptySet
  <1>3. BegunInOrder BY <1>1, <1>2, ConversationAssumption DEF BegunInOrder
  <1>4. AllAnswered(events) = {}
    <2>1. AnsweredTogether(events) \subseteq {{}}
      <3>1. Range(<<>>) = {} BY DEF Range
      <3>2. events = <<>> => AnsweredTogether(events) = {} BY <3>1 DEF AnsweredTogether
      <3> QED BY <3>2, OldSessionList DEF Init
    <2>2. \A i \in DOMAIN events : Answered(events[i]) \in AnsweredTogether(events)
      BY DEF AnsweredTogether, Range
    <2> QED BY <2>1, <2>2 DEF AllAnswered
  <1>5. OneAnswer(events)
    BY <1>4, AskedIsIndexed DEF OneAnswer, AnswersFollow, AnsweredOnce
  <1>6. ListsPair(events, log) BY <1>1, <1>4, <1>5 DEF ListsPair
  <1>7. \A t \in Turns : InStep(at[t], doing[t], got[t], events, log)
    BY <1>1 DEF InStep
  <1> QED BY <1>3, <1>6, <1>7 DEF PairInv

\* A request goes out when the newest turn is ready: nothing dangles then.
LEMMA PairInvPairs == CallsInv /\ PairInv => CallsAnswered
  <1> SUFFICES ASSUME CallsInv, PairInv, NEW t \in begun, Newest(t), at[t] = "ready", ~late,
                      NEW i \in DOMAIN events, NEW c \in Asked(events[i])
               PROVE  \E j \in i+1..Len(events) :
                         {k \in DOMAIN events : c \in Answered(events[k])} = {j}
    BY DEF CallsAnswered, Paired
  <1>1. t \in Turns BY ConversationAssumption DEF PairInv, BegunInOrder, Turns
  <1>2. OneAnswer(events) /\ Dangling(events) = {} BY <1>1 DEF PairInv, ListsPair, InStep
  <1>3. PICK j \in DOMAIN events : c \in Answered(events[j])
    BY <1>2, AskedIsIndexed DEF Dangling
  <1>4. j > i BY <1>2, <1>3 DEF OneAnswer, AnswersFollow
  <1>5. Len(events) \in Nat /\ DOMAIN events = 1..Len(events)
    BY ListShape DEF CallsInv, ListInv
  <1>6. j \in i+1..Len(events) BY <1>3, <1>4, <1>5
  <1>7. \A k \in DOMAIN events : c \in Answered(events[k]) => k = j
    BY <1>2, <1>3 DEF OneAnswer, AnsweredOnce
  <1> QED BY <1>3, <1>6, <1>7

\* When a request goes out, each call in it has one result, behind it, through
\* interrupted turns, loops, retries, compactions, failed writes, restarts and sessions
\* that were left half-way, unless a turn that was no longer the newest still added to
\* the conversation (dangling_calls.go:17-29).
THEOREM EachCallIsAnswered == Spec => []CallsAnswered
  <1>1. Init => CallsInv /\ PairInv BY InitCalls, InitPairs
  <1>2. CallsInv /\ PairInv /\ [Next]_vars => (CallsInv /\ PairInv)' BY NextCalls, NextPairs
  <1> QED BY <1>1, <1>2, PairInvPairs, PTL DEF Spec
-----------------------------------------------------------------------------
(***************************************************************************)
(* Types.  What the invariants above do not bound already: the events of   *)
(* the two lists, the results in hand, the deduper's record, the counters  *)
(* and what the user interface knows of the turns.  A pointer is well      *)
(* typed only because the file of a call in hand is a file, for which the  *)
(* deduper has a record; a counter, because its guard is behind each step  *)
(* that raises it.                                                         *)
(***************************************************************************)
OnlyEvents(evs) == \A i \in DOMAIN evs : EventOK(evs[i])

HandTypes ==
    \A t \in Turns :
        /\ \A c \in DOMAIN doing[t] : doing[t][c] \in Files
        /\ \A c \in DOMAIN got[t] : got[t][c] \in Results

CounterTypes ==
    /\ tries \in [Turns -> 0..MaxRetries] /\ stuck \in [Turns -> 0..MaxStuck]
    /\ calls \in 0..MaxCalls /\ upsets \in 0..MaxUpsets
    /\ stopped \subseteq begun /\ running \in begun \cup {NoTurn} /\ late \in BOOLEAN

ConvTypes ==
    /\ OnlyEvents(events) /\ OnlyEvents(log)
    /\ seen \in [Files -> Calls \cup {NoCall}]
    /\ HandTypes
    /\ CounterTypes

\* The events that bring no call and no result are events.
LEMMA PlainEvents == EventOK(Prompt) /\ EventOK(Text) /\ EventOK(Summary)
  BY DEF EventOK

\* An event at the end of a list.
LEMMA AppendOnlyEvents ==
    ASSUME NEW evs, IsList(evs), OnlyEvents(evs), NEW ev, EventOK(ev)
    PROVE  OnlyEvents(Append(evs, ev))
  <1>1. evs \in Seq(Range(evs) \cup {ev}) BY ListShape, SeqMonotonic
  <1>2. /\ Len(evs) \in Nat /\ DOMAIN evs = 1..Len(evs) BY ListShape
  <1>3. /\ DOMAIN Append(evs, ev) = 1..Len(evs) + 1
        /\ \A i \in 1..Len(evs) : Append(evs, ev)[i] = evs[i]
        /\ Append(evs, ev)[Len(evs) + 1] = ev
    <2> DEFINE S == Range(evs) \cup {ev}
    <2>1. ev \in S OBVIOUS
    <2> HIDE DEF S
    <2>2. evs \in Seq(S) BY <1>1 DEF S
    <2> QED BY <2>1, <2>2, AppendProperties, LenProperties
  <1> DEFINE new == Append(evs, ev)
  <1> HIDE DEF new
  <1>4. ASSUME NEW i \in DOMAIN new PROVE EventOK(new[i])
    <2>1. i \in 1..Len(evs) \/ i = Len(evs) + 1 BY <1>2, <1>3 DEF new
    <2>2. CASE i \in 1..Len(evs)
      <3>1. new[i] = evs[i] /\ i \in DOMAIN evs BY <1>2, <1>3, <2>2 DEF new
      <3> QED BY <3>1 DEF OnlyEvents
    <2>3. CASE i = Len(evs) + 1
      <3>1. new[i] = ev BY <1>3, <2>3 DEF new
      <3> QED BY <3>1
    <2> QED BY <2>1, <2>2, <2>3
  <1> QED BY <1>4 DEF OnlyEvents, new

\* The back of a list behind prompts and summaries.
LEMMA TailOnlyEvents ==
    ASSUME NEW evs, IsList(evs), OnlyEvents(evs), NEW cut \in 0..Len(evs), NEW front,
           front \in Seq({Prompt, Summary})
    PROVE  OnlyEvents(front \o SubSeq(evs, cut + 1, Len(evs)))
  <1> DEFINE S == {Prompt, Summary}
             new == front \o SubSeq(evs, cut + 1, Len(evs))
             f == Len(front)
             len == Len(evs) - cut
  <1>1. \A ev \in S : EventOK(ev) BY PlainEvents
  <1>2. /\ Len(evs) \in Nat /\ DOMAIN evs = 1..Len(evs) BY ListShape
  <1> HIDE DEF S
  <1>3. \A i \in DOMAIN new :
           \/ i <= f /\ new[i] \in S
           \/ /\ i > f /\ cut + (i - f) \in cut+1..Len(evs)
              /\ new[i] = evs[cut + (i - f)]
    <2>1. front \in Seq(S) BY DEF S
    <2>2. /\ IsList(new) /\ f \in Nat /\ len \in Nat /\ DOMAIN new = 1..(f + len)
          /\ \A i \in DOMAIN new :
                \/ i <= f /\ new[i] \in S
                \/ /\ i > f /\ cut + (i - f) \in cut+1..Len(evs)
                   /\ new[i] = evs[cut + (i - f)]
      BY ZenonT(30), <2>1, TailShape
    <2> QED BY <2>2
  <1>4. cut+1..Len(evs) \subseteq DOMAIN evs BY <1>2
  <1> HIDE DEF new, f
  <1>5. ASSUME NEW i \in DOMAIN new PROVE EventOK(new[i])
    <2>1. CASE new[i] \in S BY <1>1, <2>1
    <2>2. CASE ~(new[i] \in S)
      <3>1. cut + (i - f) \in DOMAIN evs /\ new[i] = evs[cut + (i - f)] BY <1>3, <1>4, <2>2
      <3> QED BY <3>1 DEF OnlyEvents
    <2> QED BY <2>1, <2>2
  <1> QED BY <1>5 DEF OnlyEvents, new

\* A list with superseded results shed.
LEMMA ShedOnlyEvents ==
    ASSUME NEW evs, OnlyEvents(evs), NEW alike
    PROVE  OnlyEvents(Shed(evs, alike))
  <1> SUFFICES ASSUME NEW i \in DOMAIN evs PROVE EventOK(Shed(evs, alike)[i])
    BY DEF OnlyEvents, Shed
  <1>1. EventOK(evs[i]) BY DEF OnlyEvents
  <1>2. CASE evs[i].kind # "results" \/ i > Len(evs) - KeepRecent
    <2>1. Shed(evs, alike)[i] = evs[i] BY <1>2 DEF Shed
    <2> QED BY <1>1, <2>1
  <1>3. CASE ~(evs[i].kind # "results" \/ i > Len(evs) - KeepRecent)
    <2> DEFINE of == [c \in DOMAIN evs[i].of |->
                         IF evs[i].of[c] = Full /\ Superseded(evs, i, c, alike)
                         THEN Stub ELSE evs[i].of[c]]
    <2>1. Shed(evs, alike)[i] = ResultsEvent(of) BY <1>3 DEF Shed
    <2>2. Answered(evs[i]) = DOMAIN evs[i].of BY <1>3 DEF Answered
    <2>3. Answered(evs[i]) \subseteq Calls /\ \A c \in Answered(evs[i]) : evs[i].of[c] \in Results
      BY <1>1, <1>3 DEF EventOK, Prompt, Text, Summary
    <2>4. DOMAIN of \subseteq Calls /\ \A c \in DOMAIN of : of[c] \in Results
      BY <2>2, <2>3 DEF Results
    <2> HIDE DEF of
    <2>5. ResultsEvent(of).kind = "results" /\ ResultsEvent(of).of = of BY DEF ResultsEvent
    <2>6. EventOK(ResultsEvent(of)) BY <2>4, <2>5 DEF EventOK, Answered
    <2> QED BY <2>1, <2>6
  <1> QED BY <1>2, <1>3

\* A step of a turn that appends an event.
LEMMA AppendedEvents ==
    ASSUME CallsInv, ConvTypes, NEW ev, EventOK(ev),
           events' = Append(events, ev), log' \in {log, Append(log, ev)}
    PROVE  OnlyEvents(events') /\ OnlyEvents(log')
  <1>1. IsList(events) /\ IsList(log) BY DEF CallsInv, ListInv
  <1>2. OnlyEvents(Append(events, ev)) /\ OnlyEvents(Append(log, ev))
    BY <1>1, AppendOnlyEvents DEF ConvTypes
  <1> QED BY <1>2 DEF ConvTypes

\* What is in hand makes an event, and so do calls that are new.
LEMMA BatchEvents ==
    ASSUME CallsInv, ConvTypes
    PROVE  /\ \A t \in Turns : EventOK(ResultsEvent(got[t]))
           /\ \A n \in 1..(MaxCalls - calls) : \A on \in [calls+1..calls+n -> Files] :
                 EventOK(CallsEvent(on))
  <1>1. 1..calls \subseteq Calls /\ calls \in Nat /\ MaxCalls \in Nat
    BY ConversationAssumption DEF ConvTypes, CounterTypes, Calls
  <1>2. ASSUME NEW t \in Turns PROVE EventOK(ResultsEvent(got[t]))
    <2>1. Answered(ResultsEvent(got[t])) = DOMAIN got[t] BY Sides
    <2>2. DOMAIN got[t] \subseteq Calls BY <1>1 DEF CallsInv, TurnInv
    <2>3. ResultsEvent(got[t]).kind = "results" /\ ResultsEvent(got[t]).of = got[t]
      BY DEF ResultsEvent
    <2> QED BY <2>1, <2>2, <2>3 DEF EventOK, ConvTypes, HandTypes
  <1>3. ASSUME NEW n \in 1..(MaxCalls - calls), NEW on \in [calls+1..calls+n -> Files]
        PROVE  EventOK(CallsEvent(on))
    <2>1. Asked(CallsEvent(on)) = calls+1..calls+n BY Sides
    <2>2. calls+1..calls+n \subseteq Calls BY <1>1 DEF Calls
    <2>3. CallsEvent(on).kind = "calls" BY DEF CallsEvent
    <2> QED BY <2>1, <2>2, <2>3 DEF EventOK
  <1> QED BY <1>2, <1>3

\* Every step leaves events in the lists.
LEMMA NextEvents ==
    ASSUME CallsInv, ConvTypes, [Next]_vars
    PROVE  OnlyEvents(events') /\ OnlyEvents(log')
  <1> DEFINE Goal == OnlyEvents(events') /\ OnlyEvents(log')
  <1> SUFFICES Goal OBVIOUS
  <1>1. ASSUME UNCHANGED <<events, log>> PROVE Goal BY <1>1 DEF ConvTypes
  <1>2. ASSUME NEW evs, OnlyEvents(evs), events' = evs, log' \in {log, evs} PROVE Goal
    BY <1>2 DEF ConvTypes
  <1>3. ASSUME NEW ev, EventOK(ev), events' = Append(events, ev), log' \in {log, Append(log, ev)}
        PROVE  Goal
    BY <1>3, AppendedEvents
  <1>4. IsList(events) BY DEF CallsInv, ListInv
  <1>5. OnlyEvents(events) /\ OnlyEvents(log) BY DEF ConvTypes
  <1> HIDE DEF Goal
  <1>6. ASSUME NEW t \in Turns, TurnBegins(t) PROVE Goal
    <2>1. CASE AutoCompactNone(t) \/ RepairReads(t)
      BY <2>1, <1>1 DEF AutoCompactNone, RepairReads, convVars
    <2>2. CASE AutoCompactShed(t)
      <3>1. PICK alike \in BOOLEAN : Replace(Shed(events, alike), 0) BY <2>2 DEF AutoCompactShed
      <3> DEFINE shed == Shed(events, alike)
      <3>2. OnlyEvents(shed) BY <1>5, ShedOnlyEvents
      <3> HIDE DEF shed
      <3>3. events' = shed /\ log' \in {log, shed} BY <3>1 DEF Replace, shed
      <3> QED BY <1>2, <3>2, <3>3
    <2>3. CASE AutoCompactSummarize(t)
      <3> DEFINE cut == CleanBoundary(events, Len(events) - KeepRecent)
                 rebuilt == Summarized(events, cut)
      <3>1. cut \in 0..Len(events) BY <1>4, <2>3, CutIsClean DEF AutoCompactSummarize
      <3>2. events' = rebuilt /\ log' \in {log, rebuilt} BY <2>3 DEF AutoCompactSummarize
      <3> HIDE DEF cut
      <3>3. PICK front \in Seq({Prompt, Summary}) :
               rebuilt = front \o SubSeq(events, cut + 1, Len(events))
        BY <1>4, <3>1, SummarizedFront
      <3> HIDE DEF rebuilt
      <3>4. OnlyEvents(front \o SubSeq(events, cut + 1, Len(events)))
        BY <1>4, <1>5, <3>1, TailOnlyEvents
      <3> QED BY <1>2, <3>2, <3>3, <3>4
    <2>4. CASE RepairAppends(t) BY <2>4, <1>3, BatchEvents DEF RepairAppends, AppendEvent
    <2>5. CASE AppendPrompt(t) BY <2>5, <1>3, PlainEvents DEF AppendPrompt, AppendEvent
    <2> QED BY <1>6, <2>1, <2>2, <2>3, <2>4, <2>5 DEF TurnBegins
  <1>7. ASSUME NEW t \in Turns, TurnGoesOn(t) PROVE Goal
    <2>1. CASE Ask(t) \/ \E c \in Calls : ToolReturns(t, c)
      BY <2>1, <1>1 DEF Ask, ToolReturns, convVars
    <2>2. CASE ModelTalks(t) BY <2>2, <1>3, PlainEvents DEF ModelTalks, AppendEvent
    <2>3. CASE ModelCalls(t)
      <3>1. PICK n \in 1..(MaxCalls - calls) : \E on \in [calls+1..calls+n -> Files] :
               /\ events' = Append(events, CallsEvent(on))
               /\ log' \in {log, Append(log, CallsEvent(on))}
        BY <2>3 DEF ModelCalls, AppendEvent
      <3>4. PICK on \in [calls+1..calls+n -> Files] :
               /\ events' = Append(events, CallsEvent(on))
               /\ log' \in {log, Append(log, CallsEvent(on))}
        BY <3>1
      <3>2. EventOK(CallsEvent(on)) BY BatchEvents
      <3> QED BY <1>3, <3>4, <3>2
    <2>4. CASE AppendResults(t) BY <2>4, <1>3, BatchEvents DEF AppendResults, AppendEvent
    <2> QED BY <1>7, <2>1, <2>2, <2>3, <2>4 DEF TurnGoesOn
  <1>8. ASSUME NEW t \in Turns, Submit(t) \/ TurnEnds(t) PROVE Goal
    BY <1>1, <1>8 DEF Submit, TurnEnds, Retry, RetryBegins, StuckRecovers, StuckGivesUp, Fails,
                      Canceled, TurnDone, convVars
  <1>9. CASE ClearConversation
    <2>1. OnlyEvents(<<>>) BY DEF OnlyEvents
    <2> QED BY <1>2, <1>9, <2>1 DEF ClearConversation, Replace
  <1>10. CASE Compact
    <2> DEFINE cut == Len(events) - KeepRecent
               kept == <<Summary>> \o SubSeq(events, cut + 1, Len(events))
    <2>1. cut \in 0..Len(events)
      BY <1>4, <1>10, ListShape, ConversationAssumption DEF Compact
    <2>2. <<Summary>> \in Seq({Prompt, Summary}) OBVIOUS
    <2>3. events' = kept /\ log' \in {log, kept} BY <1>10 DEF Compact, Replace
    <2> HIDE DEF cut
    <2>4. OnlyEvents(kept) BY <1>4, <1>5, <2>1, <2>2, TailOnlyEvents
    <2> HIDE DEF kept
    <2> QED BY <1>2, <2>3, <2>4
  <1>11. CASE Restart BY <1>5, <1>11 DEF Restart, Goal
  <1>12. CASE Escape \/ UNCHANGED vars BY <1>1, <1>12 DEF Escape, vars, convVars
  <1> QED BY <1>6, <1>7, <1>8, <1>9, <1>10, <1>11, <1>12 DEF Next

\* Every step leaves files and results in hand.
LEMMA NextHands ==
    ASSUME CallsInv, ConvTypes, [Next]_vars
    PROVE  HandTypes' /\ seen' \in [Files -> Calls \cup {NoCall}]
  <1> DEFINE Kept == UNCHANGED <<doing, got>>
             Record == seen' \in [Files -> Calls \cup {NoCall}]
             FilesOf(x) == \A c \in DOMAIN x : x[c] \in Files
             ResultsOf(y) == \A c \in DOMAIN y : y[c] \in Results
  <1>1. /\ \A t \in Turns : FilesOf(doing[t]) /\ ResultsOf(got[t])
        /\ doing = [t \in Turns |-> doing[t]] /\ got = [t \in Turns |-> got[t]]
        /\ seen \in [Files -> Calls \cup {NoCall}]
    BY DEF ConvTypes, HandTypes, CallsInv, TurnInv
  <1>2. FilesOf(<<>>) /\ ResultsOf(<<>>) OBVIOUS
  <1>3. ASSUME \A t \in Turns : FilesOf(doing'[t]) /\ ResultsOf(got'[t]) PROVE HandTypes'
    BY <1>3 DEF HandTypes
  <1> HIDE DEF FilesOf, ResultsOf
  <1>4. Kept => HandTypes' BY <1>1, <1>3
  <1>5. ASSUME NEW t \in Turns, NEW x, doing' = [doing EXCEPT ![t] = x], FilesOf(x), UNCHANGED got
        PROVE  HandTypes'
    BY <1>1, <1>3, <1>5
  <1>6. ASSUME NEW t \in Turns, NEW y, got' = [got EXCEPT ![t] = y], ResultsOf(y), UNCHANGED doing
        PROVE  HandTypes'
    BY <1>1, <1>3, <1>6
  <1>7. ASSUME NEW S, Forget(S) PROVE HandTypes'
    <2>1. ASSUME NEW t \in Turns PROVE FilesOf(doing'[t]) /\ ResultsOf(got'[t])
      <3>1. CASE t \in S BY <1>2, <1>7, <3>1 DEF Forget
      <3>2. CASE t \notin S BY <1>1, <1>7, <3>2 DEF Forget
      <3> QED BY <3>1, <3>2
    <2> QED BY <1>3, <2>1
  <1>8. ASSUME NEW t \in Turns, Over(t) PROVE HandTypes' BY <1>7, <1>8 DEF Over
  <1>9. UNCHANGED seen => Record BY <1>1
  <1>10. [f \in Files |-> NoCall] \in [Files -> Calls \cup {NoCall}] OBVIOUS
  <1> HIDE DEF Kept, Record
  <1> SUFFICES HandTypes' /\ Record BY DEF Record
  <1>11. ASSUME NEW t \in Turns, TurnBegins(t) PROVE HandTypes' /\ Record
    <2>1. CASE AutoCompactNone(t) \/ AutoCompactShed(t)
      BY <1>4, <1>9, <2>1 DEF AutoCompactNone, AutoCompactShed, turnVars, Kept
    <2>2. CASE AutoCompactSummarize(t)
      <3>1. Kept BY <2>2 DEF AutoCompactSummarize, turnVars, Kept
      <3>2. UNCHANGED seen \/ seen' = [f \in Files |-> NoCall] BY <2>2 DEF AutoCompactSummarize
      <3> QED BY <1>4, <1>9, <1>10, <3>1, <3>2 DEF Record
    <2>3. CASE RepairReads(t)
      <3> DEFINE y == [c \in Dangling(events) |-> Error]
      <3>1. ResultsOf(y) BY DEF ResultsOf, Results
      <3> HIDE DEF y
      <3>2. UNCHANGED doing /\ (UNCHANGED got \/ got' = [got EXCEPT ![t] = y]) /\ UNCHANGED seen
        BY <2>3 DEF RepairReads, y
      <3> QED BY <1>4, <1>6, <1>9, <3>1, <3>2 DEF Kept
    <2>4. CASE RepairAppends(t)
      <3>1. Over(t) \/ (UNCHANGED doing /\ got' = [got EXCEPT ![t] = <<>>])
        BY <2>4 DEF RepairAppends, AppendEvent
      <3>2. UNCHANGED seen BY <2>4 DEF RepairAppends
      <3> QED BY <1>2, <1>6, <1>8, <1>9, <3>1, <3>2
    <2>5. CASE AppendPrompt(t)
      <3>1. Over(t) \/ Kept BY <2>5 DEF AppendPrompt, AppendEvent, turnVars, Kept
      <3>2. UNCHANGED seen BY <2>5 DEF AppendPrompt
      <3> QED BY <1>4, <1>8, <1>9, <3>1, <3>2
    <2> QED BY <1>11, <2>1, <2>2, <2>3, <2>4, <2>5 DEF TurnBegins
  <1>12. ASSUME NEW t \in Turns, NEW c \in Calls, ToolReturns(t, c) PROVE HandTypes' /\ Record
    <2> DEFINE f == doing[t][c]
               y(r) == [d \in DOMAIN got[t] \cup {c} |-> IF d = c THEN r ELSE got[t][d]]
    <2>1. f \in Files BY <1>1, <1>12 DEF ToolReturns, FilesOf
    <2>2. ASSUME NEW r \in Results PROVE ResultsOf(y(r)) BY <1>1 DEF ResultsOf
    <2>3. /\ UNCHANGED doing
          /\ \/ got' = [got EXCEPT ![t] = y(Error)] /\ UNCHANGED seen
             \/ /\ seen[f] # NoCall /\ UNCHANGED seen
                /\ got' = [got EXCEPT ![t] = y(Pointer(seen[f]))]
             \/ got' = [got EXCEPT ![t] = y(Full)] /\ seen' = [seen EXCEPT ![f] = c]
      BY <1>1, <1>12 DEF ToolReturns
    <2>4. seen[f] # NoCall => seen[f] \in Calls BY <1>1, <2>1
    <2> HIDE DEF y, f
    <2>5. Error \in Results /\ Full \in Results /\ (seen[f] # NoCall => Pointer(seen[f]) \in Results)
      BY <2>4 DEF Results
    <2>6. seen' = [seen EXCEPT ![f] = c] => Record BY <1>1 DEF Record
    <2>7. \E r \in Results : got' = [got EXCEPT ![t] = y(r)] BY <2>3, <2>5
    <2>8. HandTypes' BY <1>6, <2>2, <2>3, <2>7
    <2> QED BY <1>9, <2>3, <2>6, <2>8
  <1>13. ASSUME NEW t \in Turns, TurnGoesOn(t) PROVE HandTypes' /\ Record
    <2>1. CASE Ask(t) BY <1>4, <1>9, <2>1 DEF Ask, turnVars, Kept
    <2>2. CASE ModelTalks(t)
      <3>1. Over(t) \/ Kept BY <2>2 DEF ModelTalks, AppendEvent, turnVars, Kept
      <3>2. UNCHANGED seen BY <2>2 DEF ModelTalks
      <3> QED BY <1>4, <1>8, <1>9, <3>1, <3>2
    <2>3. CASE ModelCalls(t)
      <3>1. PICK n \in 1..(MaxCalls - calls) : \E on \in [calls+1..calls+n -> Files] :
               Over(t) \/ (doing' = [doing EXCEPT ![t] = on] /\ UNCHANGED got)
        BY <2>3 DEF ModelCalls, AppendEvent
      <3>4. PICK on \in [calls+1..calls+n -> Files] :
               Over(t) \/ (doing' = [doing EXCEPT ![t] = on] /\ UNCHANGED got)
        BY <3>1
      <3>2. FilesOf(on) BY DEF FilesOf
      <3>3. UNCHANGED seen BY <2>3 DEF ModelCalls
      <3> QED BY <1>5, <1>8, <1>9, <3>4, <3>2, <3>3
    <2>4. CASE AppendResults(t)
      <3>1. \/ Over(t)
            \/ doing' = [doing EXCEPT ![t] = <<>>] /\ got' = [got EXCEPT ![t] = <<>>]
        BY <2>4 DEF AppendResults, AppendEvent
      <3>2. ASSUME doing' = [doing EXCEPT ![t] = <<>>], got' = [got EXCEPT ![t] = <<>>]
            PROVE  HandTypes'
        BY <1>1, <1>2, <1>3, <3>2
      <3>3. UNCHANGED seen BY <2>4 DEF AppendResults
      <3> QED BY <1>8, <1>9, <3>1, <3>2, <3>3
    <2> QED BY <1>12, <1>13, <2>1, <2>2, <2>3, <2>4 DEF TurnGoesOn
  <1>14. ASSUME NEW t \in Turns, Submit(t) \/ TurnEnds(t) PROVE HandTypes' /\ Record
    <2>1. UNCHANGED seen
      BY <1>14 DEF Submit, TurnEnds, Retry, RetryBegins, StuckRecovers, StuckGivesUp, Fails,
                   Canceled, TurnDone
    <2>2. \/ Kept \/ Over(t)
          \/ doing' = [doing EXCEPT ![t] = <<>>] /\ UNCHANGED got
      BY <1>14 DEF Submit, TurnEnds, Retry, RetryBegins, StuckRecovers, StuckGivesUp, Fails,
                   Canceled, TurnDone, turnVars, Kept
    <2> QED BY <1>2, <1>4, <1>5, <1>8, <1>9, <2>1, <2>2
  <1>15. CASE Escape \/ ClearConversation \/ Compact \/ UNCHANGED vars
    BY <1>4, <1>9, <1>15 DEF Escape, ClearConversation, Compact, vars, turnVars, Kept
  <1>16. CASE Restart BY <1>7, <1>10, <1>16 DEF Restart, Record
  <1> QED BY <1>11, <1>13, <1>14, <1>15, <1>16 DEF Next

\* Every step leaves the counters in their bounds.
LEMMA NextCounters ==
    ASSUME RetryInv, ConvTypes, [Next]_vars
    PROVE  CounterTypes'
  <1> DEFINE Ui == stopped' \subseteq begun' /\ running' \in begun' \cup {NoTurn}
             Counts == /\ tries' \in [Turns -> 0..MaxRetries]
                       /\ stuck' \in [Turns -> 0..MaxStuck]
             Rest == calls' \in 0..MaxCalls /\ upsets' \in 0..MaxUpsets /\ late' \in BOOLEAN
  <1> USE DEF CounterTypes
  <1>1. /\ tries \in [Turns -> 0..MaxRetries] /\ stuck \in [Turns -> 0..MaxStuck]
        /\ stopped \subseteq begun /\ running \in begun \cup {NoTurn}
        /\ calls \in 0..MaxCalls /\ upsets \in 0..MaxUpsets /\ late \in BOOLEAN
        /\ MaxRetries \in Nat /\ MaxStuck \in Nat /\ MaxCalls \in Nat /\ MaxUpsets \in Nat
    BY ConversationAssumption DEF ConvTypes
  <1>2. UNCHANGED <<tries, stuck>> => Counts BY <1>1
  <1>3. UNCHANGED uiVars => Ui BY <1>1 DEF uiVars
  <1>4. ASSUME NEW S, Forget(S) PROVE Counts BY <1>1, <1>4 DEF Forget
  <1>5. ASSUME NEW t \in Turns, Over(t) PROVE Counts /\ Ui BY <1>1, <1>4, <1>5 DEF Over
  <1>6. ASSUME NEW n \in {0, 1, 2}, Upset(n) PROVE upsets' \in 0..MaxUpsets
    BY <1>1, <1>6 DEF Upset
  <1>7. UNCHANGED <<calls, late>> /\ upsets' \in 0..MaxUpsets => Rest BY <1>1
  <1>8. ASSUME NEW t \in Turns, Lateness(t),
               \/ UNCHANGED <<upsets, uiVars, tries, stuck>>
               \/ Upset(1) /\ Over(t)
        PROVE  Ui /\ Counts /\ upsets' \in 0..MaxUpsets /\ late' \in BOOLEAN
    <2>1. late' \in BOOLEAN BY <1>8 DEF Lateness
    <2> HIDE DEF Ui, Counts
    <2> QED BY <1>1, <1>2, <1>3, <1>5, <1>6, <1>8, <2>1
  <1>9. ASSUME NEW evs, NEW n \in {0, 1}, Replace(evs, n) PROVE upsets' \in 0..MaxUpsets
    BY <1>6, <1>9 DEF Replace
  <1>10. calls' \in 0..MaxCalls /\ upsets' \in 0..MaxUpsets /\ late' \in BOOLEAN => Rest
    OBVIOUS
  <1> SUFFICES Ui /\ Counts /\ Rest OBVIOUS
  <1> HIDE DEF Ui, Counts, Rest, CounterTypes
  <1>11. ASSUME NEW t \in Turns, TurnBegins(t) PROVE Ui /\ Counts /\ Rest
    <2>1. CASE AutoCompactNone(t) \/ RepairReads(t)
      BY <1>1, <1>2, <1>3, <1>7, <2>1 DEF AutoCompactNone, RepairReads, turnVars
    <2>2. CASE AutoCompactShed(t) \/ AutoCompactSummarize(t)
      <3>1. upsets' \in 0..MaxUpsets
        BY <1>1, <1>6, <1>9, <2>2 DEF AutoCompactShed, AutoCompactSummarize
      <3> QED
        BY <1>2, <1>3, <1>7, <2>2, <3>1 DEF AutoCompactShed, AutoCompactSummarize, turnVars
    <2>3. CASE RepairAppends(t) \/ AppendPrompt(t)
      <3>1. /\ Lateness(t) /\ UNCHANGED calls
            /\ \/ UNCHANGED <<upsets, uiVars, tries, stuck>>
               \/ Upset(1) /\ Over(t)
        BY <2>3 DEF RepairAppends, AppendPrompt, AppendEvent, turnVars
      <3> QED BY <1>1, <1>8, <1>10, <3>1
    <2> QED BY <1>11, <2>1, <2>2, <2>3 DEF TurnBegins
  <1>12. ASSUME NEW t \in Turns, TurnGoesOn(t) PROVE Ui /\ Counts /\ Rest
    <2>1. CASE Ask(t) \/ \E c \in Calls : ToolReturns(t, c)
      BY <1>1, <1>2, <1>3, <1>7, <2>1 DEF Ask, ToolReturns, turnVars
    <2>2. CASE ModelTalks(t) \/ AppendResults(t)
      <3>1. /\ Lateness(t) /\ UNCHANGED calls
            /\ \/ UNCHANGED <<upsets, uiVars, tries, stuck>>
               \/ Upset(1) /\ Over(t)
        BY <2>2 DEF ModelTalks, AppendResults, AppendEvent, turnVars
      <3> QED BY <1>1, <1>8, <1>10, <3>1
    <2>3. CASE ModelCalls(t)
      <3>1. PICK n \in 1..(MaxCalls - calls) : calls' = calls + n BY <2>3 DEF ModelCalls
      <3>2. calls' \in 0..MaxCalls BY <1>1, <3>1
      <3>3. /\ Lateness(t)
            /\ \/ UNCHANGED <<upsets, uiVars, tries, stuck>>
               \/ Upset(1) /\ Over(t)
        BY <2>3 DEF ModelCalls, AppendEvent
      <3> QED BY <1>8, <1>10, <3>2, <3>3
    <2> QED BY <1>12, <2>1, <2>2, <2>3 DEF TurnGoesOn
  <1>13. ASSUME NEW t \in Turns, TurnEnds(t) PROVE Ui /\ Counts /\ Rest
    <2>1. CASE RetryBegins(t)
      BY <1>1, <1>2, <1>3, <1>7, <2>1 DEF RetryBegins, turnVars
    <2>2. CASE Retry(t)
      <3>1. tries[t] < MaxRetries /\ tries' = [tries EXCEPT ![t] = @ + 1] /\ UNCHANGED stuck
        BY <2>2 DEF Retry
      <3>2. tries[t] + 1 \in 0..MaxRetries BY <1>1, <3>1
      <3>3. Counts BY <1>1, <3>1, <3>2 DEF Counts
      <3> QED BY <1>3, <1>6, <1>7, <2>2, <3>3 DEF Retry
    <2>3. CASE StuckRecovers(t)
      <3>1. /\ stuck[t] < MaxStuck /\ stuck' = [stuck EXCEPT ![t] = @ + 1]
            /\ tries' = [tries EXCEPT ![t] = 0]
        BY <2>3 DEF StuckRecovers
      <3>2. stuck[t] + 1 \in 0..MaxStuck /\ 0 \in 0..MaxRetries BY <1>1, <3>1
      <3>3. Counts BY <1>1, <3>1, <3>2 DEF Counts
      <3> QED BY <1>3, <1>6, <1>7, <2>3, <3>3 DEF StuckRecovers
    <2>4. CASE StuckGivesUp(t) \/ Fails(t) \/ Canceled(t) \/ TurnDone(t)
      BY <1>1, <1>5, <1>7, <2>4 DEF StuckGivesUp, Fails, Canceled, TurnDone
    <2> QED BY <1>13, <2>1, <2>2, <2>3, <2>4 DEF TurnEnds
  <1>14. ASSUME NEW t \in Turns, Submit(t) PROVE Ui /\ Counts /\ Rest
    <2>1. Ui BY <1>1, <1>14 DEF Submit, Ui
    <2> QED BY <1>1, <1>2, <1>7, <1>14, <2>1 DEF Submit, turnVars
  <1>15. CASE Escape
    <2>1. Ui BY <1>1, <1>15 DEF Escape, Ui
    <2> QED BY <1>2, <1>6, <1>7, <1>15, <2>1 DEF Escape, turnVars
  <1>16. CASE ClearConversation
    <2>1. Ui BY <1>1, <1>16 DEF ClearConversation, Ui
    <2> QED BY <1>2, <1>7, <1>9, <1>16, <2>1 DEF ClearConversation, turnVars
  <1>17. CASE Compact BY <1>2, <1>3, <1>7, <1>9, <1>17 DEF Compact, turnVars
  <1>18. CASE Restart
    <2>1. Ui BY <1>1, <1>18 DEF Restart, Ui
    <2> QED BY <1>4, <1>6, <1>7, <1>18, <2>1 DEF Restart
  <1>19. CASE UNCHANGED vars BY <1>1, <1>2, <1>3, <1>7, <1>19 DEF vars, turnVars
  <1> QED BY <1>11, <1>12, <1>13, <1>14, <1>15, <1>16, <1>17, <1>18, <1>19 DEF Next

\* The types hold at the start.
LEMMA InitConvTypes == Init => ConvTypes
  <1> SUFFICES ASSUME Init PROVE ConvTypes
    OBVIOUS
  <1>1. OnlyEvents(events)
    <2>1. CASE events = <<>> BY <2>1 DEF OnlyEvents
    <2>2. ASSUME NEW f \in Files, MaxCalls > 0, events = OldSession(f) PROVE OnlyEvents(events)
      <3> DEFINE e == CallsEvent([c \in {1} |-> f])
      <3>1. 1 \in Calls BY <2>2, ConversationAssumption DEF Calls
      <3>2. EventOK(e) BY <3>1, Sides DEF EventOK, CallsEvent
      <3>3. events = <<Prompt, e, Prompt, Text>> BY <2>2 DEF OldSession
      <3> HIDE DEF e
      <3> QED BY <3>2, <3>3, PlainEvents DEF OnlyEvents
    <2> QED BY <2>1, <2>2 DEF Init
  <1>2. OnlyEvents(log) BY <1>1 DEF Init
  <1>3. seen \in [Files -> Calls \cup {NoCall}] BY DEF Init
  <1>4. HandTypes BY DEF Init, HandTypes
  <1>5. CounterTypes
    <2>1. calls \in 0..MaxCalls BY ConversationAssumption DEF Init
    <2>2. tries \in [Turns -> 0..MaxRetries] /\ stuck \in [Turns -> 0..MaxStuck]
      BY ConversationAssumption DEF Init
    <2>3. upsets \in 0..MaxUpsets BY ConversationAssumption DEF Init
    <2>4. stopped = {} /\ begun = {} /\ running = NoTurn /\ late = FALSE BY DEF Init
    <2> QED BY <2>1, <2>2, <2>3, <2>4 DEF CounterTypes
  <1> QED BY <1>1, <1>2, <1>3, <1>4, <1>5 DEF ConvTypes

\* Together with what the other invariants bound, these are the types.
LEMMA ConvTypesType == RetryInv /\ CallsInv /\ BegunInOrder /\ ConvTypes => TypeOK
  <1> SUFFICES ASSUME RetryInv, CallsInv, BegunInOrder, ConvTypes PROVE TypeOK
    OBVIOUS
  <1>1. 1..calls \subseteq Calls
    BY ConversationAssumption DEF ConvTypes, CounterTypes, Calls
  <1>2. \A t \in Turns : DOMAIN got[t] \cup DOMAIN doing[t] \subseteq Calls
    BY <1>1 DEF CallsInv, TurnInv
  <1>3. at \in [Turns -> Places] /\ yielded \subseteq begun /\ touched \subseteq begun
    BY DEF RetryInv
  <1>4. begun = 1..Cardinality(begun) BY DEF BegunInOrder
  <1> QED BY <1>2, <1>3, <1>4 DEF TypeOK, ConvTypes, OnlyEvents, CounterTypes

(***************************************************************************)
(* Type correctness: the lists hold events, a result in hand is one, a     *)
(* pointer points at a call, the turns are begun in order, and no counter  *)
(* of retries, recoveries, calls or upsets passes its bound.               *)
(***************************************************************************)
THEOREM TypeCorrect == Spec => []TypeOK
<1> DEFINE Inv == RetryInv /\ CallsInv /\ PairInv /\ ConvTypes
<1>1. Init => Inv
  <2>1. Init => RetryInv BY DEF Init, RetryInv, Places
  <2> QED BY <2>1, InitCalls, InitPairs, InitConvTypes
<1>2. Inv /\ [Next]_vars => Inv'
  <2> SUFFICES ASSUME Inv, [Next]_vars PROVE Inv'
    OBVIOUS
  <2>1. RetryInv' /\ CallsInv' /\ PairInv' BY NextRetry, NextCalls, NextPairs
  <2>2. ConvTypes'
    BY NextEvents, NextHands, NextCounters DEF ConvTypes, OnlyEvents, EventOK
  <2> QED BY <2>1, <2>2
<1>3. Inv => TypeOK BY ConvTypesType DEF PairInv
<1> HIDE DEF Inv
<1>4. QED BY <1>1, <1>2, <1>3, PTL DEF Spec
=============================================================================
