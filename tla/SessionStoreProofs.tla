-------------------------- MODULE SessionStoreProofs --------------------------
(***************************************************************************)
(* What is proved about the session store, for any sessions and branches,  *)
(* any size of the cache and any number of events.                         *)
(*                                                                         *)
(* Structure is inductive whatever SwitchWhole is: where the operation     *)
(* that holds the lock can be, what the cache holds, that every list of    *)
(* lines is in order and only the log can be torn, that the active branch  *)
(* is registered.  History needs SwitchWhole.  It says of every branch on  *)
(* disk, and of the active one in memory, that it has what it owes and     *)
(* nothing of another branch, and of the operation under way that what it  *)
(* is about to acknowledge, register or leave is already there.            *)
(***************************************************************************)
EXTENDS SessionStore, FiniteSetTheorems, SequenceTheorems, WellFoundedInduction, TLAPS

-----------------------------------------------------------------------------
(***************************************************************************)
(* The structure: what holds whether or not a switch gets through.         *)
(***************************************************************************)

\* Lines in their order, none of them later than the clock.
Fine(lines, n) ==
    /\ lines \in Seq(Lines)
    /\ Ascending(lines)
    /\ \A i \in DOMAIN lines : lines[i] <= n

\* The times a session goes by, in memory and on disk.
Stamps(s) == {metaTime[s], when[s]} \ {0}

HasSession == {"created", "appending", "logged", "stamped", "got"}
HasBranch == {"forked", "saved", "rewritten"}

\* Where an operation is, it has a session that exists, and the branch it is for.
OpInv ==
    /\ op = Idle \/ op \in [at : HasSession, s : Sessions]
                 \/ op \in [at : HasBranch, s : Sessions, b : Branches]
    /\ op.at # "idle" => metaTime[op.s] > 0
    /\ op.at \in {"appending", "logged", "stamped"} =>
          /\ op.s \in cached /\ mem[op.s] # <<>>
          /\ Last(mem[op.s]) = clock /\ when[op.s] = clock
    /\ op.at = "appending" => Fine(log[op.s], clock - 1)
    /\ op.at = "forked" => op.b \notin Registered(op.s)
    /\ op.at \in {"saved", "rewritten"} =>
          op.b \in Registered(op.s) /\ op.b # Active(op.s)

\* The cache holds sessions that exist, and nothing of the others; two sessions
\* never have the same time, so that eviction finds an oldest one.
CacheInv ==
    /\ \A s \in Sessions :
          IF s \in cached THEN metaTime[s] > 0 /\ when[s] > 0 ELSE mem[s] = <<>> /\ when[s] = 0
    /\ \A s \in Sessions : \A n \in Stamps(s) : n <= clock
    /\ \A r, s \in Sessions : r # s => Stamps(r) \cap Stamps(s) = {}

\* It has no metadata yet, or no file of events.
Unborn(s) == metaTime[s] = 0 \/ (op.at = "created" /\ op.s = s)

\* Every list of lines is fine, and only the log can hold a line that is no event.
LinesInv ==
    \A s \in Sessions :
        /\ Fine(log[s], clock) /\ Fine(mem[s], clock) /\ Readable(mem[s])
        /\ torn[s] => ~Readable(log[s]) /\ ~Unborn(s)
        /\ \A b \in Branches : Fine(files[s][b], clock) /\ Readable(files[s][b])

HeadsInv ==
    \A s \in Sessions :
        /\ Active(s) \in Registered(s)
        /\ \A b \in Registered(s) : table[s].head[b] \in Nat

-----------------------------------------------------------------------------
(***************************************************************************)
(* The history, when a switch that has replaced events gets through.       *)
(***************************************************************************)
\* Who has no file yet, or no branch yet, is owed nothing.
NothingYet ==
    \A s \in Sessions : \A b \in Branches :
        Unborn(s) \/ b \notin Registered(s) => owed[s][b] = {}

\* What the operation has still to do is not lost: the event to acknowledge is in the
\* log, the branch that is left is saved, and a fork has events of the one it forks.
UnderWay ==
    /\ op.at \in {"appending", "logged", "stamped"} => clock \in mine[op.s][Active(op.s)]
    /\ op.at \in {"logged", "stamped"} /\ Readable(log[op.s]) => clock \in EventsOf(log[op.s])
    /\ op.at = "forked" => EventsOf(files[op.s][op.b]) \subseteq mine[op.s][Active(op.s)]
    /\ op.at \in {"saved", "rewritten"} =>
          /\ owed[op.s][Active(op.s)] \subseteq EventsOf(files[op.s][Active(op.s)])
          /\ EventsOf(files[op.s][Active(op.s)]) \subseteq mine[op.s][Active(op.s)]
-----------------------------------------------------------------------------
(***************************************************************************)
(* Lists of lines.                                                         *)
(***************************************************************************)
LEMMA LinesAre ==
    /\ MaxClock \in Nat /\ -1 \in Lines /\ 0 \in Lines
    /\ \A e : e \in Lines <=> e \in Int /\ -1 <= e /\ e <= MaxClock
  BY StoreAssumption DEF Lines, Bad, Summary

\* What is in a list of lines.
LEMMA ListSet ==
    ASSUME NEW lines \in Seq(Lines)
    PROVE  /\ Len(lines) \in Nat /\ DOMAIN lines = 1..Len(lines)
           /\ \A i \in 1..Len(lines) : lines[i] \in Lines
           /\ \A e : e \in ToSet(lines) <=> \E i \in 1..Len(lines) : lines[i] = e
  BY DEF ToSet

\* The empty list is as it should be.
LEMMA NoLines ==
    ASSUME NEW n \in Nat
    PROVE  Fine(<<>>, n) /\ Readable(<<>>) /\ ToSet(<<>>) = {} /\ EventsOf(<<>>) = {}
  BY DEF Fine, Ascending, Readable, EventsOf, ToSet

\* A fine list stays so as the clock goes on.
LEMMA FineGrows ==
    ASSUME NEW m \in Int, NEW n \in Int, m <= n, NEW lines, Fine(lines, m)
    PROVE  Fine(lines, n)
  <1>1. lines \in Seq(Lines) BY DEF Fine
  <1>2. \A i \in DOMAIN lines : lines[i] \in Int BY <1>1, ListSet, LinesAre
  <1> QED BY <1>2 DEF Fine

\* A line that is not later than any other goes to the end, and so does one that is none.
LEMMA LineAdded ==
    ASSUME NEW n \in Int, NEW lines, Fine(lines, n), NEW e \in Lines, e = n + 1 \/ e = Bad, n >= -1
    PROVE  /\ Fine(Append(lines, e), n + 1)
           /\ Append(lines, e) # <<>> /\ Last(Append(lines, e)) = e
           /\ ToSet(Append(lines, e)) = ToSet(lines) \cup {e}
  <1> DEFINE more == Append(lines, e)
  <1>1. lines \in Seq(Lines) BY DEF Fine
  <1>2. Len(lines) \in Nat /\ DOMAIN lines = 1..Len(lines) BY <1>1
  <1>3. /\ more \in Seq(Lines) /\ Len(more) = Len(lines) + 1
        /\ \A i \in 1..Len(lines) : more[i] = lines[i]
        /\ more[Len(lines) + 1] = e
    BY <1>1
  <1>4. DOMAIN more = 1..(Len(lines) + 1) BY <1>3
  <1>5. \A i \in 1..Len(lines) : lines[i] \in Int /\ lines[i] <= n
    BY <1>1, <1>2, LinesAre, ListSet DEF Fine
  <1> HIDE DEF more
  <1>6. \A i \in DOMAIN more : more[i] <= n + 1
    <2> SUFFICES ASSUME NEW i \in DOMAIN more PROVE more[i] <= n + 1 OBVIOUS
    <2>1. i \in 1..Len(lines) \/ i = Len(lines) + 1 BY <1>2, <1>4
    <2> QED BY <2>1, <1>3, <1>5 DEF Bad
  <1>7. Ascending(more)
    <2> SUFFICES ASSUME NEW i \in DOMAIN more, NEW j \in DOMAIN more, i < j,
                        more[i] # Bad, more[j] # Bad
                 PROVE  more[i] < more[j]
      BY DEF Ascending
    <2>1. i \in 1..Len(lines) BY <1>2, <1>4
    <2>2. CASE j \in 1..Len(lines) BY <2>1, <2>2, <1>2, <1>3 DEF Fine, Ascending
    <2>3. CASE j = Len(lines) + 1 BY <2>1, <2>3, <1>3, <1>5
    <2> QED BY <2>2, <2>3, <1>2, <1>4
  <1>8. Last(more) = e /\ more # <<>> BY <1>2, <1>3 DEF Last
  <1>9. ToSet(more) = ToSet(lines) \cup {e}
    <2>1. \A x : x \in ToSet(more) <=> \E i \in 1..(Len(lines) + 1) : more[i] = x
      BY <1>4 DEF ToSet
    <2>2. \A x : x \in ToSet(lines) <=> \E i \in 1..Len(lines) : lines[i] = x
      BY <1>2 DEF ToSet
    <2> QED BY <2>1, <2>2, <1>2, <1>3
  <1> QED BY <1>3, <1>6, <1>7, <1>8, <1>9 DEF Fine, more

\* What a fork copies.
LEMMA PrefixFine ==
    ASSUME NEW n \in Int, NEW lines, Fine(lines, n), Readable(lines),
           NEW k \in Nat, k < Len(lines)
    PROVE  /\ Fine(SubSeq(lines, 1, k), n) /\ Readable(SubSeq(lines, 1, k))
           /\ EventsOf(SubSeq(lines, 1, k)) \subseteq EventsOf(lines)
  <1> DEFINE part == SubSeq(lines, 1, k)
  <1>1. lines \in Seq(Lines) BY DEF Fine
  <1>2. Len(lines) \in Nat /\ DOMAIN lines = 1..Len(lines) BY <1>1
  <1>3. part \in Seq(Lines) /\ Len(part) = k /\ \A i \in 1..k : part[i] = lines[i]
    BY <1>1, <1>2
  <1>4. DOMAIN part = 1..k BY <1>3
  <1> HIDE DEF part
  <1>5. Fine(part, n) BY <1>2, <1>3, <1>4 DEF Fine, Ascending
  <1>6. ToSet(part) \subseteq ToSet(lines) BY <1>2, <1>3, <1>4 DEF ToSet
  <1> QED BY <1>5, <1>6 DEF Readable, EventsOf, part

\* A summary and the last k lines.
Compacted(lines, k) == <<Summary>> \o SubSeq(lines, Len(lines) - k + 1, Len(lines))

\* The list a compaction leaves: a summary, and behind it the last lines.
LEMMA CompactLines ==
    ASSUME NEW lines \in Seq(Lines), NEW k \in Nat, k < Len(lines)
    PROVE  /\ Compacted(lines, k) \in Seq(Lines) /\ Len(Compacted(lines, k)) = k + 1
           /\ Compacted(lines, k)[1] = Summary
           /\ \A i \in 2..(k + 1) : Compacted(lines, k)[i] = lines[Len(lines) - k + i - 1]
  <1> DEFINE part == SubSeq(lines, Len(lines) - k + 1, Len(lines))
             one == <<Summary>>
             whole == one \o part
  <1>1. /\ part \in Seq(Lines) /\ Len(part) = k
        /\ \A i \in 1..k : part[i] = lines[Len(lines) - k + i]
    OBVIOUS
  <1>2. one \in Seq(Lines) /\ Len(one) = 1 /\ one[1] = Summary BY DEF Lines
  <1> HIDE DEF part, one
  <1>3. /\ whole \in Seq(Lines) /\ Len(whole) = Len(one) + Len(part)
        /\ \A i \in 1..(Len(one) + Len(part)) :
              whole[i] = IF i <= Len(one) THEN one[i] ELSE part[i - Len(one)]
    BY <1>1, <1>2, ConcatProperties, Zenon
  <1> HIDE DEF whole
  <1>4. /\ Len(whole) = k + 1 /\ whole[1] = Summary
        /\ \A i \in 2..(k + 1) : whole[i] = part[i - 1]
    BY <1>1, <1>2, <1>3
  <1>5. \A i \in 2..(k + 1) : whole[i] = lines[Len(lines) - k + i - 1]
    <2> TAKE i \in 2..(k + 1)
    <2>1. i - 1 \in 1..k OBVIOUS
    <2>2. part[i - 1] = lines[Len(lines) - k + (i - 1)] BY <2>1, <1>1
    <2>3. Len(lines) - k + (i - 1) = Len(lines) - k + i - 1 OBVIOUS
    <2> QED BY <2>2, <2>3, <1>4
  <1>6. Compacted(lines, k) = whole BY DEF Compacted, whole, one, part
  <1> QED BY <1>3, <1>4, <1>5, <1>6

\* What a compaction leaves is fine: the last lines never hold an earlier summary.
LEMMA CompactFine ==
    ASSUME NEW n \in Nat, NEW lines, Fine(lines, n), Readable(lines),
           NEW k \in Nat, k < Len(lines),
           NEW less, less = Compacted(lines, k)
    PROVE  Fine(less, n) /\ Readable(less) /\ EventsOf(less) \subseteq EventsOf(lines)
  <1>1. lines \in Seq(Lines) BY DEF Fine
  <1>2. Len(lines) \in Nat /\ DOMAIN lines = 1..Len(lines) BY <1>1
  <1>6. less \in Seq(Lines) /\ Len(less) = k + 1 /\ less[1] = Summary BY <1>1, CompactLines
  <1>7. \A i \in 2..(k + 1) : less[i] = lines[Len(lines) - k + i - 1] BY <1>1, CompactLines
  <1>8. DOMAIN less = 1..(k + 1) BY <1>6
  <1>9. \A i \in 1..Len(lines) : lines[i] \in Int /\ lines[i] >= 0 /\ lines[i] <= n
    <2>1. \A i \in 1..Len(lines) : lines[i] # Bad BY <1>2 DEF Readable, ToSet
    <2>2. \A i \in 1..Len(lines) : lines[i] \in Lines /\ lines[i] <= n BY <1>1, <1>2 DEF Fine
    <2>3. \A e \in Lines : e # Bad => e \in Int /\ e >= 0 BY LinesAre DEF Bad
    <2> QED BY <2>1, <2>2, <2>3
  <1>10. \A i \in 2..Len(lines) : lines[i] > 0
    <2> TAKE i \in 2..Len(lines)
    <2>1. 1 \in DOMAIN lines /\ i \in DOMAIN lines /\ 1 < i BY <1>2
    <2>2. lines[1] # Bad /\ lines[i] # Bad BY <2>1 DEF Readable, ToSet
    <2>3. lines[1] < lines[i] BY <2>1, <2>2 DEF Fine, Ascending
    <2> QED BY <2>1, <2>3, <1>2, <1>9
  <1>11. \A i \in 2..(k + 1) :
             Len(lines) - k + i - 1 \in 2..Len(lines)
    BY <1>2
  <1>12. \A i \in 2..(k + 1) : less[i] \in Int /\ less[i] > 0 /\ less[i] <= n
    <2> TAKE i \in 2..(k + 1)
    <2>1. Len(lines) - k + i - 1 \in 2..Len(lines) BY <1>11
    <2> QED BY <2>1, <1>2, <1>7, <1>9, <1>10
  <1>13. \A i \in DOMAIN less : less[i] # Bad /\ less[i] <= n
    <2> TAKE i \in DOMAIN less
    <2>1. i = 1 \/ i \in 2..(k + 1) BY <1>8
    <2> QED BY <2>1, <1>6, <1>12 DEF Summary, Bad
  <1>14. Ascending(less)
    <2> SUFFICES ASSUME NEW i \in DOMAIN less, NEW j \in DOMAIN less, i < j
                 PROVE  less[i] < less[j]
      BY DEF Ascending
    <2>1. j \in 2..(k + 1) /\ (i = 1 \/ i \in 2..(k + 1)) BY <1>8
    <2>2. CASE i = 1 BY <2>1, <2>2, <1>6, <1>12 DEF Summary
    <2>3. CASE i \in 2..(k + 1)
      <3>1. lines[Len(lines) - k + i - 1] < lines[Len(lines) - k + j - 1]
        <4>0. /\ Len(lines) - k + i - 1 \in 2..Len(lines)
              /\ Len(lines) - k + j - 1 \in 2..Len(lines)
          BY <2>1, <2>3, <1>11
        <4>1. Len(lines) - k + i - 1 \in DOMAIN lines /\ Len(lines) - k + j - 1 \in DOMAIN lines
          BY <4>0, <1>2
        <4>2. Len(lines) - k + i - 1 < Len(lines) - k + j - 1 BY <2>1, <2>3, <1>2
        <4>3. /\ lines[Len(lines) - k + i - 1] # Bad
              /\ lines[Len(lines) - k + j - 1] # Bad
          BY <4>1 DEF Readable, ToSet
        <4> QED BY <4>1, <4>2, <4>3 DEF Fine, Ascending
      <3> QED BY <3>1, <2>1, <2>3, <1>7
    <2> QED BY <2>1, <2>2, <2>3
  <1>15. Readable(less) BY <1>13 DEF Readable, ToSet
  <1>16. EventsOf(less) \subseteq EventsOf(lines)
    <2> SUFFICES ASSUME NEW e \in EventsOf(less) PROVE e \in EventsOf(lines) OBVIOUS
    <2>1. PICK i \in DOMAIN less : less[i] = e BY DEF EventsOf, ToSet
    <2>2. i \in 2..(k + 1) BY <2>1, <1>6, <1>8 DEF EventsOf
    <2>3. Len(lines) - k + i - 1 \in DOMAIN lines BY <2>2, <1>2, <1>11
    <2>4. e \in ToSet(lines) BY <2>1, <2>2, <2>3, <1>7 DEF ToSet
    <2> QED BY <2>4 DEF EventsOf
  <1> QED BY <1>6, <1>13, <1>14, <1>15, <1>16 DEF Fine

-----------------------------------------------------------------------------
(***************************************************************************)
(* The cache.                                                              *)
(***************************************************************************)
\* The sessions that stay are no more than the limit, when no two have the same time:
\* all but the oldest of them are later than it.
LEMMA EvictKeepsFew ==
    ASSUME NEW S, IsFiniteSet(S), NEW t, \A s \in S : t[s] \in Nat,
           \A r, s \in S : r # s => t[r] # t[s]
    PROVE  IsFiniteSet(Evict(S, t)) /\ Cardinality(Evict(S, t)) <= MaxCached
  <1> DEFINE later(s) == {r \in S : t[r] > t[s]}
             stay == Evict(S, t)
  <1>1. stay = {s \in S : Cardinality(later(s)) < MaxCached} BY DEF Evict
  <1>2. IsFiniteSet(stay) BY <1>1, FS_Subset
  <1>3. CASE stay = {} BY <1>3, FS_EmptySet, StoreAssumption
  <1>4. CASE stay # {}
    <2> DEFINE times == {t[s] : s \in stay}
    <2>1. times \subseteq Nat /\ times # {} BY <1>1, <1>4
    <2> HIDE DEF times
    <2>2. PICK n \in times : \A m \in times : m >= n
      <3> DEFINE R == OpToRel(<, Nat)
      <3>1. IsWellFoundedOn(R, Nat) BY NatLessThanWellFounded
      <3>2. PICK n \in times : \A m \in times : ~(<<m, n>> \in R)
        <4> HIDE DEF R
        <4> QED BY <2>1, <3>1, WFMin
      <3>3. \A m \in times : m >= n
        <4> TAKE m \in times
        <4>1. m \in Nat /\ n \in Nat /\ <<m, n>> \in Nat \X Nat BY <2>1
        <4>2. ~(m < n) BY <3>2, <4>1 DEF OpToRel
        <4> QED BY <4>1, <4>2
      <3> QED BY <3>3
    <2>3. PICK s \in stay : t[s] = n BY <2>2 DEF times
    <2>4. \A r \in stay : t[r] >= t[s] BY <2>2, <2>3 DEF times
    <2> HIDE DEF stay
    <2>5. stay \subseteq later(s) \cup {s}
      <3> SUFFICES ASSUME NEW r \in stay, r # s PROVE t[r] > t[s] BY <1>1
      <3>1. r \in S /\ s \in S /\ t[r] \in Nat /\ t[s] \in Nat /\ t[r] # t[s] BY <1>1, <2>3
      <3> QED BY <2>4, <3>1
    <2>6. IsFiniteSet(later(s)) /\ s \notin later(s) BY FS_Subset, <1>1
    <2>7. /\ IsFiniteSet(later(s) \cup {s})
          /\ Cardinality(later(s) \cup {s}) = Cardinality(later(s)) + 1
      BY <2>6, FS_AddElement
    <2>8. Cardinality(stay) <= Cardinality(later(s) \cup {s}) BY <2>5, <2>7, FS_Subset
    <2>9. Cardinality(later(s)) < MaxCached BY <1>1
    <2>10. Cardinality(later(s)) \in Nat /\ Cardinality(stay) \in Nat
      BY <1>2, <2>6, FS_CardinalityType DEF stay
    <2> QED BY <1>2, <2>7, <2>8, <2>9, <2>10, StoreAssumption DEF stay
  <1> QED BY <1>3, <1>4

\* What a load leaves: the session with its events, if it stays itself, and of the
\* others those that stay.
Loaded(s, events) ==
    /\ cached' \subseteq cached \cup {s}
    /\ Cardinality(cached') <= MaxCached
    /\ mem' \in [Sessions -> Seq(Lines)] /\ when' \in [Sessions -> 0..MaxClock]
    /\ \A r \in Sessions :
          /\ r \in cached' => when'[r] \in Stamps(r) /\ when'[r] > 0
          /\ r \in cached' => mem'[r] = IF r = s THEN events ELSE mem[r]
          /\ r \notin cached' => when'[r] = 0 /\ mem'[r] = <<>>

\* A session that enters the cache, and those that leave for it.
LEMMA CacheLoads ==
    ASSUME TypeOK, CacheInv, NEW s \in Sessions, metaTime[s] > 0, NEW events \in Seq(Lines),
           Cache(s, events, metaTime[s])
    PROVE  Loaded(s, events)
  <1> DEFINE t == [when EXCEPT ![s] = metaTime[s]]
             stay == Evict(cached \cup {s}, t)
  <1>1. /\ cached \subseteq Sessions /\ IsFiniteSet(Sessions)
        /\ metaTime \in [Sessions -> 0..MaxClock] /\ when \in [Sessions -> 0..MaxClock]
        /\ mem \in [Sessions -> Seq(Lines)] /\ MaxClock \in Nat
    BY StoreAssumption DEF TypeOK
  <1>2. /\ cached' = stay
        /\ when' = [r \in Sessions |-> IF r \in stay THEN t[r] ELSE 0]
        /\ mem' = [r \in Sessions |-> IF r \notin stay THEN <<>>
                                      ELSE IF r = s THEN events ELSE mem[r]]
    BY DEF Cache
  <1>3. t \in [Sessions -> 0..MaxClock] /\ t[s] = metaTime[s]
        /\ \A r \in Sessions : r # s => t[r] = when[r]
    BY <1>1
  <1>4. \A r \in cached \cup {s} : t[r] \in Stamps(r) /\ t[r] > 0 /\ t[r] \in Nat
    <2> TAKE r \in cached \cup {s}
    <2>1. r \in cached => when[r] > 0 BY <1>1 DEF CacheInv
    <2>2. t[r] > 0 /\ t[r] \in Nat BY <2>1, <1>1, <1>3
    <2>3. t[r] = metaTime[r] \/ t[r] = when[r] BY <1>1, <1>3
    <2> QED BY <2>2, <2>3 DEF Stamps
  <1>5. stay \subseteq cached \cup {s} BY DEF Evict
  <1> HIDE DEF t
  <1>6. IsFiniteSet(cached \cup {s}) BY <1>1, FS_Subset, FS_AddElement
  <1>7. \A q, r \in cached \cup {s} : q # r => t[q] # t[r] BY <1>1, <1>4 DEF CacheInv
  <1>8. Cardinality(stay) <= MaxCached BY <1>4, <1>6, <1>7, EvictKeepsFew
  <1> HIDE DEF stay
  <1>9. <<>> \in Seq(Lines) OBVIOUS
  <1>10. mem' \in [Sessions -> Seq(Lines)] /\ when' \in [Sessions -> 0..MaxClock]
    BY <1>1, <1>2, <1>3, <1>9
  <1> QED BY <1>1, <1>2, <1>4, <1>5, <1>8, <1>10 DEF Loaded

\* So does every load, also one of a session that is cached.
LEMMA LoadLoads ==
    ASSUME TypeOK, CacheInv, NEW s \in Sessions, CanLoad(s), NEW events \in Seq(Lines),
           LoadAs(s, events)
    PROVE  Loaded(s, events)
  <1>1. CASE s \notin cached
    <2>1. metaTime[s] > 0 /\ Cache(s, events, metaTime[s]) BY <1>1 DEF CanLoad, LoadAs
    <2> QED BY <2>1, CacheLoads
  <1>2. CASE s \in cached
    <2>1. mem' = [mem EXCEPT ![s] = events] /\ cached' = cached /\ when' = when
      BY <1>2 DEF LoadAs
    <2>2. /\ cached \subseteq Sessions /\ Cardinality(cached) <= MaxCached
          /\ when \in [Sessions -> 0..MaxClock] /\ mem \in [Sessions -> Seq(Lines)]
      BY DEF TypeOK
    <2>3. mem' \in [Sessions -> Seq(Lines)] /\ mem'[s] = events
          /\ \A r \in Sessions : r # s => mem'[r] = mem[r]
      BY <2>1, <2>2
    <2>4. \A r \in cached : when[r] \in Stamps(r) /\ when[r] > 0
      BY <2>2 DEF CacheInv, Stamps
    <2>5. \A r \in Sessions : r \notin cached => when[r] = 0 /\ mem[r] = <<>>
      BY DEF CacheInv
    <2> QED BY <1>2, <2>1, <2>2, <2>3, <2>4, <2>5 DEF Loaded
  <1> QED BY <1>1, <1>2

-----------------------------------------------------------------------------
(***************************************************************************)
(* The operation at hand.                                                  *)
(***************************************************************************)
Structure == TypeOK /\ OpInv /\ CacheInv /\ LinesInv /\ HeadsInv

\* Where an operation is says what it has.
LEMMA OpShape ==
    ASSUME OpInv
    PROVE  /\ op.at \in HasSession =>
                 op \in [at : HasSession, s : Sessions] /\ op.s \in Sessions /\ metaTime[op.s] > 0
           /\ op.at \in HasBranch =>
                 /\ op \in [at : HasBranch, s : Sessions, b : Branches]
                 /\ op.s \in Sessions /\ op.b \in Branches /\ metaTime[op.s] > 0
           /\ op.at \in {"idle"} \cup HasSession \cup HasBranch
           /\ op.at = "idle" => op = Idle
  BY DEF OpInv, Idle, HasSession, HasBranch

\* The next step of the operation on the same session.
LEMMA OpMoves ==
    ASSUME OpInv
    PROVE  /\ \A at \in HasSession : op.at \in HasSession /\ op' = [op EXCEPT !.at = at] =>
                 op'.at = at /\ op'.s = op.s /\ op' \in [at : HasSession, s : Sessions]
           /\ \A at \in HasBranch : op.at \in HasBranch /\ op' = [op EXCEPT !.at = at] =>
                 /\ op'.at = at /\ op'.s = op.s /\ op'.b = op.b
                 /\ op' \in [at : HasBranch, s : Sessions, b : Branches]
  BY OpShape

\* An operation that begins is a record with the place, the session and the branch.
LEMMA OpIsNew ==
    /\ Idle.at = "idle"
    /\ \A s \in Sessions : \A at \in HasSession : op' = [at |-> at, s |-> s] =>
          op'.at = at /\ op'.s = s /\ op' \in [at : HasSession, s : Sessions]
    /\ \A s \in Sessions : \A b \in Branches : \A at \in HasBranch :
          op' = [at |-> at, s |-> s, b |-> b] =>
              /\ op'.at = at /\ op'.s = s /\ op'.b = b
              /\ op' \in [at : HasBranch, s : Sessions, b : Branches]
  BY DEF Idle

\* OpInv has the type of the operation.
LEMMA OpTyped ==
    OpInv => op \in {Idle} \cup [at : Operations, s : Sessions]
                 \cup [at : Operations, s : Sessions, b : Branches]
  BY DEF OpInv, Operations, HasSession, HasBranch

\* What a load takes into the cache: the lines are fine, and are read from a session
\* that exists.
LEMMA EventsFine ==
    ASSUME TypeOK, CacheInv, LinesInv, NEW s \in Sessions, CanLoad(s)
    PROVE  /\ metaTime[s] > 0 /\ Fine(Events(s), clock) /\ Readable(Events(s))
           /\ Events(s) \in Seq(Lines) /\ clock \in Nat
  <1>1. clock \in Nat /\ cached \subseteq Sessions BY DEF TypeOK
  <1>2. metaTime[s] > 0 BY DEF CanLoad, CacheInv
  <1>3. Fine(Events(s), clock) /\ Readable(Events(s)) BY DEF LinesInv, CanLoad, Events
  <1> QED BY <1>1, <1>2, <1>3 DEF Fine

\* A fork takes all events or the first of them.
LEMMA ForkFine ==
    ASSUME TypeOK, HeadsInv, NEW s \in Sessions, NEW n \in Int, NEW events, Fine(events, n),
           Readable(events)
    PROVE  /\ Fine(Fork(s, events), n) /\ Readable(Fork(s, events))
           /\ EventsOf(Fork(s, events)) \subseteq EventsOf(events)
  <1> DEFINE k == table[s].head[Active(s)] + 1
  <1>1. k \in Nat BY DEF HeadsInv
  <1>2. Fork(s, events) = IF k < Len(events) THEN SubSeq(events, 1, k) ELSE events BY DEF Fork
  <1> HIDE DEF k
  <1>3. CASE k < Len(events)
    <2>1. Fork(s, events) = SubSeq(events, 1, k) BY <1>2, <1>3
    <2> QED BY <1>1, <1>3, <2>1, PrefixFine
  <1>4. CASE ~(k < Len(events))
    <2>1. Fork(s, events) = events BY <1>2, <1>4
    <2> QED BY <2>1
  <1> QED BY <1>3, <1>4

\* What takes the place of the events has no other event than they have.
LEMMA ReplacementFine ==
    ASSUME TypeOK, CacheInv, LinesInv, NEW s \in Sessions, CanLoad(s), NEW less,
           \/ less = <<>>
           \/ \E keep \in Keeps : keep < Len(Events(s)) /\ less = Compacted(Events(s), keep)
    PROVE  /\ Fine(less, clock) /\ Readable(less) /\ less \in Seq(Lines)
           /\ EventsOf(less) \subseteq EventsOf(Events(s))
  <1>1. Fine(Events(s), clock) /\ Readable(Events(s)) /\ clock \in Nat BY EventsFine
  <1>2. CASE less = <<>> BY <1>1, <1>2, NoLines DEF Fine
  <1>3. ASSUME NEW keep \in Keeps, keep < Len(Events(s)), less = Compacted(Events(s), keep)
        PROVE  Fine(less, clock) /\ Readable(less) /\ EventsOf(less) \subseteq EventsOf(Events(s))
    <2>1. keep \in Nat BY StoreAssumption
    <2> QED BY <1>1, <1>3, <2>1, CompactFine
  <1> QED BY <1>2, <1>3 DEF Fine

\* ClearEvents and Compact: what they put in the place of the events.
Replaces(s, less) ==
    /\ Free /\ CanLoad(s) /\ Replace(s, less)
    /\ \/ less = <<>>
       \/ \E keep \in Keeps : keep < Len(Events(s)) /\ less = Compacted(Events(s), keep)

\* The steps, with both kinds of removal as one.
Step ==
    \/ \E s \in Sessions :
          \/ CreateBegin(s) \/ Get(s) \/ AppendBegin(s)
          \/ \E b \in Branches : ForkBegin(s, b) \/ SwitchBegin(s, b)
          \/ \E less \in Seq(Lines) : Replaces(s, less)
    \/ OperationGoesOn \/ Crash

\* Every step of the store is one of Step.
LEMMA NextIsStep ==
    ASSUME TypeOK, CacheInv, LinesInv, Next
    PROVE  Step
  <1>1. ASSUME NEW s \in Sessions, ClearEvents(s) PROVE Replaces(s, <<>>) /\ <<>> \in Seq(Lines)
    BY <1>1 DEF ClearEvents, Replaces
  <1>2. ASSUME NEW s \in Sessions, NEW keep \in Keeps, Compact(s, keep)
        PROVE  Replaces(s, Compacted(Events(s), keep)) /\ Compacted(Events(s), keep) \in Seq(Lines)
    <2>1. Replaces(s, Compacted(Events(s), keep)) BY <1>2 DEF Compact, Compacted, Replaces
    <2>2. CanLoad(s) BY <1>2 DEF Compact
    <2> QED BY <2>1, <2>2, ReplacementFine DEF Replaces
  <1>3. ASSUME NEW s \in Sessions, OperationBegins(s) PROVE Step
    BY <1>1, <1>2, <1>3 DEF OperationBegins, Step
  <1> QED BY <1>3 DEF Next, Step

-----------------------------------------------------------------------------
(***************************************************************************)
(* Types.                                                                  *)
(***************************************************************************)
\* The types of all but the cache and the operation.
DiskTyped ==
    /\ metaTime \in [Sessions -> 0..MaxClock]
    /\ log \in [Sessions -> Seq(Lines)]
    /\ torn \in [Sessions -> BOOLEAN]
    /\ table \in [Sessions -> [active : Branches, head : [Branches -> Int]]]
    /\ files \in [Sessions -> [Branches -> Seq(Lines)]]
    /\ clock \in 0..MaxClock
    /\ owed \in [Sessions -> [Branches -> SUBSET (1..MaxClock)]]
    /\ mine \in [Sessions -> [Branches -> SUBSET (1..MaxClock)]]

CacheTyped ==
    /\ cached \subseteq Sessions /\ Cardinality(cached) <= MaxCached
    /\ mem \in [Sessions -> Seq(Lines)]
    /\ when \in [Sessions -> 0..MaxClock]

\* TypeOK is what is on disk, what is in the cache, and the operation.
LEMMA TypesSplit ==
    /\ TypeOK => DiskTyped /\ CacheTyped
    /\ DiskTyped' /\ CacheTyped' /\ OpInv' => TypeOK'
  <1>1. OpInv' => op' \in {Idle} \cup [at : Operations, s : Sessions]
                         \cup [at : Operations, s : Sessions, b : Branches]
    BY DEF OpInv, Operations, HasSession, HasBranch
  <1> QED BY <1>1 DEF TypeOK, DiskTyped, CacheTyped

\* A load keeps the types of the cache.
LEMMA LoadedTyped ==
    ASSUME TypeOK, NEW s \in Sessions, NEW events, Loaded(s, events)
    PROVE  CacheTyped'
  BY DEF TypeOK, Loaded, CacheTyped

\* A head is a number, and an active branch is one.
LEMMA HeadUpdate ==
    ASSUME table \in [Sessions -> [active : Branches, head : [Branches -> Int]]],
           NEW s \in Sessions, NEW b \in Branches, NEW n \in Int
    PROVE  [table EXCEPT ![s].head[b] = n]
               \in [Sessions -> [active : Branches, head : [Branches -> Int]]]
  <1>1. table[s] \in [active : Branches, head : [Branches -> Int]] OBVIOUS
  <1>2. [table[s].head EXCEPT ![b] = n] \in [Branches -> Int] BY <1>1
  <1>3. [table[s] EXCEPT !.head[b] = n] \in [active : Branches, head : [Branches -> Int]]
    BY <1>1, <1>2
  <1> QED BY <1>3, Zenon

\* Writing the active branch keeps the type of the table.
LEMMA ActiveUpdate ==
    ASSUME table \in [Sessions -> [active : Branches, head : [Branches -> Int]]],
           NEW s \in Sessions, NEW b \in Branches
    PROVE  [table EXCEPT ![s].active = b]
               \in [Sessions -> [active : Branches, head : [Branches -> Int]]]
  <1>1. [table[s] EXCEPT !.active = b] \in [active : Branches, head : [Branches -> Int]]
    OBVIOUS
  <1> QED BY <1>1, Zenon

\* Every step keeps the types of what is on disk, of the clock and of the histories.
LEMMA NextDiskTyped ==
    ASSUME Structure, Step
    PROVE  DiskTyped'
  <1> USE DEF DiskTyped
  <1>a. TypeOK /\ DiskTyped /\ OpInv /\ CacheInv /\ LinesInv /\ HeadsInv
    BY TypesSplit DEF Structure
  <1>b. <<>> \in Seq(Lines) /\ MaxClock \in Nat BY StoreAssumption
  <1>c. /\ metaTime \in [Sessions -> 0..MaxClock]
        /\ log \in [Sessions -> Seq(Lines)]
        /\ torn \in [Sessions -> BOOLEAN]
        /\ table \in [Sessions -> [active : Branches, head : [Branches -> Int]]]
        /\ files \in [Sessions -> [Branches -> Seq(Lines)]]
        /\ clock \in 0..MaxClock
        /\ owed \in [Sessions -> [Branches -> SUBSET (1..MaxClock)]]
        /\ mine \in [Sessions -> [Branches -> SUBSET (1..MaxClock)]]
    BY <1>a
  <1>d. /\ op.at \in HasSession => op.s \in Sessions
        /\ op.at \in HasBranch => op.s \in Sessions /\ op.b \in Branches
        /\ \A s \in Sessions : Active(s) \in Branches
    BY <1>a, <1>c, OpShape DEF Active
  <1>1. ASSUME NEW s \in Sessions, CreateBegin(s) PROVE DiskTyped'
    BY <1>1, <1>c, <1>b DEF CreateBegin, memVars
  <1>2. ASSUME NEW s \in Sessions, Get(s) PROVE DiskTyped' BY <1>2, <1>c DEF Get, diskVars, histVars
  <1>3. ASSUME NEW s \in Sessions, AppendBegin(s) PROVE DiskTyped'
    <2>1. clock' \in 1..MaxClock /\ clock' = clock + 1 BY <1>3, <1>c, <1>b DEF AppendBegin
    <2>2. Active(s) \in Branches BY <1>d
    <2>3. mine' = [mine EXCEPT ![s][Active(s)] = @ \cup {clock'}] BY <1>3, <2>1 DEF AppendBegin
    <2>4. mine' \in [Sessions -> [Branches -> SUBSET (1..MaxClock)]] BY <1>c, <2>1, <2>2, <2>3
    <2> QED BY <1>3, <1>c, <2>1, <2>4 DEF AppendBegin, diskVars
  <1>4. ASSUME NEW s \in Sessions, NEW b \in Branches, ForkBegin(s, b) PROVE DiskTyped'
    <2>0. CanLoad(s) BY <1>4 DEF ForkBegin
    <2>1. Fine(Events(s), clock) /\ Readable(Events(s)) /\ clock \in Nat
      BY <2>0, <1>a, EventsFine
    <2>4. clock \in Int BY <2>1
    <2>5. Fine(Fork(s, Events(s)), clock) BY <1>a, <2>1, <2>4, ForkFine
    <2>2. Fork(s, Events(s)) \in Seq(Lines) BY <2>5 DEF Fine
    <2>3. files' \in [Sessions -> [Branches -> Seq(Lines)]]
      BY <1>4, <1>c, <2>2 DEF ForkBegin, histVars
    <2> QED BY <1>4, <1>c, <2>3 DEF ForkBegin, histVars
  <1>5. ASSUME NEW s \in Sessions, NEW b \in Branches, SwitchBegin(s, b) PROVE DiskTyped'
    <2>0. CanLoad(s) BY <1>5 DEF SwitchBegin
    <2>1. Events(s) \in Seq(Lines) BY <2>0, <1>a, EventsFine
    <2>2. Active(s) \in Branches BY <1>d
    <2>3. files' \in [Sessions -> [Branches -> Seq(Lines)]]
      BY <1>5, <1>c, <2>1, <2>2 DEF SwitchBegin, histVars
    <2> QED BY <1>5, <1>c, <2>3 DEF SwitchBegin, histVars
  <1>6. ASSUME NEW s \in Sessions, NEW less \in Seq(Lines), Replaces(s, less) PROVE DiskTyped'
    <2>1. Active(s) \in Branches BY <1>d
    <2>2. owed' = [owed EXCEPT ![s][Active(s)] = @ \cap ToSet(less)]
      BY <1>6 DEF Replaces, Replace
    <2>3. owed' \in [Sessions -> [Branches -> SUBSET (1..MaxClock)]] BY <1>c, <2>1, <2>2
    <2>4. \/ log' = [log EXCEPT ![s] = less] /\ torn' = [torn EXCEPT ![s] = FALSE]
          \/ UNCHANGED <<log, torn>>
      BY <1>6 DEF Replaces, Replace
    <2>5. log' \in [Sessions -> Seq(Lines)]
      BY <2>4, <1>c
    <2>6. torn' \in [Sessions -> BOOLEAN]
      BY <2>4, <1>c
    <2> QED BY <1>6, <1>c, <2>3, <2>5, <2>6 DEF Replaces, Replace
  <1>7. CASE CreateEnd BY <1>7, <1>c, <1>b DEF CreateEnd, histVars
  <1>8. CASE AppendLog
    <2>1. op.s \in Sessions /\ mem[op.s] # <<>> /\ Last(mem[op.s]) = clock /\ clock \in Lines
      BY <1>8, <1>a, <1>c, <1>d, LinesAre DEF AppendLog, OpInv, HasSession
    <2>2. Append(log[op.s], Last(mem[op.s])) \in Seq(Lines) BY <1>c, <2>1
    <2>3. log' \in [Sessions -> Seq(Lines)] /\ torn' \in [Sessions -> BOOLEAN]
      BY <1>8, <1>c, <2>1, <2>2 DEF AppendLog, histVars
    <2> QED BY <1>8, <1>c, <2>3 DEF AppendLog, histVars
  <1>9. CASE AppendLogStops
    <2>1. op.s \in Sessions BY <1>9, <1>d DEF AppendLogStops, HasSession
    <2>2. Append(log[op.s], Bad) \in Seq(Lines) BY <1>c, <2>1 DEF Lines
    <2>3. log' \in [Sessions -> Seq(Lines)] /\ torn' \in [Sessions -> BOOLEAN]
      BY <1>9, <1>c, <2>1, <2>2 DEF AppendLogStops, histVars
    <2> QED BY <1>9, <1>c, <2>3 DEF AppendLogStops, histVars
  <1>10. CASE AppendMeta
    <2>1. op.s \in Sessions BY <1>10, <1>d DEF AppendMeta, HasSession
    <2>2. when[op.s] \in 0..MaxClock BY <1>a, <2>1 DEF TypeOK
    <2> QED BY <1>10, <1>c, <2>1, <2>2 DEF AppendMeta, histVars
  <1>11. CASE AppendHead
    <2>1. /\ op.s \in Sessions /\ mem[op.s] # <<>> /\ Last(mem[op.s]) = clock
          /\ clock \in 1..MaxClock /\ Active(op.s) \in Branches
      BY <1>11, <1>a, <1>c, <1>d DEF AppendHead, OpInv, HasSession, CacheInv
    <2>2. Len(mem[op.s]) - 1 \in Int BY <1>a, <2>1 DEF TypeOK
    <2>3. \/ table' = [table EXCEPT ![op.s].head[Active(op.s)] = Len(mem[op.s]) - 1]
          \/ table' = table
      BY <1>11 DEF AppendHead
    <2>4. table' \in [Sessions -> [active : Branches, head : [Branches -> Int]]]
      <3>1. [table EXCEPT ![op.s].head[Active(op.s)] = Len(mem[op.s]) - 1]
               \in [Sessions -> [active : Branches, head : [Branches -> Int]]]
        BY <1>c, <2>1, <2>2, HeadUpdate
      <3> QED BY <1>c, <2>3, <3>1
    <2>5. owed' = [owed EXCEPT ![op.s][Active(op.s)] = @ \cup {clock}]
      BY <1>11, <2>1 DEF AppendHead
    <2>6. owed' \in [Sessions -> [Branches -> SUBSET (1..MaxClock)]] BY <1>c, <2>1, <2>5
    <2> QED BY <1>11, <1>c, <2>4, <2>6 DEF AppendHead
  <1>12. CASE ForkEnd
    <2>1. op.s \in Sessions /\ op.b \in Branches /\ Active(op.s) \in Branches
      BY <1>12, <1>d DEF ForkEnd, HasBranch
    <2>2. table' = [table EXCEPT ![op.s].head[op.b] = table[op.s].head[Active(op.s)]]
      BY <1>12 DEF ForkEnd
    <2>3. table' \in [Sessions -> [active : Branches, head : [Branches -> Int]]]
      <3>1. table[op.s].head[Active(op.s)] \in Int BY <1>c, <2>1
      <3> QED BY <1>c, <2>1, <2>2, <3>1, HeadUpdate, Zenon
    <2>4. /\ owed' = [owed EXCEPT ![op.s][op.b] =
                         owed[op.s][Active(op.s)] \cap ToSet(files[op.s][op.b])]
          /\ mine' = [mine EXCEPT ![op.s][op.b] = mine[op.s][Active(op.s)]]
      BY <1>12 DEF ForkEnd
    <2>5. /\ owed' \in [Sessions -> [Branches -> SUBSET (1..MaxClock)]]
          /\ mine' \in [Sessions -> [Branches -> SUBSET (1..MaxClock)]]
      BY <1>c, <2>1, <2>4
    <2> QED BY <1>12, <1>c, <2>3, <2>5 DEF ForkEnd
  <1>13. CASE SwitchRewrite
    <2>1. op.s \in Sessions /\ op.b \in Branches
      BY <1>13, <1>d DEF SwitchRewrite, HasBranch
    <2> QED BY <1>13, <1>c, <2>1 DEF SwitchRewrite, histVars
  <1>14. CASE SwitchRewriteFails BY <1>14, <1>c DEF SwitchRewriteFails, diskVars, histVars
  <1>15. CASE SwitchEnd
    <2>1. op.s \in Sessions /\ op.b \in Branches
      BY <1>15, <1>d DEF SwitchEnd, HasBranch
    <2>2. table' \in [Sessions -> [active : Branches, head : [Branches -> Int]]]
      <3>1. table' = [table EXCEPT ![op.s].active = op.b] BY <1>15 DEF SwitchEnd
      <3> QED BY <1>c, <2>1, <3>1, ActiveUpdate, Zenon
    <2> QED BY <1>15, <1>c, <2>1, <2>2 DEF SwitchEnd, histVars
  <1>16. CASE WriteFails BY <1>16, <1>c DEF WriteFails, diskVars, histVars
  <1>17. CASE Crash BY <1>17, <1>c DEF Crash, diskVars, histVars
  <1> QED
    BY <1>1, <1>2, <1>3, <1>4, <1>5, <1>6, <1>7, <1>8, <1>9, <1>10, <1>11, <1>12, <1>13, <1>14,
       <1>15, <1>16, <1>17
    DEF Step, OperationGoesOn

\* How the cache changes: a load, an event or a branch that enters memory, or a crash.
Entered(s, events) ==
    /\ UNCHANGED <<cached, when>>
    /\ mem' = IF s \in cached THEN [mem EXCEPT ![s] = events] ELSE mem

\* What a step does to memory: a load, a switch of the events, an append, or nothing.
LEMMA CacheSteps ==
    ASSUME Structure, Step
    PROVE  \/ \E s \in Sessions : \E events \in Seq(Lines) :
                 /\ Loaded(s, events) /\ Fine(events, clock) /\ Readable(events)
                 /\ metaTime[s] > 0 /\ UNCHANGED <<metaTime, clock>>
           \/ /\ UNCHANGED <<cached, metaTime, clock>>
              /\ \E s \in Sessions : \E b \in Branches : Entered(s, files[s][b])
           \/ \E s \in Sessions : AppendBegin(s)
           \/ \E s \in Sessions : CreateBegin(s)
           \/ AppendMeta
           \/ UNCHANGED memVars /\ UNCHANGED <<metaTime, clock>>
           \/ Crash
  <1> DEFINE Loads == \E s \in Sessions : \E events \in Seq(Lines) :
                         /\ Loaded(s, events) /\ Fine(events, clock) /\ Readable(events)
                         /\ metaTime[s] > 0 /\ UNCHANGED <<metaTime, clock>>
             Enters == /\ UNCHANGED <<cached, metaTime, clock>>
                       /\ \E s \in Sessions : \E b \in Branches : Entered(s, files[s][b])
  <1>a. TypeOK /\ OpInv /\ CacheInv /\ LinesInv /\ HeadsInv BY DEF Structure
  <1>b. clock \in Nat /\ <<>> \in Seq(Lines) BY <1>a DEF TypeOK
  <1>c. ASSUME NEW s \in Sessions, NEW events, CanLoad(s), LoadAs(s, events),
               Fine(events, clock), Readable(events), UNCHANGED <<metaTime, clock>>
        PROVE  Loads
    <2>1. events \in Seq(Lines) BY <1>c DEF Fine
    <2>2. Loaded(s, events) BY <1>a, <1>c, <2>1, LoadLoads
    <2>3. metaTime[s] > 0 BY <1>a, <1>c, EventsFine
    <2> QED BY <1>c, <2>1, <2>2, <2>3
  <1> HIDE DEF Loads
  <1>1. ASSUME NEW s \in Sessions, Get(s) PROVE Loads
    <2>1. CanLoad(s) /\ LoadAs(s, log[s]) /\ UNCHANGED <<metaTime, clock>> /\ s \notin cached
      BY <1>1 DEF Get, diskVars, histVars
    <2>2. Fine(log[s], clock) /\ Readable(log[s]) BY <1>a, <2>1 DEF LinesInv, CanLoad
    <2> QED BY <2>1, <2>2, <1>c
  <1>2. ASSUME NEW s \in Sessions, NEW b \in Branches, ForkBegin(s, b) \/ SwitchBegin(s, b)
        PROVE  Loads
    <2>1. CanLoad(s) /\ LoadAs(s, Events(s)) /\ UNCHANGED <<metaTime, clock>>
      BY <1>2 DEF ForkBegin, SwitchBegin, histVars
    <2>2. Fine(Events(s), clock) /\ Readable(Events(s)) BY <1>a, <2>1, EventsFine
    <2> QED BY <2>1, <2>2, <1>c
  <1>3. ASSUME NEW s \in Sessions, NEW less \in Seq(Lines), Replaces(s, less) PROVE Loads
    <2>1. CanLoad(s) /\ LoadAs(s, less) /\ UNCHANGED <<metaTime, clock>>
      BY <1>3 DEF Replaces, Replace
    <2>2. Fine(less, clock) /\ Readable(less)
      BY <1>a, <1>3, <2>1, ReplacementFine DEF Replaces
    <2> QED BY <2>1, <2>2, <1>c
  <1>4. CASE CreateEnd
    <2>1. op.s \in Sessions /\ metaTime[op.s] > 0
      BY <1>4, <1>a, OpShape DEF CreateEnd, HasSession
    <2>2. Cache(op.s, <<>>, metaTime[op.s]) /\ UNCHANGED <<metaTime, clock>>
      BY <1>4 DEF CreateEnd, histVars
    <2>3. Loaded(op.s, <<>>) BY <1>a, <1>b, <2>1, <2>2, CacheLoads
    <2> QED BY <1>b, <2>1, <2>2, <2>3, NoLines DEF Loads
  <1>5. CASE SwitchRewrite \/ SwitchRewriteFails
    <2>1. op.s \in Sessions /\ op.b \in Branches
      BY <1>5, <1>a, OpShape DEF SwitchRewrite, SwitchRewriteFails, HasBranch
    <2>2. Entered(op.s, files[op.s][op.b]) /\ UNCHANGED <<cached, metaTime, clock>>
      BY <1>5 DEF SwitchRewrite, SwitchRewriteFails, Enter, Entered, diskVars, histVars
    <2> QED BY <2>1, <2>2
  <1>6. CASE \/ AppendLog \/ AppendLogStops \/ AppendHead \/ ForkEnd \/ SwitchEnd \/ WriteFails
    BY <1>6 DEF AppendLog, AppendLogStops, AppendHead, ForkEnd, SwitchEnd, WriteFails, diskVars,
                histVars
  <1> QED BY <1>1, <1>2, <1>3, <1>4, <1>5, <1>6 DEF Step, OperationGoesOn, Loads

\* Every step keeps the types and the limit of the cache.
LEMMA NextCacheTyped ==
    ASSUME Structure, Step
    PROVE  CacheTyped'
  <1>a. TypeOK /\ CacheTyped /\ LinesInv BY TypesSplit DEF Structure
  <1>1. ASSUME NEW s \in Sessions, NEW events \in Seq(Lines), Loaded(s, events)
        PROVE  CacheTyped'
    BY <1>a, <1>1, LoadedTyped
  <1>2. ASSUME NEW s \in Sessions, NEW b \in Branches, Entered(s, files[s][b]) PROVE CacheTyped'
    <2>1. files[s][b] \in Seq(Lines) BY <1>a DEF TypeOK
    <2> QED BY <1>a, <1>2, <2>1 DEF CacheTyped, Entered
  <1>3. ASSUME NEW s \in Sessions, AppendBegin(s) PROVE CacheTyped'
    <2>1. clock + 1 \in 1..MaxClock BY <1>a, <1>3, StoreAssumption DEF TypeOK, AppendBegin
    <2>2. mem[s] \in Seq(Lines) /\ clock + 1 \in Lines BY <1>a, <2>1 DEF CacheTyped, Lines
    <2>3. Append(mem[s], clock + 1) \in Seq(Lines) BY <2>2
    <2>4. mem' \in [Sessions -> Seq(Lines)] BY <1>a, <1>3, <2>3 DEF CacheTyped, AppendBegin
    <2>5. when' \in [Sessions -> 0..MaxClock] BY <1>a, <1>3, <2>1 DEF CacheTyped, AppendBegin
    <2> QED BY <1>a, <1>3, <2>4, <2>5 DEF CacheTyped, AppendBegin
  <1>4. ASSUME UNCHANGED memVars PROVE CacheTyped' BY <1>a, <1>4 DEF CacheTyped, memVars
  <1>5. CASE Crash
    <2>1. <<>> \in Seq(Lines) /\ 0 \in 0..MaxClock BY StoreAssumption
    <2>2. Cardinality({}) = 0 BY FS_EmptySet
    <2>3. cached' = {} /\ Cardinality(cached') <= MaxCached
      BY <1>5, <2>2, StoreAssumption DEF Crash
    <2>4. mem' \in [Sessions -> Seq(Lines)] /\ when' \in [Sessions -> 0..MaxClock]
      BY <1>5, <2>1 DEF Crash
    <2> QED BY <2>3, <2>4 DEF CacheTyped
  <1> QED BY <1>1, <1>2, <1>3, <1>4, <1>5, CacheSteps DEF CreateBegin, AppendMeta

-----------------------------------------------------------------------------
(***************************************************************************)
(* The cache, and the times of the sessions.                               *)
(***************************************************************************)
\* The cache holds sessions that exist, each with a time, and nothing of the others.
LEMMA NextCacheInv ==
    ASSUME Structure, Step
    PROVE  CacheInv'
  <1>a. TypeOK /\ OpInv /\ CacheInv BY DEF Structure
  <1>b. /\ clock \in Nat /\ metaTime \in [Sessions -> 0..MaxClock] /\ cached \subseteq Sessions
        /\ when \in [Sessions -> 0..MaxClock] /\ mem \in [Sessions -> Seq(Lines)]
        /\ MaxClock \in Nat
    BY <1>a, StoreAssumption DEF TypeOK
  <1>c. /\ \A s \in Sessions : \A n \in Stamps(s) : n <= clock /\ n \in Nat
        /\ \A r, s \in Sessions : r # s => Stamps(r) \cap Stamps(s) = {}
    <2>1. \A s \in Sessions : \A n \in Stamps(s) : n \in Nat BY <1>b DEF Stamps
    <2> QED BY <1>a, <2>1 DEF CacheInv
  \* It is enough that the times are old ones, but for one session that has the newest.
  <1>d. ASSUME clock' \in {clock, clock + 1},
               \A s \in Sessions :
                   \/ \A n \in Stamps(s)' : n \in Stamps(s)
                   \/ /\ clock' = clock + 1
                      /\ \A r \in Sessions \ {s} : \A n \in Stamps(r)' : n \in Stamps(r)
                      /\ \A n \in Stamps(s)' : n \in Stamps(s) \cup {clock'}
        PROVE  /\ \A s \in Sessions : \A n \in Stamps(s)' : n <= clock'
               /\ \A r, s \in Sessions : r # s => Stamps(r)' \cap Stamps(s)' = {}
    <2>1. ASSUME NEW s \in Sessions, NEW n \in Stamps(s)' PROVE n <= clock'
      <3>1. n \in Stamps(s) \/ n = clock' BY <1>d, <2>1
      <3>2. n <= clock \/ n = clock' BY <1>c, <3>1
      <3> QED BY <1>b, <1>c, <1>d, <3>1, <3>2
    <2>2. ASSUME NEW r \in Sessions, NEW s \in Sessions, r # s,
                 NEW n, n \in Stamps(r)', n \in Stamps(s)'
          PROVE  FALSE
      <3>1. n \in Stamps(r) \/ (n = clock' /\ clock' = clock + 1) BY <1>d, <2>2
      <3>2. n \in Stamps(s) \/ (n = clock' /\ clock' = clock + 1) BY <1>d, <2>2
      <3>3. clock + 1 \notin Stamps(r) /\ clock + 1 \notin Stamps(s) BY <1>b, <1>c
      <3>4. n \in Stamps(r) \/ n \in Stamps(s) BY <1>d, <2>2, <3>1, <3>2
      <3>5. n \in Stamps(r) /\ n \in Stamps(s) BY <3>1, <3>2, <3>3, <3>4
      <3> QED BY <1>c, <2>2, <3>5
    <2> QED BY <2>1, <2>2
  <1>1. ASSUME NEW s \in Sessions, NEW events \in Seq(Lines), Loaded(s, events),
               metaTime[s] > 0, UNCHANGED <<metaTime, clock>>
        PROVE  CacheInv'
    <2>1. \A r \in Sessions : \A n \in Stamps(r)' : n \in Stamps(r)
      BY <1>1 DEF Loaded, Stamps
    <2>2. \A r \in cached' : metaTime'[r] > 0 /\ when'[r] > 0
      BY <1>1, <1>a, <1>b DEF Loaded, CacheInv
    <2>3. \A r \in Sessions \ cached' : mem'[r] = <<>> /\ when'[r] = 0 BY <1>1 DEF Loaded
    <2>4. clock' = clock BY <1>1
    <2>5. /\ \A r \in Sessions : \A n \in Stamps(r)' : n <= clock'
          /\ \A q, r \in Sessions : q # r => Stamps(q)' \cap Stamps(r)' = {}
      BY <1>d, <2>1, <2>4
    <2> QED BY <2>2, <2>3, <2>5 DEF CacheInv
  <1>2. ASSUME UNCHANGED <<cached, when, metaTime, clock>>,
               \A r \in Sessions : r \notin cached => mem'[r] = mem[r]
        PROVE  CacheInv'
    BY <1>2, <1>a, <1>b DEF CacheInv, Stamps
  <1>3. ASSUME NEW s \in Sessions, AppendBegin(s) PROVE CacheInv'
    <2>1. /\ s \in cached /\ clock' = clock + 1 /\ UNCHANGED <<cached, metaTime>>
          /\ mem' = [mem EXCEPT ![s] = Append(@, clock + 1)]
          /\ when' = [when EXCEPT ![s] = clock + 1]
      BY <1>3 DEF AppendBegin, diskVars
    <2>2. \A r \in Sessions : r # s => when'[r] = when[r] /\ mem'[r] = mem[r] BY <1>b, <2>1
    <2>3. when'[s] = clock' BY <1>b, <2>1
    <2>4. \A r \in Sessions \ {s} : Stamps(r)' = Stamps(r) BY <2>1, <2>2 DEF Stamps
    <2>5. \A n \in Stamps(s)' : n \in Stamps(s) \cup {clock'} BY <2>1, <2>3 DEF Stamps
    <2>6. /\ \A r \in Sessions : \A n \in Stamps(r)' : n <= clock'
          /\ \A q, r \in Sessions : q # r => Stamps(q)' \cap Stamps(r)' = {}
      BY <1>d, <2>1, <2>4, <2>5
    <2> QED BY <1>a, <1>b, <2>1, <2>2, <2>3, <2>6 DEF CacheInv
  <1>4. ASSUME NEW s \in Sessions, CreateBegin(s) PROVE CacheInv'
    <2>1. /\ clock' = clock + 1 /\ UNCHANGED <<cached, mem, when>>
          /\ metaTime' = [metaTime EXCEPT ![s] = clock + 1]
      BY <1>4 DEF CreateBegin, memVars
    <2>2. \A r \in Sessions : r # s => metaTime'[r] = metaTime[r] BY <1>b, <2>1
    <2>3. metaTime'[s] = clock' BY <1>b, <2>1
    <2>4. \A r \in Sessions \ {s} : Stamps(r)' = Stamps(r) BY <2>1, <2>2 DEF Stamps
    <2>5. \A n \in Stamps(s)' : n \in Stamps(s) \cup {clock'} BY <2>1, <2>3 DEF Stamps
    <2>6. /\ \A r \in Sessions : \A n \in Stamps(r)' : n <= clock'
          /\ \A q, r \in Sessions : q # r => Stamps(q)' \cap Stamps(r)' = {}
      BY <1>d, <2>1, <2>4, <2>5
    <2> QED BY <1>a, <1>b, <2>1, <2>2, <2>3, <2>6 DEF CacheInv
  <1>5. CASE AppendMeta
    <2>1. op.s \in Sessions /\ op.s \in cached
      BY <1>5, <1>a, OpShape DEF AppendMeta, HasSession, OpInv
    <2>2. /\ UNCHANGED <<cached, mem, when, clock>>
          /\ metaTime' = [metaTime EXCEPT ![op.s] = when[op.s]]
      BY <1>5 DEF AppendMeta, memVars, histVars
    <2>3. \A r \in Sessions : metaTime'[r] = metaTime[r] \/ metaTime'[r] = when[r]
      BY <1>b, <2>1, <2>2
    <2>4. \A r \in Sessions : \A n \in Stamps(r)' : n \in Stamps(r) BY <2>2, <2>3 DEF Stamps
    <2>5. /\ \A r \in Sessions : \A n \in Stamps(r)' : n <= clock'
          /\ \A q, r \in Sessions : q # r => Stamps(q)' \cap Stamps(r)' = {}
      BY <1>d, <2>2, <2>4
    <2> QED BY <1>a, <1>b, <2>1, <2>2, <2>3, <2>5 DEF CacheInv
  <1>6. CASE Crash
    <2>1. UNCHANGED <<metaTime, clock>> /\ cached' = {} BY <1>6 DEF Crash, diskVars, histVars
    <2>2. \A s \in Sessions : when'[s] = 0 /\ mem'[s] = <<>> BY <1>6 DEF Crash
    <2>3. \A r \in Sessions : \A n \in Stamps(r)' : n \in Stamps(r) BY <2>1, <2>2 DEF Stamps
    <2>4. /\ \A r \in Sessions : \A n \in Stamps(r)' : n <= clock'
          /\ \A q, r \in Sessions : q # r => Stamps(q)' \cap Stamps(r)' = {}
      BY <1>d, <2>1, <2>3
    <2> QED BY <2>1, <2>2, <2>4 DEF CacheInv
  <1>7. ASSUME NEW s \in Sessions, NEW b \in Branches, Entered(s, files[s][b]),
               UNCHANGED <<metaTime, clock>>
        PROVE  CacheInv'
    <2>1. \A r \in Sessions : r \notin cached => mem'[r] = mem[r] BY <1>7, <1>b DEF Entered
    <2> QED BY <1>2, <1>7, <2>1 DEF Entered
  <1>8. CASE UNCHANGED memVars /\ UNCHANGED <<metaTime, clock>> BY <1>2, <1>8 DEF memVars
  <1> QED BY <1>1, <1>3, <1>4, <1>5, <1>6, <1>7, <1>8, CacheSteps

-----------------------------------------------------------------------------
(***************************************************************************)
(* The table of branches, and where the operation is.                      *)
(***************************************************************************)
TableTyped == table \in [Sessions -> [active : Branches, head : [Branches -> Int]]]

\* What is read of the table after a head or the active branch was written.
WritesHead(s, b, n) == table' = [table EXCEPT ![s].head[b] = n]

LEMMA HeadWritten ==
    ASSUME TableTyped, NEW s \in Sessions, NEW b \in Branches, NEW n \in Int, WritesHead(s, b, n)
    PROVE  /\ \A r \in Sessions : Active(r)' = Active(r)
           /\ \A r \in Sessions : \A c \in Branches :
                 table'[r].head[c] = IF r = s /\ c = b THEN n ELSE table[r].head[c]
  <1>1. \A r \in Sessions : r # s => table'[r] = table[r] BY DEF TableTyped, WritesHead
  <1>2. table'[s].active = table[s].active BY DEF TableTyped, WritesHead
  <1>3. table'[s].head = [table[s].head EXCEPT ![b] = n] BY DEF TableTyped, WritesHead
  <1>4. table[s].head \in [Branches -> Int] BY DEF TableTyped, WritesHead
  <1> QED BY <1>1, <1>2, <1>3, <1>4 DEF Active

\* What is read of the table after the active branch was written.
LEMMA ActiveWritten ==
    ASSUME TableTyped, NEW s \in Sessions, NEW b \in Branches,
           table' = [table EXCEPT ![s].active = b]
    PROVE  /\ \A r \in Sessions : Active(r)' = IF r = s THEN b ELSE Active(r)
           /\ \A r \in Sessions : table'[r].head = table[r].head
           /\ \A r \in Sessions : Registered(r)' = Registered(r)
  <1>1. \A r \in Sessions : r # s => table'[r] = table[r] BY DEF TableTyped
  <1>2. table'[s].active = b /\ table'[s].head = table[s].head BY DEF TableTyped
  <1> QED BY <1>1, <1>2 DEF Active, Registered

\* The steps that write the table, and what they write.
LEMMA TableSteps ==
    ASSUME Structure, Step
    PROVE  /\ TableTyped
           /\ \/ /\ \A r \in Sessions : Active(r)' = Active(r) /\ Registered(r)' = Registered(r)
                 /\ \A r \in Sessions : \A b \in Registered(r) : table'[r].head[b] \in Nat
                 /\ ~ForkEnd /\ ~SwitchEnd
              \/ /\ ForkEnd
                 /\ \A r \in Sessions : Active(r)' = Active(r)
                 /\ \A r \in Sessions :
                       Registered(r)' = Registered(r) \cup (IF r = op.s THEN {op.b} ELSE {})
                 /\ \A r \in Sessions : \A b \in Registered(r)' : table'[r].head[b] \in Nat
              \/ /\ SwitchEnd
                 /\ \A r \in Sessions : Active(r)' = IF r = op.s THEN op.b ELSE Active(r)
                 /\ \A r \in Sessions : Registered(r)' = Registered(r)
                 /\ \A r \in Sessions : \A b \in Registered(r) : table'[r].head[b] \in Nat
  <1>a. TypeOK /\ OpInv /\ HeadsInv /\ TableTyped BY DEF Structure, TypeOK, TableTyped
  <1>b. \A r \in Sessions : Active(r) \in Registered(r) /\ Active(r) \in Branches
    BY <1>a DEF HeadsInv, Registered
  <1>c. TableTyped BY <1>a
  <1>1. ASSUME table' = table, ~ForkEnd, ~SwitchEnd
        PROVE  /\ \A r \in Sessions : Active(r)' = Active(r) /\ Registered(r)' = Registered(r)
               /\ \A r \in Sessions : \A b \in Registered(r) : table'[r].head[b] \in Nat
    BY <1>1, <1>a DEF HeadsInv, Active, Registered
  <1>2. CASE AppendHead /\ table' # table
    <2>1. /\ op.at = "stamped"
          /\ table' = [table EXCEPT ![op.s].head[Active(op.s)] = Len(mem[op.s]) - 1]
      BY <1>2 DEF AppendHead
    <2>2. op.s \in Sessions /\ mem[op.s] # <<>>
      BY <1>a, <2>1, OpShape DEF OpInv, HasSession
    <2>3. mem[op.s] \in Seq(Lines) BY <1>a, <2>2 DEF TypeOK
    <2>4. Len(mem[op.s]) - 1 \in Nat
      <3>1. Len(mem[op.s]) \in Nat /\ Len(mem[op.s]) # 0 BY <2>2, <2>3, EmptySeq
      <3> QED BY <3>1
    <2>5. Len(mem[op.s]) - 1 \in Int /\ Active(op.s) \in Branches BY <1>b, <2>2, <2>4
    <2> DEFINE n == Len(mem[op.s]) - 1
    <2>11. n \in Int /\ table' = [table EXCEPT ![op.s].head[Active(op.s)] = n] BY <2>1, <2>5
    <2> HIDE DEF n
    <2>6. /\ \A r \in Sessions : Active(r)' = Active(r)
          /\ \A r \in Sessions : \A c \in Branches :
                table'[r].head[c] = IF r = op.s /\ c = Active(op.s) THEN n ELSE table[r].head[c]
      <3>1. PICK s \in Sessions, b \in Branches, m \in Int : s = op.s /\ b = Active(op.s) /\ m = n
        BY <2>2, <2>5, <2>11
      <3>2. WritesHead(s, b, m) BY <2>11, <3>1 DEF WritesHead
      <3>3. /\ \A r \in Sessions : Active(r)' = Active(r)
            /\ \A r \in Sessions : \A c \in Branches :
                  table'[r].head[c] = IF r = s /\ c = b THEN m ELSE table[r].head[c]
        BY <1>c, <3>2, HeadWritten
      <3> QED BY <3>1, <3>3
    <2>7. n \in Nat /\ n # NoHead BY <2>4 DEF n, NoHead
    <2>8. \A r \in Sessions : Registered(r)' = Registered(r)
      BY <1>b, <2>2, <2>6, <2>7 DEF Registered
    <2>9. \A r \in Sessions : \A b \in Registered(r) : table'[r].head[b] \in Nat
      BY <1>a, <2>6, <2>7 DEF HeadsInv, Registered
    <2>10. ~ForkEnd /\ ~SwitchEnd BY <2>1 DEF ForkEnd, SwitchEnd
    <2> QED BY <1>a, <2>6, <2>8, <2>9, <2>10
  <1>3. CASE ForkEnd
    <2>1. table' = [table EXCEPT ![op.s].head[op.b] = table[op.s].head[Active(op.s)]]
      BY <1>3 DEF ForkEnd
    <2>2. op.s \in Sessions /\ op.b \in Branches BY <1>3, <1>a, OpShape DEF ForkEnd, HasBranch
    <2> DEFINE n == table[op.s].head[Active(op.s)]
    <2>3. n \in Nat /\ n \in Int /\ n # NoHead
      <3>1. n \in Nat BY <1>a, <1>b, <2>2 DEF HeadsInv
      <3> QED BY <3>1 DEF NoHead
    <2>7. table' = [table EXCEPT ![op.s].head[op.b] = n] BY <2>1
    <2> HIDE DEF n
    <2>4. /\ \A r \in Sessions : Active(r)' = Active(r)
          /\ \A r \in Sessions : \A c \in Branches :
                table'[r].head[c] = IF r = op.s /\ c = op.b THEN n ELSE table[r].head[c]
      <3>1. PICK s \in Sessions, b \in Branches, m \in Int : s = op.s /\ b = op.b /\ m = n
        BY <2>2, <2>3, <2>7
      <3>2. WritesHead(s, b, m) BY <2>7, <3>1 DEF WritesHead
      <3>3. /\ \A r \in Sessions : Active(r)' = Active(r)
            /\ \A r \in Sessions : \A c \in Branches :
                  table'[r].head[c] = IF r = s /\ c = b THEN m ELSE table[r].head[c]
        BY <1>c, <3>2, HeadWritten
      <3> QED BY <3>1, <3>3
    <2>5. \A r \in Sessions :
              Registered(r)' = Registered(r) \cup (IF r = op.s THEN {op.b} ELSE {})
      BY <2>2, <2>3, <2>4 DEF Registered
    <2>6. \A r \in Sessions : \A b \in Registered(r)' : table'[r].head[b] \in Nat
      BY <1>a, <2>3, <2>4, <2>5 DEF HeadsInv, Registered
    <2> QED BY <1>3, <1>a, <2>4, <2>5, <2>6
  <1>4. CASE SwitchEnd
    <2>1. table' = [table EXCEPT ![op.s].active = op.b] BY <1>4 DEF SwitchEnd
    <2>2. op.s \in Sessions /\ op.b \in Branches BY <1>4, <1>a, OpShape DEF SwitchEnd, HasBranch
    <2>3. /\ \A r \in Sessions : Active(r)' = IF r = op.s THEN op.b ELSE Active(r)
          /\ \A r \in Sessions : table'[r].head = table[r].head
          /\ \A r \in Sessions : Registered(r)' = Registered(r)
      BY <1>a, <2>1, <2>2, ActiveWritten
    <2> QED BY <1>4, <1>a, <2>3 DEF HeadsInv
  <1>5. table' = table \/ AppendHead \/ ForkEnd \/ SwitchEnd
    BY DEF Step, OperationGoesOn, CreateBegin, Get, AppendBegin, ForkBegin, SwitchBegin, Replaces,
           Replace, CreateEnd, AppendLog, AppendLogStops, AppendMeta, SwitchRewrite,
           SwitchRewriteFails, WriteFails, Crash, diskVars
  <1> QED BY <1>a, <1>1, <1>2, <1>3, <1>4, <1>5

\* Every step keeps the active branch registered, and heads are numbers.
LEMMA NextHeads ==
    ASSUME Structure, Step
    PROVE  HeadsInv'
  <1>a. HeadsInv /\ OpInv BY DEF Structure
  <1>1. SwitchEnd => op.s \in Sessions /\ op.b \in Registered(op.s)
    BY <1>a, OpShape DEF SwitchEnd, OpInv, HasBranch
  <1> QED BY <1>a, <1>1, TableSteps DEF HeadsInv

\* Where the operation is after a step.
LEMMA NextOpInv ==
    ASSUME Structure, Step
    PROVE  OpInv'
  <1>a. TypeOK /\ OpInv /\ CacheInv /\ LinesInv /\ HeadsInv BY DEF Structure
  <1>b. /\ clock \in Nat /\ metaTime \in [Sessions -> 0..MaxClock] /\ cached \subseteq Sessions
        /\ when \in [Sessions -> 0..MaxClock] /\ mem \in [Sessions -> Seq(Lines)]
        /\ log \in [Sessions -> Seq(Lines)]
    BY <1>a DEF TypeOK
  <1>c. /\ op.at \in HasSession => op.s \in Sessions /\ metaTime[op.s] > 0
        /\ op.at \in HasBranch =>
              op.s \in Sessions /\ op.b \in Branches /\ metaTime[op.s] > 0
    BY <1>a, OpShape
  \* The operation is over, or has a session that exists and is not being appended to.
  <1>i. ASSUME op' = Idle PROVE OpInv' BY <1>i DEF OpInv, Idle
  <1>j. ASSUME NEW s \in Sessions, NEW at \in {"created", "got"}, op' = [at |-> at, s |-> s],
               metaTime'[s] > 0
        PROVE  OpInv'
    <2>1. op'.at = at /\ op'.s = s /\ op' \in [at : HasSession, s : Sessions]
      BY <1>j, OpIsNew DEF HasSession
    <2> QED BY <1>j, <2>1 DEF OpInv
  <1>1. ASSUME NEW s \in Sessions, CreateBegin(s) PROVE OpInv'
    <2>1. metaTime'[s] > 0 BY <1>1, <1>b DEF CreateBegin
    <2> QED BY <1>1, <2>1, <1>j DEF CreateBegin
  <1>2. ASSUME NEW s \in Sessions, Get(s) PROVE OpInv'
    <2>1. metaTime'[s] > 0 BY <1>2 DEF Get, CanLoad, diskVars
    <2> QED BY <1>2, <2>1, <1>j DEF Get
  <1>3. ASSUME NEW s \in Sessions, AppendBegin(s) PROVE OpInv'
    <2>1. op'.at = "appending" /\ op'.s = s /\ op' \in [at : HasSession, s : Sessions]
      BY <1>3, OpIsNew DEF AppendBegin, HasSession
    <2>2. /\ s \in cached /\ clock' = clock + 1 /\ UNCHANGED <<cached, metaTime, log>>
          /\ mem' = [mem EXCEPT ![s] = Append(@, clock + 1)]
          /\ when' = [when EXCEPT ![s] = clock + 1]
      BY <1>3 DEF AppendBegin, diskVars
    <2>3. mem'[s] = Append(mem[s], clock + 1) /\ when'[s] = clock' BY <1>b, <2>2
    <2>4. mem'[s] # <<>> /\ Last(mem'[s]) = clock'
      <3>1. Fine(mem[s], clock) /\ clock + 1 \in Lines
        BY <1>a, <1>3, <1>b, LinesAre, SMTT(30) DEF LinesInv, AppendBegin
      <3>2. clock \in Int /\ clock >= -1 BY <1>b
      <3> QED BY <2>2, <2>3, <3>1, <3>2, LineAdded
    <2>5. metaTime'[s] > 0 BY <1>a, <2>2 DEF CacheInv
    <2>6. Fine(log'[s], clock' - 1)
      <3>1. clock' - 1 = clock BY <1>b, <2>2
      <3> QED BY <1>a, <2>2, <3>1 DEF LinesInv
    <2> QED BY <2>1, <2>2, <2>3, <2>4, <2>5, <2>6 DEF OpInv
  <1>4. ASSUME NEW s \in Sessions, NEW b \in Branches, ForkBegin(s, b) PROVE OpInv'
    <2>1. op'.at = "forked" /\ op'.s = s /\ op'.b = b
          /\ op' \in [at : HasBranch, s : Sessions, b : Branches]
      BY <1>4, OpIsNew DEF ForkBegin, HasBranch
    <2>2. metaTime'[s] > 0
      <3>1. CanLoad(s) /\ metaTime' = metaTime BY <1>4 DEF ForkBegin
      <3> QED BY <1>a, <3>1, EventsFine
    <2>3. b \notin Registered(s) /\ table' = table BY <1>4 DEF ForkBegin
    <2>4. b \notin Registered(s)' BY <2>3 DEF Registered
    <2> QED BY <2>1, <2>2, <2>4 DEF OpInv
  <1>5. ASSUME NEW s \in Sessions, NEW b \in Branches, SwitchBegin(s, b) PROVE OpInv'
    <2>1. op'.at = "saved" /\ op'.s = s /\ op'.b = b
          /\ op' \in [at : HasBranch, s : Sessions, b : Branches]
      BY <1>5, OpIsNew DEF SwitchBegin, HasBranch
    <2>2. metaTime'[s] > 0
      <3>1. CanLoad(s) /\ metaTime' = metaTime BY <1>5 DEF SwitchBegin
      <3> QED BY <1>a, <3>1, EventsFine
    <2>3. b \in Registered(s) /\ b # Active(s) /\ table' = table BY <1>5 DEF SwitchBegin
    <2>4. b \in Registered(s)' /\ b # Active(s)' BY <2>3 DEF Registered, Active
    <2> QED BY <2>1, <2>2, <2>4 DEF OpInv
  <1>6. CASE AppendLog
    <2>1. op'.at = "logged" /\ op'.s = op.s /\ op' \in [at : HasSession, s : Sessions]
      BY <1>6, <1>a, OpMoves DEF AppendLog, HasSession
    <2> QED BY <1>6, <1>a, <1>c, <2>1 DEF AppendLog, OpInv, memVars, histVars, HasSession
  <1>7. CASE AppendMeta
    <2>1. op'.at = "stamped" /\ op'.s = op.s /\ op' \in [at : HasSession, s : Sessions]
      BY <1>7, <1>a, OpMoves DEF AppendMeta, HasSession
    <2>2. op.s \in cached /\ mem[op.s] # <<>> /\ Last(mem[op.s]) = clock /\ when[op.s] = clock
      BY <1>7, <1>a DEF AppendMeta, OpInv
    <2>3. op.s \in Sessions /\ when[op.s] > 0 BY <1>a, <1>b, <2>2 DEF CacheInv
    <2>4. metaTime'[op.s] > 0 BY <1>7, <1>b, <2>3 DEF AppendMeta
    <2>5. UNCHANGED <<cached, mem, when, clock>> BY <1>7 DEF AppendMeta, memVars, histVars
    <2> QED BY <2>1, <2>2, <2>4, <2>5 DEF OpInv
  <1>8. CASE SwitchRewrite
    <2>1. op'.at = "rewritten" /\ op'.s = op.s /\ op'.b = op.b
          /\ op' \in [at : HasBranch, s : Sessions, b : Branches]
      BY <1>8, <1>a, OpMoves DEF SwitchRewrite, HasBranch
    <2>2. UNCHANGED <<metaTime, table>> /\ op.at = "saved" BY <1>8 DEF SwitchRewrite
    <2>3. PICK s \in Sessions, b \in Branches : op.s = s /\ op.b = b
      BY <1>c, <2>2 DEF HasBranch
    <2>4. b \in Registered(s) /\ b # Active(s) BY <1>a, <2>2, <2>3 DEF OpInv
    <2>5. b \in Registered(s)' /\ b # Active(s)' BY <2>2, <2>4 DEF Registered, Active
    <2>6. metaTime'[s] > 0 BY <1>c, <2>2, <2>3 DEF HasBranch
    <2> QED BY <2>1, <2>3, <2>5, <2>6 DEF OpInv
  <1>9. CASE \/ CreateEnd \/ AppendLogStops \/ AppendHead \/ ForkEnd \/ SwitchRewriteFails
             \/ SwitchEnd \/ WriteFails \/ Crash
    BY <1>9, <1>i DEF CreateEnd, AppendLogStops, AppendHead, ForkEnd, SwitchRewriteFails,
                      SwitchEnd, WriteFails, Crash
  <1>10. ASSUME NEW s \in Sessions, NEW less \in Seq(Lines), Replaces(s, less) PROVE OpInv'
    BY <1>10, <1>i DEF Replaces, Replace
  <1> QED
    BY <1>1, <1>2, <1>3, <1>4, <1>5, <1>6, <1>7, <1>8, <1>9, <1>10 DEF Step, OperationGoesOn

-----------------------------------------------------------------------------
(***************************************************************************)
(* The lines in memory, in the log and in the files of the branches.       *)
(***************************************************************************)
\* A session that has a file of events keeps it.
LEMMA UnbornShrinks ==
    ASSUME Structure, Step
    PROVE  \A r \in Sessions : Unborn(r)' => Unborn(r)
  <1>a. TypeOK /\ OpInv /\ CacheInv BY DEF Structure
  <1>b. metaTime \in [Sessions -> 0..MaxClock] /\ clock \in Nat /\ cached \subseteq Sessions
    BY <1>a DEF TypeOK
  <1>1. ASSUME NEW s \in Sessions, CreateBegin(s) PROVE \A r \in Sessions : Unborn(r)' => Unborn(r)
    <2>1. op'.s = s /\ metaTime[s] = 0 /\ metaTime' = [metaTime EXCEPT ![s] = clock + 1]
      BY <1>1 DEF CreateBegin
    <2> QED BY <1>b, <2>1 DEF Unborn
  <1>2. CASE AppendMeta
    <2>1. op.s \in Sessions /\ op.s \in cached /\ op.at = "logged"
      BY <1>2, <1>a, OpShape DEF AppendMeta, HasSession, OpInv
    <2>2. metaTime' = [metaTime EXCEPT ![op.s] = when[op.s]] BY <1>2 DEF AppendMeta
    <2>3. when[op.s] > 0 BY <1>a, <2>1 DEF CacheInv
    <2>4. op'.at = "logged" \/ op'.at = "stamped"
      BY <1>2, <1>a, <2>1, OpMoves DEF AppendMeta, HasSession
    <2> QED BY <1>b, <2>1, <2>2, <2>3, <2>4 DEF Unborn
  <1>3. ASSUME metaTime' = metaTime, op'.at # "created"
        PROVE  \A r \in Sessions : Unborn(r)' => Unborn(r)
    BY <1>3 DEF Unborn
  <1>4. ASSUME NEW s \in Sessions, Get(s) \/ AppendBegin(s)
        PROVE  metaTime' = metaTime /\ op'.at # "created"
    BY <1>4 DEF Get, AppendBegin, diskVars
  <1>5. ASSUME NEW s \in Sessions, NEW b \in Branches, ForkBegin(s, b) \/ SwitchBegin(s, b)
        PROVE  metaTime' = metaTime /\ op'.at # "created"
    BY <1>5 DEF ForkBegin, SwitchBegin
  <1>6. CASE AppendLog \/ SwitchRewrite
    <2>1. op'.at \in {"logged", "rewritten"} /\ metaTime' = metaTime
      BY <1>6, <1>a, OpMoves DEF AppendLog, SwitchRewrite, HasSession, HasBranch
    <2> QED BY <2>1, <1>3
  <1>7. CASE \/ CreateEnd \/ AppendLogStops \/ AppendHead \/ ForkEnd \/ SwitchRewriteFails
             \/ SwitchEnd \/ WriteFails \/ Crash
             \/ \E s \in Sessions, less \in Seq(Lines) : Replaces(s, less)
    <2>1. op'.at = "idle" /\ metaTime' = metaTime
      BY <1>7 DEF CreateEnd, AppendLogStops, AppendHead, ForkEnd, SwitchRewriteFails, SwitchEnd,
                  WriteFails, Crash, Replaces, Replace, Idle, diskVars
    <2> QED BY <2>1, <1>3
  <1> QED BY <1>1, <1>2, <1>3, <1>4, <1>5, <1>6, <1>7 DEF Step, OperationGoesOn

\* Memory holds lists that are fine: loaded ones, a branch, or what it held with an event.
LEMMA NextMemory ==
    ASSUME Structure, Step
    PROVE  \A r \in Sessions : Fine(mem[r], clock)' /\ Readable(mem[r])'
  <1>a. TypeOK /\ LinesInv BY DEF Structure
  <1>b. clock \in Nat /\ mem \in [Sessions -> Seq(Lines)] BY <1>a DEF TypeOK
  <1>c. \A r \in Sessions : Fine(mem[r], clock) /\ Readable(mem[r]) BY <1>a DEF LinesInv
  <1>d. Fine(<<>>, clock) /\ Readable(<<>>) BY <1>b, NoLines
  <1>1. ASSUME NEW s \in Sessions, NEW events, Loaded(s, events), Fine(events, clock),
               Readable(events), clock' = clock, NEW r \in Sessions
        PROVE  Fine(mem'[r], clock') /\ Readable(mem'[r])
    <2>1. mem'[r] = events \/ mem'[r] = mem[r] \/ mem'[r] = <<>> BY <1>1 DEF Loaded
    <2> QED BY <1>1, <1>c, <1>d, <2>1
  <1>2. ASSUME NEW s \in Sessions, NEW b \in Branches, Entered(s, files[s][b]), clock' = clock,
               NEW r \in Sessions
        PROVE  Fine(mem'[r], clock') /\ Readable(mem'[r])
    <2>1. mem'[r] = files[s][b] \/ mem'[r] = mem[r] BY <1>2, <1>b DEF Entered
    <2>2. Fine(files[s][b], clock) /\ Readable(files[s][b]) BY <1>a DEF LinesInv
    <2> QED BY <1>2, <1>c, <2>1, <2>2
  <1>3. ASSUME NEW s \in Sessions, AppendBegin(s), NEW r \in Sessions
        PROVE  Fine(mem'[r], clock') /\ Readable(mem'[r])
    <2>1. clock' = clock + 1 /\ mem' = [mem EXCEPT ![s] = Append(@, clock + 1)]
      BY <1>3 DEF AppendBegin
    <2>2. CASE r # s
      <3>1. mem'[r] = mem[r] BY <1>b, <2>1, <2>2
      <3>2. Fine(mem[r], clock + 1) BY <1>b, <1>c, FineGrows
      <3> QED BY <1>c, <2>1, <3>1, <3>2
    <2>3. CASE r = s
      <3>0. clock + 1 \in Lines BY <1>3, <1>b, StoreAssumption DEF AppendBegin, Lines
      <3>1. clock + 1 # Bad BY <1>b DEF Bad
      <3>2. clock \in Int /\ clock >= -1 BY <1>b
      <3>3. Fine(Append(mem[s], clock + 1), clock + 1)
            /\ ToSet(Append(mem[s], clock + 1)) = ToSet(mem[s]) \cup {clock + 1}
        BY <1>c, <3>0, <3>2, LineAdded
      <3>4. mem'[r] = Append(mem[s], clock + 1) BY <1>b, <2>1, <2>3
      <3> QED BY <1>c, <2>1, <3>1, <3>3, <3>4 DEF Readable
    <2> QED BY <2>2, <2>3
  <1>4. ASSUME NEW s \in Sessions, CreateBegin(s), NEW r \in Sessions
        PROVE  Fine(mem'[r], clock') /\ Readable(mem'[r])
    <2>1. clock' = clock + 1 /\ mem' = mem BY <1>4 DEF CreateBegin, memVars
    <2>2. Fine(mem[r], clock + 1) BY <1>b, <1>c, FineGrows
    <2> QED BY <1>c, <2>1, <2>2
  <1>5. ASSUME mem' = mem, clock' = clock, NEW r \in Sessions
        PROVE  Fine(mem'[r], clock') /\ Readable(mem'[r])
    BY <1>5, <1>c
  <1>6. ASSUME Crash, NEW r \in Sessions PROVE Fine(mem'[r], clock') /\ Readable(mem'[r])
    <2>1. mem'[r] = <<>> /\ clock' = clock BY <1>6 DEF Crash, histVars
    <2> QED BY <1>d, <2>1
  <1>7. AppendMeta => mem' = mem /\ clock' = clock BY DEF AppendMeta, memVars, histVars
  <1>8. ASSUME NEW r \in Sessions PROVE Fine(mem'[r], clock') /\ Readable(mem'[r])
    BY <1>1, <1>2, <1>3, <1>4, <1>5, <1>6, <1>7, CacheSteps DEF memVars
  <1> QED BY <1>8 DEF Fine, Readable, Ascending

\* The files of the branches hold lists that were in memory, or the first events of one.
LEMMA NextFiles ==
    ASSUME Structure, Step
    PROVE  \A r \in Sessions : \A c \in Branches :
              Fine(files[r][c], clock)' /\ Readable(files[r][c])'
  <1>a. TypeOK /\ CacheInv /\ LinesInv /\ HeadsInv BY DEF Structure
  <1>b. clock \in Nat /\ files \in [Sessions -> [Branches -> Seq(Lines)]] BY <1>a DEF TypeOK
  <1>c. \A r \in Sessions : \A c \in Branches : Fine(files[r][c], clock) /\ Readable(files[r][c])
    BY <1>a DEF LinesInv
  <1>d. \A r \in Sessions : \A c \in Branches : Fine(files[r][c], clock + 1)
    BY <1>b, <1>c, FineGrows
  <1>1. ASSUME files' = files, clock' \in {clock, clock + 1}, NEW r \in Sessions, NEW c \in Branches
        PROVE  Fine(files'[r][c], clock') /\ Readable(files'[r][c])
    BY <1>1, <1>c, <1>d
  <1>2. ASSUME NEW s \in Sessions, NEW b \in Branches,
               NEW lines, Fine(lines, clock), Readable(lines),
               files' = [files EXCEPT ![s][b] = lines], clock' = clock,
               NEW r \in Sessions, NEW c \in Branches
        PROVE  Fine(files'[r][c], clock') /\ Readable(files'[r][c])
    <2>1. files'[r][c] = lines \/ files'[r][c] = files[r][c] BY <1>2, <1>b
    <2> QED BY <1>2, <1>c, <2>1
  <1>3. ASSUME NEW s \in Sessions, NEW b \in Branches, ForkBegin(s, b),
               NEW r \in Sessions, NEW c \in Branches
        PROVE  Fine(files'[r][c], clock') /\ Readable(files'[r][c])
    <2>1. CanLoad(s) /\ files' = [files EXCEPT ![s][b] = Fork(s, Events(s))] /\ clock' = clock
      BY <1>3 DEF ForkBegin, histVars
    <2>2. Fine(Events(s), clock) /\ Readable(Events(s)) BY <1>a, <2>1, EventsFine
    <2>3. clock \in Int BY <1>b
    <2>4. Fine(Fork(s, Events(s)), clock) /\ Readable(Fork(s, Events(s)))
      BY <1>a, <2>2, <2>3, ForkFine
    <2> QED BY <1>2, <2>1, <2>4
  <1>4. ASSUME NEW s \in Sessions, NEW b \in Branches, SwitchBegin(s, b),
               NEW r \in Sessions, NEW c \in Branches
        PROVE  Fine(files'[r][c], clock') /\ Readable(files'[r][c])
    <2>1. CanLoad(s) /\ files' = [files EXCEPT ![s][Active(s)] = Events(s)] /\ clock' = clock
      BY <1>4 DEF SwitchBegin, histVars
    <2>2. Fine(Events(s), clock) /\ Readable(Events(s)) BY <1>a, <2>1, EventsFine
    <2>3. Active(s) \in Branches BY <1>a DEF HeadsInv, Registered
    <2> QED BY <1>2, <2>1, <2>2, <2>3
  <1>5. \/ files' = files /\ clock' \in {clock, clock + 1}
        \/ \E s \in Sessions, b \in Branches : ForkBegin(s, b) \/ SwitchBegin(s, b)
    BY DEF Step, OperationGoesOn, CreateBegin, Get, AppendBegin, Replaces, Replace, CreateEnd,
           AppendLog, AppendLogStops, AppendMeta, AppendHead, ForkEnd, SwitchRewrite,
           SwitchRewriteFails, SwitchEnd, WriteFails, Crash, diskVars, histVars
  <1>6. ASSUME NEW r \in Sessions, NEW c \in Branches
        PROVE  Fine(files'[r][c], clock') /\ Readable(files'[r][c])
    BY <1>1, <1>3, <1>4, <1>5
  <1> QED BY <1>6 DEF Fine, Readable, Ascending

\* The log holds such lists too, and at its end perhaps a line that is no event.
LEMMA NextLog ==
    ASSUME Structure, Step
    PROVE  \A r \in Sessions :
              /\ Fine(log[r], clock)'
              /\ torn'[r] => ~Readable(log[r])' /\ ~Unborn(r)'
  <1>a. TypeOK /\ OpInv /\ CacheInv /\ LinesInv /\ HeadsInv BY DEF Structure
  <1>b. /\ clock \in Nat /\ log \in [Sessions -> Seq(Lines)] /\ torn \in [Sessions -> BOOLEAN]
        /\ mem \in [Sessions -> Seq(Lines)]
    BY <1>a DEF TypeOK
  <1>c. \A r \in Sessions : /\ Fine(log[r], clock) /\ Fine(log[r], clock + 1)
                            /\ torn[r] => ~Readable(log[r]) /\ ~Unborn(r)
    BY <1>a, <1>b, FineGrows DEF LinesInv
  <1>d. \A r \in Sessions : Unborn(r)' => Unborn(r) BY UnbornShrinks
  <1>1. ASSUME NEW r \in Sessions, UNCHANGED <<log, torn>>, clock' \in {clock, clock + 1}
        PROVE  Fine(log'[r], clock') /\ (torn'[r] => ~Readable(log'[r]) /\ ~Unborn(r)')
    BY <1>1, <1>c, <1>d
  \* One list is another one, and it is not torn, or it ends in what is no event.
  <1>2. ASSUME NEW s \in Sessions, NEW lines, log' = [log EXCEPT ![s] = lines], clock' = clock,
               Fine(lines, clock),
               \/ torn' = [torn EXCEPT ![s] = FALSE]
               \/ torn' = torn /\ ~torn[s]
               \/ torn' = [torn EXCEPT ![s] = TRUE] /\ ~Readable(lines) /\ ~Unborn(s),
               NEW r \in Sessions
        PROVE  Fine(log'[r], clock') /\ (torn'[r] => ~Readable(log'[r]) /\ ~Unborn(r)')
    <2>1. CASE r = s
      <3>1. log'[r] = lines BY <1>2, <1>b, <2>1
      <3>2. torn'[r] => ~Readable(lines) /\ ~Unborn(s) BY <1>2, <1>b, <2>1
      <3> QED BY <1>2, <1>d, <2>1, <3>1, <3>2
    <2>2. CASE r # s
      <3>1. log'[r] = log[r] /\ torn'[r] = torn[r] BY <1>2, <1>b, <2>2
      <3> QED BY <1>2, <1>c, <1>d, <3>1
    <2> QED BY <2>1, <2>2
  <1>3. ASSUME NEW r \in Sessions, CreateEnd
        PROVE  Fine(log'[r], clock') /\ (torn'[r] => ~Readable(log'[r]) /\ ~Unborn(r)')
    <2>1. op.at = "created" /\ log' = [log EXCEPT ![op.s] = <<>>] /\ torn' = torn /\ clock' = clock
      BY <1>3 DEF CreateEnd, histVars
    <2>2. op.s \in Sessions BY <1>a, <2>1, OpShape DEF HasSession
    <2>3. ~torn[op.s] BY <1>c, <2>1, <2>2 DEF Unborn
    <2>4. Fine(<<>>, clock) BY <1>b, NoLines
    <2> QED BY <1>2, <2>1, <2>2, <2>3, <2>4
  <1>4. ASSUME NEW r \in Sessions, NEW s \in Sessions, NEW less \in Seq(Lines), Replaces(s, less)
        PROVE  Fine(log'[r], clock') /\ (torn'[r] => ~Readable(log'[r]) /\ ~Unborn(r)')
    <2>1. /\ clock' = clock
          /\ \/ log' = [log EXCEPT ![s] = less] /\ torn' = [torn EXCEPT ![s] = FALSE]
             \/ UNCHANGED <<log, torn>>
      BY <1>4 DEF Replaces, Replace
    <2>2. Fine(less, clock) BY <1>4, <1>a, ReplacementFine DEF Replaces
    <2> QED BY <1>1, <1>2, <2>1, <2>2
  <1>5. ASSUME NEW r \in Sessions, AppendLog
        PROVE  Fine(log'[r], clock') /\ (torn'[r] => ~Readable(log'[r]) /\ ~Unborn(r)')
    <2>1. /\ op.at = "appending" /\ clock' = clock
          /\ log' = IF torn[op.s] THEN log ELSE [log EXCEPT ![op.s] = Append(@, Last(mem[op.s]))]
          /\ torn' = [torn EXCEPT ![op.s] = FALSE]
      BY <1>5 DEF AppendLog, histVars
    <2>2. PICK s \in Sessions : s = op.s BY <1>a, <2>1, OpShape DEF HasSession
    <2>3. Last(mem[s]) = clock /\ Fine(log[s], clock - 1) BY <1>a, <2>1, <2>2 DEF OpInv
    <2>4. clock \in Lines BY <1>a, StoreAssumption DEF TypeOK, Lines, Summary
    <2>5. clock - 1 \in Int /\ clock - 1 >= -1 /\ clock = (clock - 1) + 1 BY <1>b
    <2>6. Fine(Append(log[s], clock), clock) BY <2>3, <2>4, <2>5, LineAdded
    <2>7. CASE torn[s]
      <3>1. log' = log BY <2>1, <2>2, <2>7
      <3>2. torn'[r] => torn[r] BY <1>b, <2>1, <2>2
      <3> QED BY <1>c, <1>d, <2>1, <3>1, <3>2
    <2>8. CASE ~torn[s]
      <3>1. log' = [log EXCEPT ![s] = Append(log[s], clock)] BY <1>b, <2>1, <2>2, <2>3, <2>8
      <3> QED BY <1>2, <2>1, <2>2, <2>6, <3>1
    <2> QED BY <2>7, <2>8
  <1>6. ASSUME NEW r \in Sessions, AppendLogStops
        PROVE  Fine(log'[r], clock') /\ (torn'[r] => ~Readable(log'[r]) /\ ~Unborn(r)')
    <2>1. /\ op.at = "appending" /\ clock' = clock
          /\ \/ UNCHANGED <<log, torn>>
             \/ /\ log' = IF torn[op.s] THEN log ELSE [log EXCEPT ![op.s] = Append(@, Bad)]
                /\ torn' = [torn EXCEPT ![op.s] = TRUE]
      BY <1>6 DEF AppendLogStops, histVars
    <2>2. PICK s \in Sessions : s = op.s BY <1>a, <2>1, OpShape DEF HasSession
    <2>3. ~Unborn(s)
      <3>1. metaTime[s] > 0 BY <1>a, <2>1, <2>2, OpShape DEF HasSession
      <3>2. metaTime[s] \in Nat BY <1>a DEF TypeOK
      <3> QED BY <2>1, <3>1, <3>2 DEF Unborn
    <2>4. CASE UNCHANGED <<log, torn>> BY <1>1, <2>1, <2>4
    <2>5. CASE torn[s] /\ log' = log /\ torn' = [torn EXCEPT ![s] = TRUE]
      <3>1. torn'[r] => torn[r] BY <1>b, <2>5
      <3> QED BY <1>c, <1>d, <2>1, <2>5, <3>1
    <2>6. CASE log' = [log EXCEPT ![s] = Append(log[s], Bad)] /\ torn' = [torn EXCEPT ![s] = TRUE]
      <3>1. Fine(log[s], clock - 1) /\ clock - 1 \in Int /\ clock - 1 >= -1
        BY <1>a, <1>b, <2>1, <2>2 DEF OpInv
      <3>2. Bad \in Lines BY DEF Lines
      <3>3. Fine(Append(log[s], Bad), (clock - 1) + 1)
            /\ ToSet(Append(log[s], Bad)) = ToSet(log[s]) \cup {Bad}
        BY <3>1, <3>2, LineAdded
      <3>4. (clock - 1) + 1 = clock BY <1>b
      <3>5. ~Readable(Append(log[s], Bad)) BY <3>3 DEF Readable
      <3>6. Fine(Append(log[s], Bad), clock) BY <3>3, <3>4
      <3> QED BY <1>2, <2>1, <2>3, <2>6, <3>5, <3>6
    <2> QED BY <1>b, <2>1, <2>2, <2>4, <2>5, <2>6
  <1>7. ASSUME NEW r \in Sessions, SwitchRewrite
        PROVE  Fine(log'[r], clock') /\ (torn'[r] => ~Readable(log'[r]) /\ ~Unborn(r)')
    <2>1. /\ op.at = "saved" /\ clock' = clock
          /\ log' = [log EXCEPT ![op.s] = files[op.s][op.b]]
          /\ torn' = [torn EXCEPT ![op.s] = FALSE]
      BY <1>7 DEF SwitchRewrite, histVars
    <2>2. op.s \in Sessions /\ op.b \in Branches BY <1>a, <2>1, OpShape DEF HasBranch
    <2>3. Fine(files[op.s][op.b], clock) BY <1>a, <2>2 DEF LinesInv
    <2> QED BY <1>2, <2>1, <2>2, <2>3
  <1>8. \/ UNCHANGED <<log, torn>> /\ clock' \in {clock, clock + 1}
        \/ CreateEnd \/ AppendLog \/ AppendLogStops \/ SwitchRewrite
        \/ \E s \in Sessions : \E less \in Seq(Lines) : Replaces(s, less)
    BY DEF Step, OperationGoesOn, CreateBegin, Get, AppendBegin, ForkBegin, SwitchBegin,
           AppendMeta, AppendHead, ForkEnd, SwitchRewriteFails, SwitchEnd, WriteFails, Crash,
           diskVars, histVars
  <1>9. ASSUME NEW r \in Sessions
        PROVE  Fine(log'[r], clock') /\ (torn'[r] => ~Readable(log'[r]) /\ ~Unborn(r)')
    BY <1>1, <1>3, <1>4, <1>5, <1>6, <1>7, <1>8
  <1> QED BY <1>9 DEF Fine, Readable, Ascending

-----------------------------------------------------------------------------
(***************************************************************************)
(* The structure is an invariant.                                          *)
(***************************************************************************)
LEMMA InitStructure == Init => Structure
  <1> SUFFICES ASSUME Init PROVE Structure OBVIOUS
  <1>1. /\ <<>> \in Seq(Lines) /\ 0 \in 0..MaxClock /\ Main \in Branches
        /\ Cardinality({}) = 0 /\ MaxCached \in Nat
    BY StoreAssumption, FS_EmptySet DEF Branches
  <1>2. Fine(<<>>, 0) /\ Readable(<<>>) BY NoLines
  <1>3. DefaultTable \in [active : Branches, head : [Branches -> Int]]
    BY <1>1 DEF DefaultTable, NoHead
  <1>4. TypeOK BY <1>1, <1>3 DEF Init, TypeOK
  <1>5. OpInv BY DEF Init, OpInv, Idle
  <1>6. CacheInv BY DEF Init, CacheInv, Stamps
  <1>7. LinesInv BY <1>2 DEF Init, LinesInv
  <1>8. HeadsInv BY <1>1 DEF Init, HeadsInv, Active, Registered, DefaultTable, NoHead
  <1> QED BY <1>4, <1>5, <1>6, <1>7, <1>8 DEF Structure

\* Every step keeps Structure.
LEMMA NextStructure == Structure /\ [Next]_vars => Structure'
  <1>1. ASSUME Structure, Next PROVE Structure'
    <2>1. Step BY <1>1, NextIsStep DEF Structure
    <2>2. OpInv' /\ CacheInv' /\ HeadsInv'
      BY <1>1, <2>1, NextOpInv, NextCacheInv, NextHeads
    <2>3. LinesInv' BY <1>1, <2>1, NextMemory, NextFiles, NextLog DEF LinesInv
    <2>4. TypeOK' BY <1>1, <2>1, <2>2, NextDiskTyped, NextCacheTyped, TypesSplit
    <2> QED BY <2>2, <2>3, <2>4 DEF Structure
  <1>2. ASSUME Structure, UNCHANGED vars PROVE Structure'
    <2> USE <1>2 DEF vars, diskVars, memVars, histVars
    <2>1. TypeOK' BY DEF Structure, TypeOK
    <2>2. OpInv' BY DEF Structure, OpInv, Fine, Ascending, Registered, Active
    <2>3. CacheInv' BY DEF Structure, CacheInv, Stamps
    <2>4. LinesInv' BY DEF Structure, LinesInv, Fine, Ascending, Readable, Unborn
    <2>5. HeadsInv' BY DEF Structure, HeadsInv, Active, Registered
    <2> QED BY <2>1, <2>2, <2>3, <2>4, <2>5 DEF Structure
  <1> QED BY <1>1, <1>2

\* It holds in every behaviour.
LEMMA StructureInvariant == Spec => []Structure
  BY InitStructure, NextStructure, PTL DEF Spec

\* Every file, the cache and its limit, the operation and the history keep their types:
\* eviction finds whom to evict (store.go, evictCachedSessionsLocked).
THEOREM TypeCorrect == Spec => []TypeOK
  <1>1. Structure => TypeOK BY DEF Structure
  <1> QED BY <1>1, StructureInvariant, PTL

\* No list of events, in memory, in the log or in the file of a branch, ever has an event
\* twice or out of its order, also when switches, writes and rewrites fail half-way.
THEOREM EventsInOrder == Spec => []InOrder
  <1>1. Structure => InOrder BY DEF Structure, LinesInv, InOrder, Fine
  <1> QED BY <1>1, StructureInvariant, PTL

-----------------------------------------------------------------------------
(***************************************************************************)
(* The history, for sessions whose switches get through.                   *)
(***************************************************************************)
\* What the history is about has its types.
LEMMA HistoryTyped ==
    ASSUME TypeOK
    PROVE  /\ clock \in Nat /\ torn \in [Sessions -> BOOLEAN]
           /\ log \in [Sessions -> Seq(Lines)] /\ mem \in [Sessions -> Seq(Lines)]
           /\ files \in [Sessions -> [Branches -> Seq(Lines)]]
           /\ owed \in [Sessions -> [Branches -> SUBSET (1..MaxClock)]]
           /\ mine \in [Sessions -> [Branches -> SUBSET (1..MaxClock)]]
  <1>1. clock \in Nat BY DEF TypeOK
  <1> QED BY <1>1, Zenon DEF TypeOK

\* A branch on disk has what it owes, and nothing of another one.
DiskOf(s, b) ==
    /\ Readable(Content(s, b)) => owed[s][b] \subseteq EventsOf(Content(s, b))
    /\ b \in Registered(s) => EventsOf(Content(s, b)) \subseteq mine[s][b]

\* So has memory.
MemOf(s) ==
    /\ s \in cached => owed[s][OnBranch(s)] \subseteq EventsOf(mem[s])
    /\ EventsOf(mem[s]) \subseteq mine[s][OnBranch(s)]

History ==
    /\ NothingYet
    /\ UnderWay
    /\ \A s \in Sessions : \A b \in Branches : DiskOf(s, b)
    /\ \A s \in Sessions : MemOf(s)

\* The branch that the log holds changes when it is rewritten, and at no other step.
LEMMA OnBranchSteps ==
    ASSUME SwitchWhole, Structure, Step
    PROVE  \A r \in Sessions :
              OnBranch(r)' = IF SwitchRewrite /\ r = op.s THEN op.b ELSE OnBranch(r)
  <1>a. OpInv BY DEF Structure
  <1> USE DEF OnBranch
  <1>1. CASE SwitchRewrite
    <2>1. op.at = "saved" /\ table' = table BY <1>1 DEF SwitchRewrite
    <2>2. op'.at = "rewritten" /\ op'.s = op.s /\ op'.b = op.b
      BY <1>1, <1>a, OpMoves DEF SwitchRewrite, HasBranch
    <2> QED BY <1>1, <2>1, <2>2 DEF Active
  <1>2. CASE SwitchEnd
    <2>1. op.at = "rewritten" /\ op'.at = "idle" BY <1>2 DEF SwitchEnd, Idle
    <2>2. \A r \in Sessions : Active(r)' = IF r = op.s THEN op.b ELSE Active(r)
      BY <1>2, TableSteps DEF SwitchEnd, ForkEnd
    <2>3. ~SwitchRewrite BY <2>1 DEF SwitchRewrite
    <2> QED BY <2>1, <2>2, <2>3
  <1>3. CASE ~SwitchRewrite /\ ~SwitchEnd
    <2>1. \A r \in Sessions : Active(r)' = Active(r) BY <1>3, TableSteps
    <2>2. op.at # "rewritten" /\ op'.at # "rewritten"
      <3>1. ASSUME NEW s \in Sessions,
                   \/ CreateBegin(s) \/ Get(s) \/ AppendBegin(s)
                   \/ \E b \in Branches : ForkBegin(s, b) \/ SwitchBegin(s, b)
                   \/ \E less \in Seq(Lines) : Replaces(s, less)
            PROVE  op.at # "rewritten" /\ op'.at # "rewritten"
        BY <3>1 DEF CreateBegin, Get, AppendBegin, ForkBegin, SwitchBegin, Replaces, Replace, Free,
                    Idle
      <3>2. CASE AppendLog \/ AppendMeta
        <4>1. op.at \in {"appending", "logged"} BY <3>2 DEF AppendLog, AppendMeta
        <4>2. op'.at \in {"logged", "stamped"}
          BY <3>2, <1>a, <4>1, OpMoves DEF AppendLog, AppendMeta, HasSession
        <4> QED BY <4>1, <4>2
      <3>3. CASE \/ CreateEnd \/ AppendLogStops \/ AppendHead \/ ForkEnd \/ SwitchRewriteFails
                 \/ WriteFails \/ Crash
        BY <3>3 DEF CreateEnd, AppendLogStops, AppendHead, ForkEnd, SwitchRewriteFails, WriteFails,
                    Crash, Idle
      <3> QED BY <1>3, <3>1, <3>2, <3>3 DEF Step, OperationGoesOn
    <2> QED BY <1>3, <2>1, <2>2
  <1> QED BY <1>1, <1>2, <1>3

\* What was owed of a list of events, and what it may hold, when it is read back.
LEMMA EventsServe ==
    ASSUME Structure, History, NEW s \in Sessions, CanLoad(s), Free
    PROVE  /\ OnBranch(s) = Active(s)
           /\ owed[s][Active(s)] \subseteq EventsOf(Events(s))
           /\ EventsOf(Events(s)) \subseteq mine[s][Active(s)]
  <1>1. OnBranch(s) = Active(s) BY DEF OnBranch, Free
  <1>2. Active(s) \in Branches /\ Active(s) \in Registered(s)
    BY DEF Structure, HeadsInv, Registered
  <1>3. CASE s \in cached BY <1>1, <1>3 DEF History, MemOf, Events
  <1>4. CASE s \notin cached
    <2>1. Content(s, Active(s)) = log[s] /\ Readable(log[s])
      BY <1>1, <1>4 DEF Content, CanLoad
    <2> QED BY <1>1, <1>2, <1>4, <2>1 DEF History, DiskOf, Events
  <1> QED BY <1>1, <1>3, <1>4

\* Nobody is owed an event of a branch that is not there.
LEMMA NextNothingYet ==
    ASSUME Structure, NothingYet, Step
    PROVE  NothingYet'
  <1>a. TypeOK /\ OpInv /\ HeadsInv BY DEF Structure
  <1>b. owed \in [Sessions -> [Branches -> SUBSET (1..MaxClock)]] BY <1>a DEF TypeOK
  <1>c. \A r \in Sessions : Unborn(r)' => Unborn(r) BY UnbornShrinks
  <1>d. \A r \in Sessions : \A b \in Branches :
            Unborn(r) \/ b \notin Registered(r) => owed[r][b] = {}
    BY DEF NothingYet
  <1>e. \A r \in Sessions : Active(r) \in Branches /\ Active(r) \in Registered(r)
    BY <1>a DEF HeadsInv, Registered
  <1>1. ASSUME NEW r \in Sessions, NEW b \in Branches, owed'[r][b] \subseteq owed[r][b], ~ForkEnd,
               Unborn(r)' \/ b \notin Registered(r)'
        PROVE  owed'[r][b] = {}
    <2>1. Registered(r)' = Registered(r) BY <1>1, TableSteps
    <2> QED BY <1>1, <1>c, <1>d, <2>1
  <1>2. ASSUME AppendHead, NEW r \in Sessions, NEW b \in Branches,
               Unborn(r)' \/ b \notin Registered(r)'
        PROVE  owed'[r][b] = {}
    <2>1. /\ op.at = "stamped"
          /\ owed' = [owed EXCEPT ![op.s][Active(op.s)] = @ \cup {Last(mem[op.s])}]
      BY <1>2 DEF AppendHead
    <2>2. op.s \in Sessions /\ metaTime[op.s] > 0 BY <1>a, <2>1, OpShape DEF HasSession
    <2>3. ~Unborn(op.s)
      <3>1. metaTime[op.s] # 0 BY <1>a, <2>2 DEF TypeOK
      <3> QED BY <2>1, <3>1 DEF Unborn
    <2>4. ~ForkEnd BY <2>1 DEF ForkEnd
    <2>5. ~SwitchEnd BY <2>1 DEF SwitchEnd
    <2>6. Registered(r)' = Registered(r) BY <2>4, <2>5, TableSteps
    <2>7. ~(r = op.s /\ b = Active(op.s)) BY <1>2, <1>c, <1>e, <2>2, <2>3, <2>6
    <2>8. owed'[r][b] = owed[r][b] BY <1>b, <1>e, <2>1, <2>2, <2>7
    <2> QED BY <1>2, <1>1, <2>4, <2>8
  <1>3. ASSUME ForkEnd, NEW r \in Sessions, NEW b \in Branches,
               Unborn(r)' \/ b \notin Registered(r)'
        PROVE  owed'[r][b] = {}
    <2>1. /\ op.at = "forked"
          /\ owed' = [owed EXCEPT ![op.s][op.b] =
                         owed[op.s][Active(op.s)] \cap ToSet(files[op.s][op.b])]
      BY <1>3 DEF ForkEnd
    <2>2. op.s \in Sessions /\ op.b \in Branches /\ metaTime[op.s] > 0
      BY <1>a, <2>1, OpShape DEF HasBranch
    <2>3. ~Unborn(op.s)
      <3>1. metaTime[op.s] # 0 BY <1>a, <2>2 DEF TypeOK
      <3> QED BY <2>1, <3>1 DEF Unborn
    <2>4. ~SwitchEnd BY <2>1 DEF SwitchEnd
    <2>5. Registered(r)' = Registered(r) \cup (IF r = op.s THEN {op.b} ELSE {})
      BY <1>3, <2>4, TableSteps
    <2>6. ~(r = op.s /\ b = op.b) BY <1>3, <1>c, <2>2, <2>3, <2>5
    <2>7. owed'[r][b] = owed[r][b] BY <1>b, <2>1, <2>2, <2>6
    <2> QED BY <1>3, <1>c, <1>d, <2>5, <2>7
  <1>4. ASSUME NEW s \in Sessions, NEW less \in Seq(Lines), Replaces(s, less),
               NEW r \in Sessions, NEW b \in Branches,
               Unborn(r)' \/ b \notin Registered(r)'
        PROVE  owed'[r][b] = {}
    <2>1. owed' = [owed EXCEPT ![s][Active(s)] = @ \cap ToSet(less)] /\ table' = table
      BY <1>4 DEF Replaces, Replace
    <2>2. owed'[r][b] \subseteq owed[r][b] BY <1>b, <1>e, <2>1
    <2>3. ~ForkEnd BY <1>4 DEF Replaces, Free, ForkEnd
    <2> QED BY <1>1, <1>4, <2>2, <2>3
  <1>5. \/ owed' = owed /\ ~ForkEnd
        \/ AppendHead \/ ForkEnd
        \/ \E s \in Sessions : \E less \in Seq(Lines) : Replaces(s, less)
    BY DEF Step, OperationGoesOn, CreateBegin, Get, AppendBegin, ForkBegin, SwitchBegin, CreateEnd,
           AppendLog, AppendLogStops, AppendMeta, SwitchRewrite, SwitchRewriteFails, SwitchEnd,
           WriteFails, Crash, histVars
  <1>6. ASSUME NEW r \in Sessions, NEW b \in Branches,
               Unborn(r)' \/ b \notin Registered(r)'
        PROVE  owed'[r][b] = {}
    BY <1>1, <1>2, <1>3, <1>4, <1>5, <1>6
  <1> QED BY <1>6 DEF NothingYet, Unborn, Registered

\* What the operation has still to do is not lost by its own steps.
LEMMA NextUnderWay ==
    ASSUME SwitchWhole, Structure, History, Step
    PROVE  UnderWay'
  <1>a. TypeOK /\ OpInv /\ CacheInv /\ LinesInv /\ HeadsInv /\ UnderWay
    BY DEF Structure, History
  <1>b. /\ clock \in Nat /\ mine \in [Sessions -> [Branches -> SUBSET (1..MaxClock)]]
        /\ log \in [Sessions -> Seq(Lines)] /\ files \in [Sessions -> [Branches -> Seq(Lines)]]
        /\ torn \in [Sessions -> BOOLEAN]
    BY <1>a DEF TypeOK
  <1>e. \A r \in Sessions : Active(r) \in Branches /\ Active(r) \in Registered(r)
    BY <1>a DEF HeadsInv, Registered
  <1>f. table' = table => \A r \in Sessions : Active(r)' = Active(r) BY DEF Active
  <1>1. ASSUME op'.at \in {"idle", "created", "got"} PROVE UnderWay' BY <1>1 DEF UnderWay
  <1>2. ASSUME NEW s \in Sessions, AppendBegin(s) PROVE UnderWay'
    <2>1. /\ clock' = clock + 1 /\ table' = table /\ op' = [at |-> "appending", s |-> s]
          /\ mine' = [mine EXCEPT ![s][Active(s)] = @ \cup {clock + 1}]
      BY <1>2 DEF AppendBegin, diskVars
    <2>2. clock' \in mine'[s][Active(s)'] BY <1>b, <1>e, <1>f, <2>1
    <2> QED BY <2>1, <2>2 DEF UnderWay
  <1>3. CASE AppendLog
    <2>1. /\ op.at = "appending" /\ UNCHANGED <<clock, mine, table>>
          /\ log' = IF torn[op.s] THEN log ELSE [log EXCEPT ![op.s] = Append(@, Last(mem[op.s]))]
      BY <1>3 DEF AppendLog, histVars
    <2>2. op'.at = "logged" /\ op'.s = op.s
      BY <1>3, <1>a, <2>1, OpMoves DEF AppendLog, HasSession
    <2>3. PICK s \in Sessions : s = op.s BY <1>a, <2>1, OpShape DEF HasSession
    <2>4. clock \in mine[s][Active(s)] BY <1>a, <2>1, <2>3 DEF UnderWay
    <2>5. Readable(log'[s]) => clock \in EventsOf(log'[s])
      <3>1. CASE torn[s]
        <4>1. log'[s] = log[s] BY <2>1, <2>3, <3>1
        <4> QED BY <1>a, <3>1, <4>1 DEF LinesInv
      <3>2. CASE ~torn[s]
        <4>1. Last(mem[s]) = clock /\ Fine(log[s], clock - 1) BY <1>a, <2>1, <2>3 DEF OpInv
        <4>2. log'[s] = Append(log[s], clock) BY <1>b, <2>1, <2>3, <3>2, <4>1
        <4>3. when[s] = clock /\ when[s] > 0 BY <1>a, <2>1, <2>3 DEF OpInv, CacheInv
        <4>4. clock \in Lines BY <1>a, StoreAssumption DEF TypeOK, Lines, Summary
        <4>5. clock - 1 \in Int /\ clock - 1 >= -1 /\ clock = (clock - 1) + 1 BY <1>b
        <4>6. ToSet(log'[s]) = ToSet(log[s]) \cup {clock} BY <4>1, <4>2, <4>4, <4>5, LineAdded
        <4>7. clock # Summary /\ clock # Bad BY <1>b, <4>3 DEF Summary, Bad
        <4> QED BY <4>6, <4>7 DEF EventsOf
      <3> QED BY <3>1, <3>2
    <2> QED BY <1>f, <2>1, <2>2, <2>3, <2>4, <2>5 DEF UnderWay, Readable, EventsOf
  <1>4. CASE AppendMeta
    <2>1. op.at = "logged" /\ UNCHANGED <<clock, mine, table, log>>
      BY <1>4 DEF AppendMeta, histVars
    <2>2. op'.at = "stamped" /\ op'.s = op.s
      BY <1>4, <1>a, <2>1, OpMoves DEF AppendMeta, HasSession
    <2>3. PICK s \in Sessions : s = op.s BY <1>a, <2>1, OpShape DEF HasSession
    <2> QED BY <1>a, <1>f, <2>1, <2>2, <2>3 DEF UnderWay, Readable, EventsOf
  <1>5. ASSUME NEW s \in Sessions, NEW b \in Branches, ForkBegin(s, b) PROVE UnderWay'
    <2>1. /\ Free /\ CanLoad(s) /\ UNCHANGED <<mine, table>>
          /\ files' = [files EXCEPT ![s][b] = Fork(s, Events(s))]
          /\ op' = [at |-> "forked", s |-> s, b |-> b]
      BY <1>5 DEF ForkBegin, histVars
    <2>2. EventsOf(Events(s)) \subseteq mine[s][Active(s)] BY <2>1, EventsServe
    <2>3. Fine(Events(s), clock) /\ Readable(Events(s)) /\ clock \in Int
      BY <1>a, <1>b, <2>1, EventsFine
    <2>4. EventsOf(Fork(s, Events(s))) \subseteq EventsOf(Events(s)) BY <1>a, <2>3, ForkFine
    <2>5. files'[s][b] = Fork(s, Events(s)) BY <1>b, <2>1
    <2>6. EventsOf(files'[s][b]) \subseteq mine'[s][Active(s)'] BY <1>f, <2>1, <2>2, <2>4, <2>5
    <2> QED BY <2>1, <2>6 DEF UnderWay, EventsOf
  <1>6. ASSUME NEW s \in Sessions, NEW b \in Branches, SwitchBegin(s, b) PROVE UnderWay'
    <2>1. /\ Free /\ CanLoad(s) /\ UNCHANGED <<mine, owed, table>>
          /\ files' = [files EXCEPT ![s][Active(s)] = Events(s)]
          /\ op' = [at |-> "saved", s |-> s, b |-> b]
      BY <1>6 DEF SwitchBegin, histVars
    <2>2. /\ owed[s][Active(s)] \subseteq EventsOf(Events(s))
          /\ EventsOf(Events(s)) \subseteq mine[s][Active(s)]
      BY <2>1, EventsServe
    <2>3. files'[s][Active(s)] = Events(s) BY <1>b, <1>e, <2>1
    <2>4. /\ owed'[s][Active(s)'] \subseteq EventsOf(files'[s][Active(s)'])
          /\ EventsOf(files'[s][Active(s)']) \subseteq mine'[s][Active(s)']
      BY <1>f, <2>1, <2>2, <2>3
    <2> QED BY <2>1, <2>4 DEF UnderWay, EventsOf
  <1>7. CASE SwitchRewrite
    <2>1. op.at = "saved" /\ UNCHANGED <<mine, owed, table, files>>
      BY <1>7 DEF SwitchRewrite, histVars
    <2>2. op'.at = "rewritten" /\ op'.s = op.s /\ op'.b = op.b
      BY <1>7, <1>a, OpMoves DEF SwitchRewrite, HasBranch
    <2>3. PICK s \in Sessions : s = op.s BY <1>a, <2>1, OpShape DEF HasBranch
    <2> QED BY <1>a, <1>f, <2>1, <2>2, <2>3 DEF UnderWay, EventsOf
  <1>8. ASSUME NEW s \in Sessions,
               \/ CreateBegin(s) \/ Get(s)
               \/ \E less \in Seq(Lines) : Replaces(s, less)
        PROVE  op'.at \in {"idle", "created", "got"}
    BY <1>8 DEF CreateBegin, Get, Replaces, Replace, Idle
  <1>9. CASE \/ CreateEnd \/ AppendLogStops \/ AppendHead \/ ForkEnd \/ SwitchRewriteFails
             \/ SwitchEnd \/ WriteFails \/ Crash
    <2>1. op'.at = "idle"
      BY <1>9 DEF CreateEnd, AppendLogStops, AppendHead, ForkEnd, SwitchRewriteFails,
                  SwitchEnd, WriteFails, Crash, Idle
    <2> QED BY <1>1, <2>1
  <1> QED
    BY <1>1, <1>2, <1>3, <1>4, <1>5, <1>6, <1>7, <1>8, <1>9 DEF Step, OperationGoesOn

\* A branch whose lines stay, or that is owed less of them, keeps what it has.
LEMMA DiskSame ==
    ASSUME NEW r \in Sessions, NEW b \in Branches, DiskOf(r, b), Content(r, b)' = Content(r, b),
           owed'[r][b] \subseteq owed[r][b], mine[r][b] \subseteq mine'[r][b],
           b \in Registered(r)' => b \in Registered(r)
    PROVE  DiskOf(r, b)'
  <1> DEFINE lines == Content(r, b)
  <1>1. DiskOf(r, b)' <=>
            /\ Readable(Content(r, b)') => owed'[r][b] \subseteq EventsOf(Content(r, b)')
            /\ b \in Registered(r)' => EventsOf(Content(r, b)') \subseteq mine'[r][b]
    BY DEF DiskOf, Readable, EventsOf
  <1> HIDE DEF lines
  <1> QED BY <1>1 DEF DiskOf

\* On disk, every branch keeps what it owes, and nothing of another one gets to it.
LEMMA NextDisk ==
    ASSUME SwitchWhole, Structure, History, Step, NEW r \in Sessions, NEW b \in Branches
    PROVE  DiskOf(r, b)'
  <1>a. /\ TypeOK /\ OpInv /\ CacheInv /\ LinesInv /\ HeadsInv /\ UnderWay /\ NothingYet
        /\ DiskOf(r, b) /\ MemOf(r)
    BY DEF Structure, History
  <1>b. /\ clock \in Nat /\ log \in [Sessions -> Seq(Lines)] /\ torn \in [Sessions -> BOOLEAN]
        /\ files \in [Sessions -> [Branches -> Seq(Lines)]]
        /\ owed \in [Sessions -> [Branches -> SUBSET (1..MaxClock)]]
        /\ mine \in [Sessions -> [Branches -> SUBSET (1..MaxClock)]]
    BY HistoryTyped DEF Structure
  <1>c. Active(r) \in Branches /\ Active(r) \in Registered(r) BY <1>a DEF HeadsInv, Registered
  <1>d. ~SwitchRewrite => OnBranch(r)' = OnBranch(r) BY OnBranchSteps
  <1>e. ~ForkEnd /\ ~SwitchEnd => Registered(r)' = Registered(r) BY TableSteps
  <1>f. Free => OnBranch(r) = Active(r) BY DEF Free, OnBranch
  <1>g. owed[r][b] \subseteq 1..MaxClock BY <1>b
  <1>h. \A e \in 1..MaxClock : e # Summary /\ e # Bad BY DEF Summary, Bad
  \* The lines stay where they are.
  <1>s. ASSUME OnBranch(r)' = OnBranch(r), log'[r] = log[r] \/ b # OnBranch(r),
               files'[r][b] = files[r][b] \/ b = OnBranch(r)
        PROVE  Content(r, b)' = Content(r, b)
    BY <1>s DEF Content
  <1>1. CASE CreateEnd
    <2>1. /\ op.at = "created" /\ log' = [log EXCEPT ![op.s] = <<>>]
          /\ UNCHANGED <<files, owed, mine>>
      BY <1>1 DEF CreateEnd, histVars
    <2>2. OnBranch(r)' = OnBranch(r) /\ Registered(r)' = Registered(r)
      BY <1>d, <1>e, <2>1 DEF SwitchRewrite, ForkEnd, SwitchEnd
    <2>3. CASE r = op.s /\ b = OnBranch(r)
      <3>1. Content(r, b)' = <<>> BY <1>b, <2>1, <2>2, <2>3 DEF Content
      <3>2. owed'[r][b] = {} BY <1>a, <2>1, <2>3 DEF NothingYet, Unborn
      <3>3. EventsOf(<<>>) = {} BY NoLines
      <3> QED BY <3>1, <3>2, <3>3 DEF DiskOf, EventsOf
    <2>4. CASE ~(r = op.s /\ b = OnBranch(r))
      <3>1. Content(r, b)' = Content(r, b) BY <1>b, <1>s, <2>1, <2>2, <2>4
      <3> QED BY <1>a, <2>1, <2>2, <3>1, DiskSame
    <2> QED BY <2>3, <2>4
  <1>2. CASE AppendLog
    <2>1. /\ op.at = "appending" /\ UNCHANGED <<files, owed, mine>>
          /\ log' = IF torn[op.s] THEN log ELSE [log EXCEPT ![op.s] = Append(@, Last(mem[op.s]))]
      BY <1>2 DEF AppendLog, histVars
    <2>2. OnBranch(r)' = OnBranch(r) /\ Registered(r)' = Registered(r)
      BY <1>d, <1>e, <2>1 DEF SwitchRewrite, ForkEnd, SwitchEnd
    <2>3. CASE r = op.s /\ b = OnBranch(r) /\ ~torn[r]
      <3>1. Last(mem[r]) = clock /\ Fine(log[r], clock - 1) BY <1>a, <2>1, <2>3 DEF OpInv
      <3>2. Content(r, b) = log[r] /\ Content(r, b)' = Append(log[r], clock)
        BY <1>b, <2>1, <2>2, <2>3, <3>1 DEF Content
      <3>3. clock \in Lines BY <1>a, StoreAssumption DEF TypeOK, Lines, Summary
      <3>4. clock - 1 \in Int /\ clock - 1 >= -1 /\ clock = (clock - 1) + 1 BY <1>b
      <3>5. ToSet(Append(log[r], clock)) = ToSet(log[r]) \cup {clock}
        BY <3>1, <3>3, <3>4, LineAdded
      <3>6. clock \in mine[r][b] BY <1>a, <2>1, <2>3 DEF UnderWay, OnBranch
      <3>7. DiskOf(r, b)' <=>
                /\ Readable(Append(log[r], clock)) =>
                      owed[r][b] \subseteq EventsOf(Append(log[r], clock))
                /\ b \in Registered(r) => EventsOf(Append(log[r], clock)) \subseteq mine[r][b]
        BY <2>1, <2>2, <3>2 DEF DiskOf, Readable, EventsOf
      <3> QED BY <1>a, <3>2, <3>5, <3>6, <3>7 DEF DiskOf, Readable, EventsOf
    <2>4. CASE ~(r = op.s /\ b = OnBranch(r) /\ ~torn[r])
      <3>1. Content(r, b)' = Content(r, b) BY <1>b, <1>s, <2>1, <2>2, <2>4
      <3> QED BY <1>a, <2>1, <2>2, <3>1, DiskSame
    <2> QED BY <2>3, <2>4
  <1>3. CASE AppendLogStops
    <2>1. /\ op.at = "appending" /\ UNCHANGED <<files, owed, mine>>
          /\ \/ log' = log
             \/ log' = IF torn[op.s] THEN log ELSE [log EXCEPT ![op.s] = Append(@, Bad)]
      BY <1>3 DEF AppendLogStops, histVars
    <2>2. OnBranch(r)' = OnBranch(r) /\ Registered(r)' = Registered(r)
      BY <1>d, <1>e, <2>1 DEF SwitchRewrite, ForkEnd, SwitchEnd
    <2>3. CASE r = op.s /\ b = OnBranch(r) /\ log'[r] # log[r]
      <3>1. Fine(log[r], clock - 1) BY <1>a, <2>1, <2>3 DEF OpInv
      <3>2. Content(r, b) = log[r] /\ Content(r, b)' = Append(log[r], Bad)
        BY <1>b, <2>1, <2>2, <2>3 DEF Content
      <3>3. Bad \in Lines BY DEF Lines
      <3>4. clock - 1 \in Int /\ clock - 1 >= -1 BY <1>b
      <3>5. ToSet(Append(log[r], Bad)) = ToSet(log[r]) \cup {Bad} BY <3>1, <3>3, <3>4, LineAdded
      <3>6. DiskOf(r, b)' <=>
                /\ Readable(Append(log[r], Bad)) =>
                      owed[r][b] \subseteq EventsOf(Append(log[r], Bad))
                /\ b \in Registered(r) => EventsOf(Append(log[r], Bad)) \subseteq mine[r][b]
        BY <2>1, <2>2, <3>2 DEF DiskOf, Readable, EventsOf
      <3> QED BY <1>a, <3>2, <3>5, <3>6 DEF DiskOf, Readable, EventsOf
    <2>4. CASE ~(r = op.s /\ b = OnBranch(r) /\ log'[r] # log[r])
      <3>1. Content(r, b)' = Content(r, b) BY <1>b, <1>s, <2>1, <2>2, <2>4
      <3> QED BY <1>a, <2>1, <2>2, <3>1, DiskSame
    <2> QED BY <2>3, <2>4
  <1>4. CASE AppendHead
    <2>1. /\ op.at = "stamped" /\ UNCHANGED <<log, files, mine>>
          /\ owed' = [owed EXCEPT ![op.s][Active(op.s)] = @ \cup {Last(mem[op.s])}]
      BY <1>4 DEF AppendHead
    <2>2. OnBranch(r)' = OnBranch(r) /\ Registered(r)' = Registered(r)
      BY <1>d, <1>e, <2>1 DEF SwitchRewrite, ForkEnd, SwitchEnd
    <2>3. Content(r, b)' = Content(r, b) BY <1>s, <2>1, <2>2
    <2>4. CASE r = op.s /\ b = Active(r)
      <3>1. Last(mem[r]) = clock BY <1>a, <2>1, <2>4 DEF OpInv
      <3>2. owed'[r][b] = owed[r][b] \cup {clock} BY <1>b, <2>1, <2>4, <3>1
      <3>3. Content(r, b) = log[r] BY <2>1, <2>4 DEF Content, OnBranch
      <3>4. Readable(log[r]) => clock \in EventsOf(log[r]) BY <1>a, <2>1, <2>4 DEF UnderWay
      <3>5. DiskOf(r, b)' <=>
                /\ Readable(log[r]) => owed'[r][b] \subseteq EventsOf(log[r])
                /\ b \in Registered(r) => EventsOf(log[r]) \subseteq mine[r][b]
        BY <2>1, <2>2, <2>3, <3>3 DEF DiskOf, Readable, EventsOf
      <3> QED BY <1>a, <3>2, <3>3, <3>4, <3>5 DEF DiskOf
    <2>5. CASE ~(r = op.s /\ b = Active(r))
      <3>1. owed'[r][b] = owed[r][b] BY <1>b, <2>1, <2>5
      <3> QED BY <1>a, <2>1, <2>2, <2>3, <3>1, DiskSame
    <2> QED BY <2>4, <2>5
  <1>5. ASSUME NEW s \in Sessions, NEW c \in Branches, ForkBegin(s, c) PROVE DiskOf(r, b)'
    <2>1. /\ Free /\ c \notin Registered(s) /\ UNCHANGED <<log, table, owed, mine>>
          /\ files' = [files EXCEPT ![s][c] = Fork(s, Events(s))]
      BY <1>5 DEF ForkBegin, histVars
    <2>2. OnBranch(r)' = OnBranch(r) /\ Registered(r)' = Registered(r)
      BY <1>d, <2>1 DEF SwitchRewrite, Free, Registered
    <2>3. CASE r = s /\ b = c
      <3>1. owed[r][b] = {} BY <1>a, <2>1, <2>3 DEF NothingYet
      <3> QED BY <2>1, <2>2, <2>3, <3>1 DEF DiskOf
    <2>4. CASE ~(r = s /\ b = c)
      <3>1. Content(r, b)' = Content(r, b) BY <1>b, <1>s, <2>1, <2>2, <2>4
      <3> QED BY <1>a, <2>1, <2>2, <3>1, DiskSame
    <2> QED BY <2>3, <2>4
  <1>6. CASE ForkEnd
    <2>1. /\ op.at = "forked" /\ UNCHANGED <<log, files>>
          /\ owed' = [owed EXCEPT ![op.s][op.b] =
                         owed[op.s][Active(op.s)] \cap ToSet(files[op.s][op.b])]
          /\ mine' = [mine EXCEPT ![op.s][op.b] = mine[op.s][Active(op.s)]]
      BY <1>6 DEF ForkEnd
    <2>2. OnBranch(r)' = OnBranch(r) /\ OnBranch(r) = Active(r)
      BY <1>d, <2>1 DEF SwitchRewrite, OnBranch
    <2>3. Content(r, b)' = Content(r, b) BY <1>s, <2>1, <2>2
    <2>4. ~SwitchEnd BY <2>1 DEF SwitchEnd
    <2>5. Registered(r)' = Registered(r) \cup (IF r = op.s THEN {op.b} ELSE {})
      BY <1>6, <2>4, TableSteps
    <2>6. CASE r = op.s /\ b = op.b
      <3>1. b # Active(r) BY <1>a, <1>c, <2>1, <2>6 DEF OpInv
      <3>2. Content(r, b) = files[r][b] BY <2>2, <3>1 DEF Content
      <3>3. /\ owed'[r][b] = owed[r][Active(r)] \cap ToSet(files[r][b])
            /\ mine'[r][b] = mine[r][Active(r)]
        BY <1>b, <2>1, <2>6
      <3>4. owed'[r][b] \subseteq EventsOf(files[r][b])
        <4>1. owed[r][Active(r)] \subseteq 1..MaxClock BY <1>b, <1>c
        <4> QED BY <1>h, <3>3, <4>1 DEF EventsOf
      <3>5. EventsOf(files[r][b]) \subseteq mine'[r][b] BY <1>a, <2>1, <2>6, <3>3 DEF UnderWay
      <3>6. Content(r, b)' = files[r][b] BY <2>3, <3>2
      <3> QED BY <3>4, <3>5, <3>6 DEF DiskOf, Readable, EventsOf
    <2>7. CASE ~(r = op.s /\ b = op.b)
      <3>1. owed'[r][b] = owed[r][b] /\ mine'[r][b] = mine[r][b] BY <1>b, <2>1, <2>7
      <3>2. b \in Registered(r)' => b \in Registered(r) BY <2>5, <2>7
      <3> QED BY <1>a, <2>3, <3>1, <3>2, DiskSame
    <2> QED BY <2>6, <2>7
  <1>7. ASSUME NEW s \in Sessions, NEW c \in Branches, SwitchBegin(s, c) PROVE DiskOf(r, b)'
    <2>1. /\ Free /\ UNCHANGED <<log, table, owed, mine>>
          /\ files' = [files EXCEPT ![s][Active(s)] = Events(s)]
      BY <1>7 DEF SwitchBegin, histVars
    <2>2. OnBranch(r)' = OnBranch(r) /\ Registered(r)' = Registered(r)
      BY <1>d, <2>1 DEF SwitchRewrite, Free, Registered
    <2>3. files'[r][b] = files[r][b] \/ b = OnBranch(r) BY <1>b, <1>c, <1>f, <2>1
    <2>4. Content(r, b)' = Content(r, b) BY <1>s, <2>1, <2>2, <2>3
    <2> QED BY <1>a, <2>1, <2>2, <2>4, DiskSame
  <1>8. CASE SwitchRewrite
    <2>1. /\ op.at = "saved" /\ UNCHANGED <<table, files, owed, mine>>
          /\ log' = [log EXCEPT ![op.s] = files[op.s][op.b]]
      BY <1>8 DEF SwitchRewrite, histVars
    <2>2. OnBranch(r)' = IF r = op.s THEN op.b ELSE OnBranch(r) BY <1>8, OnBranchSteps
    <2>3. OnBranch(r) = Active(r) BY <2>1 DEF OnBranch
    <2>4. Registered(r)' = Registered(r) BY <2>1 DEF Registered
    <2>5. CASE r # op.s
      <3>1. Content(r, b)' = Content(r, b) BY <1>b, <1>s, <2>1, <2>2, <2>5
      <3> QED BY <1>a, <2>1, <2>4, <3>1, DiskSame
    <2>6. CASE r = op.s /\ b # Active(r)
      <3>1. Content(r, b) = files[r][b] BY <2>3, <2>6 DEF Content
      <3>2. Content(r, b)' = files[r][b] BY <1>b, <2>1, <2>2, <2>6 DEF Content
      <3> QED BY <1>a, <2>1, <2>4, <3>1, <3>2, DiskSame
    <2>7. CASE r = op.s /\ b = Active(r)
      <3>1. op.b # b BY <1>a, <2>1, <2>7 DEF OpInv
      <3>2. Content(r, b)' = files[r][b] BY <2>1, <2>2, <2>7, <3>1 DEF Content
      <3>3. /\ owed[r][b] \subseteq EventsOf(files[r][b])
            /\ EventsOf(files[r][b]) \subseteq mine[r][b]
        BY <1>a, <2>1, <2>7 DEF UnderWay
      <3> QED BY <2>1, <3>2, <3>3 DEF DiskOf, Readable, EventsOf
    <2> QED BY <2>5, <2>6, <2>7
  <1>9. ASSUME NEW s \in Sessions, NEW less \in Seq(Lines), Replaces(s, less) PROVE DiskOf(r, b)'
    <2>1. /\ Free /\ CanLoad(s) /\ UNCHANGED <<table, files, mine>>
          /\ owed' = [owed EXCEPT ![s][Active(s)] = @ \cap ToSet(less)]
          /\ log' = [log EXCEPT ![s] = less] \/ log' = log
      BY <1>9 DEF Replaces, Replace
    <2>2. OnBranch(r)' = OnBranch(r) /\ Registered(r)' = Registered(r)
      BY <1>d, <2>1 DEF SwitchRewrite, Free, Registered
    <2>3. CASE r = s /\ b = Active(r) /\ log' = [log EXCEPT ![s] = less]
      <3>1. Content(r, b)' = less BY <1>b, <1>f, <2>1, <2>2, <2>3 DEF Content
      <3>2. owed'[r][b] = owed[r][b] \cap ToSet(less) BY <1>b, <2>1, <2>3
      <3>3. owed'[r][b] \subseteq EventsOf(less) BY <1>g, <1>h, <3>2 DEF EventsOf
      <3>4. EventsOf(less) \subseteq EventsOf(Events(s))
        BY <1>a, <1>9, <2>1, ReplacementFine DEF Replaces
      <3>5. EventsOf(Events(s)) \subseteq mine[r][b] BY <2>1, <2>3, EventsServe
      <3> QED BY <2>1, <3>1, <3>3, <3>4, <3>5 DEF DiskOf, Readable, EventsOf
    <2>4. CASE ~(r = s /\ b = Active(r) /\ log' = [log EXCEPT ![s] = less])
      <3>1. log'[r] = log[r] \/ b # OnBranch(r) BY <1>b, <1>f, <2>1, <2>4
      <3>2. Content(r, b)' = Content(r, b) BY <1>s, <2>1, <2>2, <3>1
      <3>3. owed'[r][b] \subseteq owed[r][b] BY <1>b, <2>1
      <3> QED BY <1>a, <2>1, <2>2, <3>2, <3>3, DiskSame
    <2> QED BY <2>3, <2>4
  <1>10. ASSUME NEW s \in Sessions, AppendBegin(s) PROVE DiskOf(r, b)'
    <2>1. /\ Free /\ UNCHANGED <<log, table, files, owed>>
          /\ mine' = [mine EXCEPT ![s][Active(s)] = @ \cup {clock + 1}]
      BY <1>10 DEF AppendBegin, diskVars
    <2>2. OnBranch(r)' = OnBranch(r) /\ Registered(r)' = Registered(r)
      BY <1>d, <2>1 DEF SwitchRewrite, Free, Registered
    <2>3. mine[r][b] \subseteq mine'[r][b] BY <1>b, <2>1
    <2>4. Content(r, b)' = Content(r, b) BY <1>s, <2>1, <2>2
    <2> QED BY <1>a, <2>1, <2>2, <2>3, <2>4, DiskSame
  <1>11. CASE SwitchEnd
    <2>1. op.at = "rewritten" /\ UNCHANGED <<log, files, owed, mine>>
      BY <1>11 DEF SwitchEnd, histVars
    <2>2. OnBranch(r)' = OnBranch(r) /\ Registered(r)' = Registered(r)
      <3>1. ~SwitchRewrite /\ ~ForkEnd BY <2>1 DEF SwitchRewrite, ForkEnd
      <3> QED BY <1>d, <1>11, <3>1, TableSteps
    <2>3. Content(r, b)' = Content(r, b) BY <1>s, <2>1, <2>2
    <2> QED BY <1>a, <2>1, <2>2, <2>3, DiskSame
  <1>12. ASSUME UNCHANGED <<log, table, files, owed, mine>>, ~SwitchRewrite PROVE DiskOf(r, b)'
    <2>1. OnBranch(r)' = OnBranch(r) /\ Registered(r)' = Registered(r)
      BY <1>d, <1>12 DEF Registered
    <2>2. Content(r, b)' = Content(r, b) BY <1>s, <1>12, <2>1
    <2> QED BY <1>a, <1>12, <2>1, <2>2, DiskSame
  <1>13. ASSUME NEW s \in Sessions, CreateBegin(s) \/ Get(s) PROVE DiskOf(r, b)'
    <2>1. UNCHANGED <<log, table, files, owed, mine>> /\ ~SwitchRewrite
      BY <1>13 DEF CreateBegin, Get, diskVars, histVars, Free, SwitchRewrite
    <2> QED BY <1>12, <2>1
  <1>14. CASE AppendMeta \/ SwitchRewriteFails \/ WriteFails \/ Crash
    <2>1. UNCHANGED <<log, table, files, owed, mine>>
      BY <1>14 DEF AppendMeta, SwitchRewriteFails, WriteFails, Crash, diskVars, histVars
    <2>2. CASE SwitchRewrite BY <1>8, <2>2
    <2>3. CASE ~SwitchRewrite BY <1>12, <2>1, <2>3
    <2> QED BY <2>2, <2>3
  <1> QED
    BY <1>1, <1>2, <1>3, <1>4, <1>5, <1>6, <1>7, <1>8, <1>9, <1>10, <1>11, <1>13, <1>14
    DEF Step, OperationGoesOn

\* Memory that stays keeps what it has, when no more is owed on its branch.
LEMMA MemSame ==
    ASSUME NEW r \in Sessions, MemOf(r), OnBranch(r)' = OnBranch(r), mem'[r] = mem[r],
           r \in cached' => r \in cached,
           owed'[r][OnBranch(r)] \subseteq owed[r][OnBranch(r)],
           mine[r][OnBranch(r)] \subseteq mine'[r][OnBranch(r)]
    PROVE  MemOf(r)'
  <1>1. MemOf(r)' <=>
            /\ r \in cached' => owed'[r][OnBranch(r)'] \subseteq EventsOf(mem'[r])
            /\ EventsOf(mem'[r]) \subseteq mine'[r][OnBranch(r)']
    BY DEF MemOf, EventsOf
  <1> QED BY <1>1 DEF MemOf

\* A load puts events into memory that serve the branch; whoever leaves the cache
\* leaves nothing behind.
LEMMA MemLoaded ==
    ASSUME NEW r \in Sessions, MemOf(r), NEW s \in Sessions, NEW events \in Seq(Lines),
           Loaded(s, events), OnBranch(r)' = OnBranch(r),
           owed'[r][OnBranch(r)] \subseteq owed[r][OnBranch(r)],
           mine[r][OnBranch(r)] \subseteq mine'[r][OnBranch(r)],
           r = s => /\ owed'[r][OnBranch(r)] \subseteq EventsOf(events)
                    /\ EventsOf(events) \subseteq mine[r][OnBranch(r)]
    PROVE  MemOf(r)'
  <1>1. MemOf(r)' <=>
            /\ r \in cached' => owed'[r][OnBranch(r)'] \subseteq EventsOf(mem'[r])
            /\ EventsOf(mem'[r]) \subseteq mine'[r][OnBranch(r)']
    BY DEF MemOf, EventsOf
  <1>2. CASE r \notin cached'
    <2>1. mem'[r] = <<>> BY <1>2 DEF Loaded
    <2>2. EventsOf(<<>>) = {} BY NoLines
    <2> QED BY <1>1, <1>2, <2>1, <2>2
  <1>3. CASE r \in cached' /\ r # s
    <2>1. mem'[r] = mem[r] /\ r \in cached BY <1>3 DEF Loaded
    <2> QED BY <2>1, MemSame
  <1>4. CASE r \in cached' /\ r = s
    <2>1. mem'[r] = events BY <1>4 DEF Loaded
    <2> QED BY <1>1, <1>4, <2>1
  <1> QED BY <1>2, <1>3, <1>4

\* In memory, the branch a session is on keeps what it owes, and nothing of another one.
LEMMA NextMem ==
    ASSUME SwitchWhole, Structure, History, Step, NEW r \in Sessions
    PROVE  MemOf(r)'
  <1>a. TypeOK /\ OpInv /\ CacheInv /\ LinesInv /\ HeadsInv BY DEF Structure
  <1>b. UnderWay /\ NothingYet /\ MemOf(r) /\ \A b \in Branches : DiskOf(r, b) BY DEF History
  <1>c. /\ clock \in Nat /\ mem \in [Sessions -> Seq(Lines)]
        /\ owed \in [Sessions -> [Branches -> SUBSET (1..MaxClock)]]
        /\ mine \in [Sessions -> [Branches -> SUBSET (1..MaxClock)]]
    BY HistoryTyped DEF Structure
  <1>d. Active(r) \in Branches /\ Active(r) \in Registered(r) BY <1>a DEF HeadsInv, Registered
  <1>e. ~SwitchRewrite => OnBranch(r)' = OnBranch(r) BY OnBranchSteps
  <1>f. op.at # "rewritten" => OnBranch(r) = Active(r) BY DEF OnBranch
  <1>g. \A e \in 1..MaxClock : e # Summary /\ e # Bad BY DEF Summary, Bad
  <1>h. /\ MemOf(r)' <=>
              /\ r \in cached' => owed'[r][OnBranch(r)'] \subseteq EventsOf(mem'[r])
              /\ EventsOf(mem'[r]) \subseteq mine'[r][OnBranch(r)']
        /\ EventsOf(<<>>) = {}
    BY NoLines DEF MemOf, EventsOf
  <1>1. ASSUME NEW s \in Sessions, Get(s) PROVE MemOf(r)'
    <2>1. /\ Free /\ CanLoad(s) /\ LoadAs(s, log[s]) /\ s \notin cached /\ UNCHANGED <<owed, mine>>
          /\ log[s] = Events(s)
      BY <1>1 DEF Get, histVars, Events
    <2>2. Events(s) \in Seq(Lines) BY <1>a, <2>1, EventsFine
    <2>3. Loaded(s, Events(s)) BY <1>a, <2>1, <2>2, LoadLoads
    <2>4. OnBranch(r)' = OnBranch(r) BY <1>e, <2>1 DEF Free, SwitchRewrite
    <2> QED BY <1>b, <2>1, <2>2, <2>3, <2>4, EventsServe, MemLoaded
  <1>2. ASSUME NEW s \in Sessions, NEW b \in Branches, ForkBegin(s, b) \/ SwitchBegin(s, b)
        PROVE  MemOf(r)'
    <2>1. Free /\ CanLoad(s) /\ LoadAs(s, Events(s)) /\ UNCHANGED <<owed, mine>>
      BY <1>2 DEF ForkBegin, SwitchBegin, histVars
    <2>2. Events(s) \in Seq(Lines) BY <1>a, <2>1, EventsFine
    <2>3. Loaded(s, Events(s)) BY <1>a, <2>1, <2>2, LoadLoads
    <2>4. OnBranch(r)' = OnBranch(r) BY <1>e, <2>1 DEF Free, SwitchRewrite
    <2> QED BY <1>b, <2>1, <2>2, <2>3, <2>4, EventsServe, MemLoaded
  <1>3. ASSUME NEW s \in Sessions, NEW less \in Seq(Lines), Replaces(s, less) PROVE MemOf(r)'
    <2>1. /\ Free /\ CanLoad(s) /\ LoadAs(s, less) /\ mine' = mine
          /\ owed' = [owed EXCEPT ![s][Active(s)] = @ \cap ToSet(less)]
      BY <1>3 DEF Replaces, Replace
    <2>2. OnBranch(r)' = OnBranch(r) /\ OnBranch(r) = Active(r)
      BY <1>e, <2>1 DEF Free, SwitchRewrite, OnBranch
    <2>3. Loaded(s, less) BY <1>a, <2>1, LoadLoads
    <2>4. owed'[r][Active(r)] \subseteq owed[r][Active(r)] BY <1>c, <1>d, <2>1
    <2>5. ASSUME r = s
          PROVE  /\ owed'[r][Active(r)] \subseteq EventsOf(less)
                 /\ EventsOf(less) \subseteq mine[r][Active(r)]
      <3>1. owed'[r][Active(r)] = owed[r][Active(r)] \cap ToSet(less) BY <1>c, <1>d, <2>1, <2>5
      <3>2. owed[r][Active(r)] \subseteq 1..MaxClock BY <1>c, <1>d
      <3>3. EventsOf(less) \subseteq EventsOf(Events(s))
        BY <1>a, <1>3, <2>1, ReplacementFine DEF Replaces
      <3>4. EventsOf(Events(s)) \subseteq mine[r][Active(r)] BY <2>1, <2>5, EventsServe
      <3> QED BY <1>g, <3>1, <3>2, <3>3, <3>4 DEF EventsOf
    <2> QED BY <1>b, <2>1, <2>2, <2>3, <2>4, <2>5, MemLoaded
  <1>4. CASE CreateEnd
    <2>1. op.at = "created" /\ op.s \in Sessions /\ metaTime[op.s] > 0
      BY <1>4, <1>a, OpShape DEF CreateEnd, HasSession
    <2>2. Cache(op.s, <<>>, metaTime[op.s]) /\ UNCHANGED <<owed, mine>> /\ <<>> \in Seq(Lines)
      BY <1>4 DEF CreateEnd, histVars
    <2>3. Loaded(op.s, <<>>) BY <1>a, <2>1, <2>2, CacheLoads
    <2>4. OnBranch(r)' = OnBranch(r) /\ OnBranch(r) = Active(r)
      BY <1>e, <1>f, <2>1 DEF SwitchRewrite
    <2>5. r = op.s => owed[r][Active(r)] = {} BY <1>b, <1>d, <2>1 DEF NothingYet, Unborn
    <2> QED BY <1>b, <1>h, <2>1, <2>2, <2>3, <2>4, <2>5, MemLoaded
  <1>5. ASSUME NEW s \in Sessions, AppendBegin(s) PROVE MemOf(r)'
    <2>1. /\ Free /\ clock < MaxClock /\ UNCHANGED <<cached, owed>>
          /\ mem' = [mem EXCEPT ![s] = Append(@, clock + 1)]
          /\ mine' = [mine EXCEPT ![s][Active(s)] = @ \cup {clock + 1}]
      BY <1>5 DEF AppendBegin
    <2>2. OnBranch(r)' = OnBranch(r) /\ OnBranch(r) = Active(r)
      BY <1>e, <2>1 DEF Free, SwitchRewrite, OnBranch
    <2>3. mine[r][Active(r)] \subseteq mine'[r][Active(r)] BY <1>c, <1>d, <2>1
    <2>4. CASE r # s
      <3>1. mem'[r] = mem[r] BY <1>c, <2>1, <2>4
      <3> QED BY <1>b, <2>1, <2>2, <2>3, <3>1, MemSame
    <2>5. CASE r = s
      <3>1. Fine(mem[r], clock) BY <1>a DEF LinesInv
      <3>2. clock + 1 \in Lines /\ clock \in Int /\ clock >= -1
        BY <1>c, <2>1, StoreAssumption DEF Lines
      <3>3. ToSet(Append(mem[r], clock + 1)) = ToSet(mem[r]) \cup {clock + 1}
        BY <3>1, <3>2, LineAdded
      <3>4. mem'[r] = Append(mem[r], clock + 1) BY <1>c, <2>1, <2>5
      <3>5. mine'[r][Active(r)] = mine[r][Active(r)] \cup {clock + 1} BY <1>c, <1>d, <2>1, <2>5
      <3>6. clock + 1 # Summary /\ clock + 1 # Bad BY <1>c DEF Summary, Bad
      <3>7. EventsOf(mem'[r]) = EventsOf(mem[r]) \cup {clock + 1} BY <3>3, <3>4, <3>6 DEF EventsOf
      <3>8. /\ r \in cached => owed[r][Active(r)] \subseteq EventsOf(mem[r])
            /\ EventsOf(mem[r]) \subseteq mine[r][Active(r)]
        BY <1>b, <2>2 DEF MemOf
      <3> QED BY <1>h, <2>1, <2>2, <3>5, <3>7, <3>8
    <2> QED BY <2>4, <2>5
  <1>6. CASE SwitchRewrite \/ SwitchRewriteFails
    <2>1. /\ op.at = "saved" /\ UNCHANGED <<cached, owed, mine, files>>
          /\ mem' = IF op.s \in cached THEN [mem EXCEPT ![op.s] = files[op.s][op.b]] ELSE mem
      BY <1>6 DEF SwitchRewrite, SwitchRewriteFails, Enter, diskVars, histVars
    <2>2. op.s \in Sessions /\ op.b \in Branches /\ op.b \in Registered(op.s) /\ op.b # Active(op.s)
      BY <1>a, <2>1, OpShape DEF OpInv, HasBranch
    <2>3. OnBranch(r)' = IF SwitchRewrite /\ r = op.s THEN op.b ELSE OnBranch(r) BY OnBranchSteps
    <2>4. CASE r = op.s /\ SwitchRewrite
      <3>1. OnBranch(r)' = op.b /\ Content(r, op.b) = files[r][op.b]
        BY <1>f, <2>1, <2>2, <2>3, <2>4 DEF Content
      <3>2. Readable(files[r][op.b]) BY <1>a, <2>2, <2>4 DEF LinesInv
      <3>3. /\ owed[r][op.b] \subseteq EventsOf(files[r][op.b])
            /\ EventsOf(files[r][op.b]) \subseteq mine[r][op.b]
        BY <1>b, <2>2, <2>4, <3>1, <3>2 DEF DiskOf
      <3>4. CASE r \in cached
        <4>1. mem'[r] = files[r][op.b] BY <1>c, <2>1, <2>4, <3>4
        <4> QED BY <1>h, <2>1, <3>1, <3>3, <4>1
      <3>5. CASE r \notin cached
        <4>1. mem'[r] = <<>> BY <1>a, <2>1, <2>4, <3>5 DEF CacheInv
        <4> QED BY <1>h, <2>1, <3>5, <4>1
      <3> QED BY <3>4, <3>5
    <2>5. CASE r # op.s
      <3>1. mem'[r] = mem[r] BY <1>c, <2>1, <2>5
      <3> QED BY <1>b, <2>1, <2>3, <2>5, <3>1, MemSame
    <2>6. CASE ~SwitchRewrite
      <3>1. op.s \notin cached BY <1>6, <2>6 DEF SwitchRewriteFails
      <3>2. mem' = mem BY <2>1, <3>1
      <3> QED BY <1>b, <2>1, <2>3, <2>6, <3>2, MemSame
    <2> QED BY <2>4, <2>5, <2>6
  <1>7. CASE AppendHead
    <2>1. /\ op.at = "stamped" /\ UNCHANGED <<cached, mem, mine>>
          /\ owed' = [owed EXCEPT ![op.s][Active(op.s)] = @ \cup {Last(mem[op.s])}]
      BY <1>7 DEF AppendHead, memVars
    <2>2. OnBranch(r)' = OnBranch(r) /\ OnBranch(r) = Active(r)
      BY <1>e, <1>f, <2>1 DEF SwitchRewrite
    <2>3. /\ r \in cached => owed[r][Active(r)] \subseteq EventsOf(mem[r])
          /\ EventsOf(mem[r]) \subseteq mine[r][Active(r)]
      BY <1>b, <2>2 DEF MemOf
    <2>4. CASE r = op.s
      <3>1. mem[r] # <<>> /\ Last(mem[r]) = clock /\ r \in cached /\ when[r] = clock
        BY <1>a, <2>1, <2>4 DEF OpInv
      <3>2. clock # Summary /\ clock # Bad
        <4>1. clock > 0 BY <1>a, <3>1 DEF CacheInv
        <4> QED BY <4>1 DEF Summary, Bad
      <3>3. clock \in ToSet(mem[r])
        <4>1. mem[r] \in Seq(Lines) BY <1>c
        <4>2. Len(mem[r]) \in 1..Len(mem[r]) /\ mem[r][Len(mem[r])] = clock
          BY <3>1, <4>1 DEF Last
        <4> QED BY <4>1, <4>2, ListSet
      <3>4. owed'[r][Active(r)] = owed[r][Active(r)] \cup {clock} BY <1>c, <1>d, <2>1, <2>4, <3>1
      <3>5. clock \in EventsOf(mem[r]) BY <3>2, <3>3 DEF EventsOf
      <3> QED BY <1>h, <2>1, <2>2, <2>3, <3>1, <3>4, <3>5
    <2>5. CASE r # op.s
      <3>1. owed'[r] = owed[r] BY <1>c, <2>1, <2>5
      <3> QED BY <1>b, <2>1, <2>2, <3>1, MemSame
    <2> QED BY <2>4, <2>5
  <1>8. CASE ForkEnd
    <2>1. /\ op.at = "forked" /\ UNCHANGED <<cached, mem>>
          /\ owed' = [owed EXCEPT ![op.s][op.b] =
                         owed[op.s][Active(op.s)] \cap ToSet(files[op.s][op.b])]
          /\ mine' = [mine EXCEPT ![op.s][op.b] = mine[op.s][Active(op.s)]]
      BY <1>8 DEF ForkEnd, memVars
    <2>2. OnBranch(r)' = OnBranch(r) /\ OnBranch(r) = Active(r)
      BY <1>e, <1>f, <2>1 DEF SwitchRewrite
    <2>3. ~(r = op.s /\ Active(r) = op.b) BY <1>a, <1>d, <2>1 DEF OpInv
    <2>4. owed'[r][Active(r)] = owed[r][Active(r)] /\ mine'[r][Active(r)] = mine[r][Active(r)]
      BY <1>c, <1>d, <2>1, <2>3
    <2> QED BY <1>b, <2>1, <2>2, <2>4, MemSame
  <1>9. CASE Crash
    <2>1. mem'[r] = <<>> /\ cached' = {} BY <1>9 DEF Crash
    <2> QED BY <1>h, <2>1
  <1>10. ASSUME UNCHANGED <<cached, mem, owed, mine>>, ~SwitchRewrite PROVE MemOf(r)'
    BY <1>b, <1>e, <1>10, MemSame
  <1>11. ASSUME NEW s \in Sessions, CreateBegin(s) PROVE MemOf(r)'
    <2>1. UNCHANGED <<cached, mem, owed, mine>> /\ ~SwitchRewrite
      BY <1>11 DEF CreateBegin, memVars, Free, SwitchRewrite
    <2> QED BY <1>10, <2>1
  <1>12. CASE AppendLog \/ AppendLogStops \/ AppendMeta \/ SwitchEnd \/ WriteFails
    <2>1. UNCHANGED <<cached, mem, owed, mine>>
      BY <1>12 DEF AppendLog, AppendLogStops, AppendMeta, SwitchEnd, WriteFails, memVars, histVars
    <2> QED BY <1>6, <1>10, <2>1
  <1> QED
    BY <1>1, <1>2, <1>3, <1>4, <1>5, <1>6, <1>7, <1>8, <1>9, <1>11, <1>12
    DEF Step, OperationGoesOn

-----------------------------------------------------------------------------
\* Nothing is owed at the beginning.
LEMMA InitHistory == Init => History
  <1> SUFFICES ASSUME Init PROVE History OBVIOUS
  <1>1. EventsOf(<<>>) = {} BY NoLines
  <1>2. NothingYet BY DEF Init, NothingYet
  <1>3. UnderWay BY DEF Init, UnderWay, Idle
  <1>4. ASSUME NEW s \in Sessions, NEW b \in Branches PROVE DiskOf(s, b)
    <2>1. Content(s, b) = <<>> /\ owed[s][b] = {} BY <1>4 DEF Init, Content
    <2> QED BY <1>1, <2>1 DEF DiskOf
  <1>5. ASSUME NEW s \in Sessions PROVE MemOf(s)
    <2>1. mem[s] = <<>> /\ cached = {} BY <1>5 DEF Init
    <2> QED BY <1>1, <2>1 DEF MemOf
  <1> QED BY <1>2, <1>3, <1>4, <1>5 DEF History

\* With SwitchWhole every step keeps History.
LEMMA NextHistory == SwitchWhole /\ Structure /\ History /\ [Next]_vars => History'
  <1>1. ASSUME SwitchWhole, Structure, History, Next PROVE History'
    <2>1. Step BY <1>1, NextIsStep DEF Structure
    <2>2. NothingYet' /\ UnderWay'
      BY <1>1, <2>1, NextNothingYet, NextUnderWay DEF History
    <2>3. \A s \in Sessions : \A b \in Branches : DiskOf(s, b)' BY <1>1, <2>1, NextDisk
    <2>4. \A s \in Sessions : MemOf(s)' BY <1>1, <2>1, NextMem
    <2> QED BY <2>2, <2>3, <2>4 DEF History
  <1>2. ASSUME History, UNCHANGED vars PROVE History'
    <2> USE <1>2 DEF vars, diskVars, memVars, histVars
    <2>1. NothingYet' BY DEF History, NothingYet, Unborn, Registered
    <2>2. UnderWay' BY DEF History, UnderWay, Active, Readable, EventsOf
    <2>3. ASSUME NEW s \in Sessions, NEW b \in Branches PROVE DiskOf(s, b)'
      BY <2>3 DEF History, DiskOf, Content, OnBranch, Active, Registered, Readable, EventsOf
    <2>4. ASSUME NEW s \in Sessions PROVE MemOf(s)'
      BY <2>4 DEF History, MemOf, OnBranch, Active, EventsOf
    <2> QED BY <2>1, <2>2, <2>3, <2>4 DEF History
  <1> QED BY <1>1, <1>2

\* So both hold in every behaviour.
LEMMA HistoryInvariant ==
    ASSUME SwitchWhole
    PROVE  Spec => [](Structure /\ History)
  <1>1. Init => Structure /\ History BY InitStructure, InitHistory
  <1>2. Structure /\ History /\ [Next]_vars => (Structure /\ History)'
    BY NextStructure, NextHistory
  <1> QED BY <1>1, <1>2, PTL DEF Spec

\* What AppendEvent acknowledged and nobody removed is on its branch on disk after every
\* crash and every failed write, except of a switch that has replaced events.
THEOREM AcknowledgedIsKept ==
    ASSUME SwitchWhole
    PROVE  Spec => []HistoryKept
  <1>1. Structure /\ History => HistoryKept BY DEF History, DiskOf, HistoryKept
  <1> QED BY <1>1, HistoryInvariant, PTL

\* A cached session has every acknowledged event of the branch it is on, through
\* evictions, reloads, switches and failed rewrites.
THEOREM MemoryServes ==
    ASSUME SwitchWhole
    PROVE  Spec => []MemoryServesHistory
  <1>1. Structure /\ History => MemoryServesHistory
    BY DEF Structure, TypeOK, History, MemOf, MemoryServesHistory
  <1> QED BY <1>1, HistoryInvariant, PTL

\* No event turns up on a branch it was not put on and that was not forked from one that
\* has it, neither on disk nor in memory.
THEOREM BranchesStayApart ==
    ASSUME SwitchWhole
    PROVE  Spec => []BranchesApart
  <1>1. Structure /\ History => BranchesApart
    BY DEF History, DiskOf, MemOf, BranchesApart, Registered
  <1> QED BY <1>1, HistoryInvariant, PTL
=============================================================================
