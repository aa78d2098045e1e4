-------------------------- MODULE RbnPostingProofs --------------------------
(***************************************************************************)
(* Proofs about the RBN feeder (RbnPosting), for every set of receivers,   *)
(* every interval and every bound: its types, one post per interval and    *)
(* frequency, nothing held back in vain, no backlog, and a feeder that     *)
(* says it stopped cleanly only when it was asked to.                      *)
(***************************************************************************)
EXTENDS RbnPosting, WellFoundedInduction, FiniteSetTheorems, TLAPS

-----------------------------------------------------------------------------
(* The inductive invariant.                                                *)

\* A spot that was let through is in Respot's memory for as long as the least
\* interval that was in force since, whatever the lists and the prunes did.
Remembered ==
  \A i \in DOMAIN passed :
    /\ passed[i].t <= now /\ passed[i].gap <= interval
    /\ now - passed[i].t < passed[i].gap =>
         [t |-> passed[i].t, f |-> passed[i].f, rx |-> passed[i].rx] \in last

\* Respot's memory holds only spots that were let through.
OnlyPassed == \A e \in last : \E i \in DOMAIN passed : passed[i].t = e.t /\ passed[i].f = e.f

Rule == Remembered /\ OnlyPassed /\ OnePostPerInterval /\ HeldForOne

\* When the spots at hand were read, by where the upload thread is: the queue was
\* empty when it last drained it.
SpottedSince(t) == (\A i \in DOMAIN spots : spots[i].at >= t)
TakenSince(t) == \A s \in batch : s.at >= t
Punctual ==
  /\ upload # "dead" => now <= due
  /\ upload = "waits" =>
       due - UPLOAD_S <= now /\ SpottedSince(due - UPLOAD_S - HTTP_TIMEOUT_S)
  /\ upload = "drains" =>
       /\ now = due /\ SpottedSince(due - UPLOAD_S - HTTP_TIMEOUT_S)
       /\ TakenSince(due - UPLOAD_S - HTTP_TIMEOUT_S)
  /\ upload = "posts" =>
       /\ due - HTTP_TIMEOUT_S <= now /\ SpottedSince(due - HTTP_TIMEOUT_S)
       /\ TakenSince(due - UPLOAD_S - 2 * HTTP_TIMEOUT_S)

-----------------------------------------------------------------------------
(* The greatest of finitely many numbers.                                  *)

\* A set of naturals has a least member: the library's well-foundedness of <.
LEMMA LeastOf ==
  ASSUME NEW T, T \subseteq Nat, T # {}
  PROVE  \E x \in T : \A y \in T : x <= y
<1>1. PICK x \in T : \A y \in T : ~ (<<y, x>> \in OpToRel(<, Nat))
  BY WFMin, NatLessThanWellFounded, Zenon
<1>2. \A y \in T : ~ (y < x)
  BY <1>1 DEF OpToRel
<1> QED
  BY <1>2

\* Finitely many naturals have a bound: the least length that had none would.
LEMMA BoundOf ==
  ASSUME NEW n \in Nat, NEW h \in [1..n -> Nat]
  PROVE  \E b \in Nat : \A i \in 1..n : h[i] <= b
<1> DEFINE Bounded(k) == \E b \in Nat : \A i \in 1..k : h[i] <= b
           T == {k \in 0..n : ~Bounded(k)}
<1>1. T \subseteq Nat /\ \A k \in T : k \in 0..n /\ ~Bounded(k)
  OBVIOUS
<1>2. \A k \in 0..n : Bounded(k) \/ k \in T
  OBVIOUS
<1>3. Bounded(0)
  <2>1. \A i \in 1..0 : h[i] <= 0
    OBVIOUS
  <2> QED
    BY <2>1
<1> HIDE DEF T
<1>4. CASE T = {}
  <2>1. n \in 0..n
    OBVIOUS
  <2>2. Bounded(n)
    BY <1>2, <1>4, <2>1
  <2> QED
    BY <2>2
<1> SUFFICES ASSUME T # {} PROVE FALSE
  BY <1>4
<1>10. PICK k \in T : \A j \in T : k <= j
  BY <1>1, LeastOf
<1>11. k \in 0..n /\ ~Bounded(k)
  BY <1>1
<1>12. k # 0
  BY <1>3, <1>11
<1>13. k \in 1..n /\ k \in Nat /\ k - 1 \in 0..n /\ ~(k <= k - 1)
  BY <1>11, <1>12
<1>14. k - 1 \notin T
  BY <1>10, <1>13
<1>15. Bounded(k - 1)
  BY <1>2, <1>13, <1>14
<1>5. PICK b \in Nat : \A i \in 1..(k - 1) : h[i] <= b
  BY <1>15
<1>6. k \in 1..n /\ h[k] \in Nat
  BY <1>13
<1>7. PICK c \in Nat : b <= c /\ h[k] <= c
  <2>1. CASE b <= h[k]
    BY <1>6, <2>1
  <2>2. CASE h[k] <= b
    BY <1>6, <2>2
  <2> QED
    BY <1>6, <2>1, <2>2
<1>8. \A i \in 1..k : h[i] <= c
  <2> SUFFICES ASSUME NEW i \in 1..k PROVE h[i] <= c
    OBVIOUS
  <2>1. CASE i = k
    BY <1>7, <2>1
  <2>2. CASE i # k
    <3>1. i \in 1..(k - 1) /\ i \in 1..n
      BY <1>13, <2>2
    <3>2. h[i] <= b /\ h[i] \in Nat
      BY <1>5, <3>1
    <3> QED
      BY <1>7, <3>2
  <2> QED
    BY <2>1, <2>2
<1>9. Bounded(k)
  BY <1>8, <1>7
<1> QED
  BY <1>11, <1>9

\* Readers.set takes the longest interval of the receivers it is given: it is one
\* of theirs, and none is longer.
LEMMA LongestIsOne ==
  ASSUME NEW names \in SUBSET Receivers, names # {}
  PROVE  Longest(names) \in {RESPOT[r] : r \in names} /\ \A r \in names : RESPOT[r] <= Longest(names)
<1> DEFINE S == {RESPOT[r] : r \in names}
<1>1. PICK n \in Nat : ExistsBijection(1..n, Receivers)
  BY RbnPostingAssumption, FS_CardinalityType
<1>2. PICK g \in Bijection(1..n, Receivers) : TRUE
  BY <1>1 DEF ExistsBijection
<1>3. g \in [1..n -> Receivers] /\ \A r \in Receivers : \E i \in 1..n : g[i] = r
  BY <1>2 DEF Bijection, Injection, Surjection
<1>4. \A r \in Receivers : RESPOT[r] \in Nat
  BY RbnPostingAssumption
<1>5. PICK b \in Nat : \A i \in 1..n : RESPOT[g[i]] <= b
  <2> DEFINE h == [i \in 1..n |-> RESPOT[g[i]]]
  <2>1. h \in [1..n -> Nat]
    BY <1>3, <1>4
  <2>2. PICK b \in Nat : \A i \in 1..n : h[i] <= b
    BY <2>1, BoundOf
  <2> QED
    BY <2>2
<1>6. \A r \in Receivers : RESPOT[r] <= b
  BY <1>3, <1>5
<1> DEFINE T == {b - x : x \in S}
<1>7. S # {} /\ S \subseteq Nat /\ \A x \in S : x <= b
  BY <1>4, <1>6
<1> HIDE DEF S
<1>8. T \subseteq Nat /\ T # {} /\ \A t \in T : \E x \in S : t = b - x
  <2>1. \A x \in S : b - x \in Nat
    BY <1>7
  <2> QED
    BY <1>7, <2>1
<1>14. \A x \in S : b - x \in T
  OBVIOUS
<1> HIDE DEF T
<1>9. PICK t \in T : \A y \in T : t <= y
  BY <1>8, LeastOf
<1>10. PICK m \in S : t = b - m
  BY <1>8
<1>11. \A y \in S : m >= y
  BY <1>7, <1>9, <1>10, <1>14
<1>12. Max(S) \in S /\ \A y \in S : Max(S) >= y
  BY <1>11 DEF Max
<1>13. \A y \in S : y <= Max(S)
  BY <1>7, <1>12
<1> QED
  BY <1>12, <1>13 DEF Longest, S

-----------------------------------------------------------------------------
(* Types.                                                                  *)

ClockTypes ==
  /\ now \in 0..MaxTime /\ skimmed \in [Hears -> Never..MaxTime]
  /\ skims \in 0..MaxSkims /\ relists \in 0..MaxRelists
ListTypes ==
  readers \subseteq Receivers /\ lingering \subseteq Receivers /\ interval \in {RESPOT[r] : r \in Receivers}
QueueTypes ==
  /\ last \subseteq Entry /\ spots \in Seq(Spot) /\ batch \subseteq Spot
  /\ upload \in {"waits", "drains", "posts", "dead"}
  /\ (upload \in {"waits", "dead"} => batch = {}) /\ (upload = "posts" => batch # {})
  /\ due \in Nat /\ registered \in BOOLEAN
LifeTypes ==
  /\ failed \in BOOLEAN /\ dying \in {"no", "died", "failed", "over"}
  /\ shutdown \in {"no", "outside", "thread"} /\ exit \in {"no", "clean", "failed"}
PassedTypes == passed \in Seq(Noted) /\ held \subseteq Noted

\* TypeOK is its parts.
LEMMA Parts ==
  /\ TypeOK <=> ClockTypes /\ ListTypes /\ QueueTypes /\ LifeTypes /\ PassedTypes
  /\ TypeOK' <=> ClockTypes' /\ ListTypes' /\ QueueTypes' /\ LifeTypes' /\ PassedTypes'
  BY DEF TypeOK, ClockTypes, ListTypes, QueueTypes, LifeTypes, PassedTypes

\* The constants are numbers.
LEMMA Numbers ==
  /\ RESPOT_SLACK_S \in Nat /\ HTTP_TIMEOUT_S \in Nat /\ MaxTime \in Nat
  /\ MaxSkims \in Nat /\ MaxRelists \in Nat /\ UPLOAD_S \in Nat /\ UPLOAD_S > 0
  /\ \A r \in Receivers : RESPOT[r] \in Nat
  BY RbnPostingAssumption

\* A waiting re-spot rule: how long a receiver's spot is held back, in numbers.
LEMMA WaitIs ==
  ASSUME interval \in Nat, NEW by, NEW rx
  PROVE  /\ Wait(by, rx) \in Nat
         /\ Wait(by, rx) <= interval
         /\ Wait(by, rx) >= interval - (IF by = rx THEN RESPOT_SLACK_S ELSE 0)
<1> DEFINE w == interval - RESPOT_SLACK_S
<1>1. w \in Int /\ w <= interval
  BY Numbers
<1>2. CASE w >= 0
  <2>1. w \in {w, 0} /\ \A y \in {w, 0} : w >= y
    BY <1>1, <1>2
  <2>2. Max({w, 0}) \in {w, 0} /\ \A y \in {w, 0} : Max({w, 0}) >= y
    BY <2>1 DEF Max
  <2>3. Max({w, 0}) = w
    BY <1>1, <1>2, <2>2
  <2> QED
    BY <1>1, <1>2, <2>3, Numbers DEF Wait
<1>3. CASE ~(w >= 0)
  <2>1. 0 \in {w, 0} /\ \A y \in {w, 0} : 0 >= y
    BY <1>1, <1>3
  <2>2. Max({w, 0}) \in {w, 0} /\ \A y \in {w, 0} : Max({w, 0}) >= y
    BY <2>1 DEF Max
  <2>3. Max({w, 0}) = 0
    BY <1>1, <1>3, <2>2
  <2> QED
    BY <1>1, <1>3, <2>3, Numbers DEF Wait
<1> QED
  BY <1>2, <1>3

\* The least of the interval a spot was let through under and the one now in force.
LEMMA LeastOfTwo ==
  ASSUME NEW x \in Int, NEW y \in Int
  PROVE  Min({x, y}) \in {x, y} /\ Min({x, y}) <= x /\ Min({x, y}) <= y
<1>1. \E m \in {x, y} : \A z \in {x, y} : m <= z
  <2>1. CASE x <= y
    BY <2>1
  <2>2. CASE y <= x
    BY <2>2
  <2> QED
    BY <2>1, <2>2
<1> QED
  BY <1>1 DEF Min

\* The interval of the next list is that of a receiver, as the interval was.
LEMMA IntervalIs ==
  ASSUME ListTypes, NEW names \in SUBSET Receivers
  PROVE  IntervalOf(names) \in {RESPOT[r] : r \in Receivers}
<1>1. CASE names = {}
  BY <1>1 DEF IntervalOf, ListTypes
<1>2. CASE names # {}
  BY <1>2, LongestIsOne DEF IntervalOf
<1> QED
  BY <1>1, <1>2

\* A spot read by a skimmer is one of the queue's.
LEMMA SkimTypes ==
  ASSUME TypeOK, NEW r \in Receivers, NEW f \in Freqs, Skim(r, f)
  PROVE  TypeOK'
<1> DEFINE spot == <<[rx |-> r, f |-> f, at |-> now]>>
           first == IF r \in readers THEN spot ELSE <<>>
           second == IF r \in lingering THEN spot ELSE <<>>
<1>1. now \in 0..MaxTime /\ skims \in 0..MaxSkims /\ spots \in Seq(Spot)
  BY DEF TypeOK
<1>2. spot \in Seq(Spot)
  BY <1>1 DEF Spot
<1>3. first \in Seq(Spot) /\ second \in Seq(Spot)
  BY <1>2
<1>4. spots' = spots \o first \o second
  BY DEF Skim
<1> HIDE DEF first, second
<1>5. spots' \in Seq(Spot)
  BY <1>1, <1>3, <1>4
<1>6. skims' \in 0..MaxSkims
  BY <1>1, Numbers DEF Skim
<1>7. now \in Never..MaxTime
  BY <1>1, Numbers DEF Never
<1>8. ClockTypes'
  BY <1>6, <1>7, Parts DEF ClockTypes, Skim, listed
<1>9. ListTypes'
  BY Parts DEF ListTypes, Skim, listed
<1>10. QueueTypes'
  BY <1>5, Parts DEF QueueTypes, Skim, posting
<1>11. LifeTypes' /\ PassedTypes'
  BY Parts DEF LifeTypes, PassedTypes, Skim, posting, life
<1> QED
  BY <1>8, <1>9, <1>10, <1>11, Parts

\* What Readers.set does to the observer: each entry keeps what it is, with the
\* least interval since.
LEMMA GapsLessen ==
  ASSUME TypeOK, NEW names \in SUBSET Receivers, NEW within \in SUBSET Receivers, Set(names, within)
  PROVE  /\ interval' \in {RESPOT[r] : r \in Receivers}
         /\ passed' \in Seq(Noted) /\ DOMAIN passed' = DOMAIN passed
         /\ \A i \in DOMAIN passed :
              /\ passed'[i].t = passed[i].t /\ passed'[i].f = passed[i].f
              /\ passed'[i].rx = passed[i].rx
              /\ passed'[i].gap <= passed[i].gap /\ passed'[i].gap <= interval'
<1>1. interval' \in {RESPOT[r] : r \in Receivers}
  BY IntervalIs, Parts DEF Set
<1>2. passed \in Seq(Noted)
  BY DEF TypeOK
<1>3. passed' = [i \in DOMAIN passed |-> [passed[i] EXCEPT !.gap = Min({@, interval'})]]
  BY DEF Set
<1>4. ASSUME NEW i \in DOMAIN passed
      PROVE  /\ passed'[i] \in Noted
             /\ passed'[i].t = passed[i].t /\ passed'[i].f = passed[i].f
             /\ passed'[i].rx = passed[i].rx
             /\ passed'[i].gap <= passed[i].gap /\ passed'[i].gap <= interval'
  <2>1. passed[i] \in Noted
    BY <1>2
  <2> DEFINE m == Min({passed[i].gap, interval'})
  <2>2. passed[i].gap \in Int /\ interval' \in Int
    BY <1>1, <2>1, Numbers DEF Noted
  <2>3. m \in {passed[i].gap, interval'} /\ m <= passed[i].gap /\ m <= interval'
    BY <2>2, LeastOfTwo
  <2>4. passed'[i] = [passed[i] EXCEPT !.gap = m]
    BY <1>3
  <2> HIDE DEF m
  <2>5. m \in {RESPOT[r] : r \in Receivers}
    BY <1>1, <2>1, <2>3 DEF Noted
  <2> QED
    BY <2>1, <2>3, <2>4, <2>5 DEF Noted
<1>5. DOMAIN passed' = DOMAIN passed
  BY <1>3
<1>6. passed' \in Seq(Noted)
  <2>1. DOMAIN passed = 1..Len(passed) /\ Len(passed) \in Nat
    BY <1>2
  <2>2. passed' \in [1..Len(passed) -> Noted]
    BY <1>3, <1>4, <2>1
  <2> QED
    BY <2>1, <2>2
<1> QED
  BY <1>1, <1>4, <1>5, <1>6

\* Types: a list is taken over.
LEMMA SetTypes ==
  ASSUME TypeOK, NEW names \in SUBSET Receivers, NEW within \in SUBSET Receivers, Set(names, within)
  PROVE  TypeOK'
<1>1. relists \in 0..MaxRelists /\ relists < MaxRelists /\ relists' = relists + 1
  BY DEF TypeOK, Set
<1>2. ClockTypes'
  BY <1>1, Numbers, Parts DEF ClockTypes, Set
<1>3. ListTypes'
  BY GapsLessen, Parts DEF ListTypes, Set
<1>4. QueueTypes' /\ LifeTypes'
  BY Parts DEF QueueTypes, LifeTypes, Set, life
<1>5. PassedTypes'
  BY GapsLessen, Parts DEF PassedTypes, Set
<1> QED
  BY <1>2, <1>3, <1>4, <1>5, Parts

\* The entries of the upload thread's steps.
LEMMA TakesTypes == ASSUME TypeOK, Takes PROVE TypeOK'
<1> DEFINE s == Head(spots)
           noted == [t |-> now, f |-> s.f, rx |-> s.rx, gap |-> interval]
           entry == [t |-> now, f |-> s.f, rx |-> s.rx]
<1>1. spots \in Seq(Spot) /\ spots # <<>> /\ now \in 0..MaxTime
      /\ interval \in {RESPOT[r] : r \in Receivers} /\ passed \in Seq(Noted) /\ held \subseteq Noted
      /\ last \subseteq Entry /\ batch \subseteq Spot
  BY DEF TypeOK, Takes
<1>2. s \in Spot /\ Tail(spots) \in Seq(Spot)
  BY <1>1
<1>3. noted \in Noted /\ entry \in Entry
  BY <1>1, <1>2 DEF Noted, Entry, Spot
<1>4. spots' = Tail(spots) /\ last' = Entered(Seen, s, Allowed(s)) /\ upload = "drains" /\ upload' = upload
      /\ due' = due /\ registered' = registered
  BY DEF Takes
<1>5. Entered(Seen, s, Allowed(s)) \subseteq Seen \cup {entry} /\ Seen \subseteq last
  BY DEF Entered, Seen
<1>6. last' \subseteq Entry
  BY <1>1, <1>3, <1>4, <1>5
<1>7. \/ batch' = batch \cup {s} /\ passed' = Append(passed, noted) /\ held' = held
      \/ batch' = batch /\ passed' = passed /\ held' = held \cup {noted}
  BY DEF Takes
<1> HIDE DEF s, noted, entry
<1>8. batch' \subseteq Spot /\ passed' \in Seq(Noted) /\ held' \subseteq Noted
  BY <1>1, <1>2, <1>3, <1>7
<1>9. QueueTypes'
  BY <1>2, <1>4, <1>6, <1>8, Parts DEF QueueTypes
<1>10. ClockTypes' /\ ListTypes' /\ LifeTypes'
  BY Parts DEF ClockTypes, ListTypes, LifeTypes, Takes, asRead, life
<1>11. PassedTypes'
  BY <1>8 DEF PassedTypes
<1> QED
  BY <1>9, <1>10, <1>11, Parts

\* Types: the upload thread.
LEMMA UploadTypes == ASSUME TypeOK, Wakes \/ Drained \/ Posted \/ PostId PROVE TypeOK'
<1>1. now \in Nat /\ due \in Nat /\ now + UPLOAD_S \in Nat /\ now + HTTP_TIMEOUT_S \in Nat
  BY Numbers DEF TypeOK
<1>2. ClockTypes' /\ ListTypes' /\ LifeTypes'
  BY Parts DEF ClockTypes, ListTypes, LifeTypes, Wakes, Drained, Posted, PostId, asRead, listed, life
<1>3. PassedTypes'
  BY Parts DEF PassedTypes, Wakes, Drained, Posted, PostId, posting
<1>4. CASE Wakes \/ PostId
  <2>1. QueueTypes'
    BY <1>4, Parts DEF QueueTypes, Wakes, PostId, posting
  <2> QED
    BY <1>2, <1>3, <2>1, Parts
<1>5. CASE Drained
  <2>1. QueueTypes'
    BY <1>1, <1>5, Parts DEF QueueTypes, Drained, Unsigned
  <2> QED
    BY <1>2, <1>3, <2>1, Parts
<1>6. CASE Posted
  <2>1. QueueTypes'
    BY <1>1, <1>6, Parts DEF QueueTypes, Posted
  <2> QED
    BY <1>2, <1>3, <2>1, Parts
<1> QED
  BY <1>4, <1>5, <1>6

\* What a process that ends lets go of.
LEMMA LetGoTypes ==
  ASSUME TypeOK, LetGo
  PROVE  ClockTypes' /\ ListTypes' /\ QueueTypes' /\ PassedTypes'
<1>1. ClockTypes' /\ ListTypes'
  BY Parts DEF ClockTypes, ListTypes, LetGo, outside
<1>2. QueueTypes' /\ PassedTypes'
  BY Parts DEF QueueTypes, PassedTypes, LetGo, outside
<1> QED
  BY <1>1, <1>2

\* Types: how the process ends.
LEMMA EndTypes == ASSUME TypeOK, Dies \/ Marks \/ Asked \/ Exits PROVE TypeOK'
<1>1. CASE Dies
  <2>1. LetGo /\ LifeTypes'
    BY <1>1, Parts DEF Dies, LifeTypes
  <2> QED
    BY <2>1, LetGoTypes, Parts
<1>2. CASE Asked
  <2>1. LetGo /\ LifeTypes'
    BY <1>2, Parts DEF Asked, LifeTypes
  <2> QED
    BY <2>1, LetGoTypes, Parts
<1>3. CASE Marks
  <2>1. LifeTypes'
    BY <1>3, Parts DEF Marks, Mark, SetFailed, SetShutdown, LifeTypes
  <2>2. ClockTypes' /\ ListTypes' /\ QueueTypes' /\ PassedTypes'
    BY <1>3, Parts DEF Marks, outside, ClockTypes, ListTypes, QueueTypes, PassedTypes
  <2> QED
    BY <2>1, <2>2, Parts
<1>4. CASE Exits
  <2>1. LifeTypes'
    BY <1>4, Parts DEF Exits, LifeTypes
  <2>2. ClockTypes' /\ ListTypes' /\ QueueTypes' /\ PassedTypes'
    BY <1>4, Parts DEF Exits, outside, ClockTypes, ListTypes, QueueTypes, PassedTypes
  <2> QED
    BY <2>1, <2>2, Parts
<1> QED
  BY <1>1, <1>2, <1>3, <1>4

\* Types: the clock.
LEMMA PassTypes == ASSUME TypeOK, Pass PROVE TypeOK'
<1>1. ClockTypes'
  BY Numbers, Parts DEF ClockTypes, Pass, listed
<1>2. ListTypes' /\ LifeTypes'
  BY Parts DEF ListTypes, LifeTypes, Pass, listed, life
<1>3. QueueTypes' /\ PassedTypes'
  BY Parts DEF QueueTypes, PassedTypes, Pass, posting
<1> QED
  BY <1>1, <1>2, <1>3, Parts

\* Types: the start.
LEMMA TypeInit == Init => TypeOK
<1> SUFFICES ASSUME Init PROVE TypeOK
  OBVIOUS
<1>1. 0 \in 0..MaxTime /\ 0 \in 0..MaxSkims /\ 0 \in 0..MaxRelists /\ Never \in Never..MaxTime
  BY Numbers DEF Never
<1>2. interval \in {RESPOT[r] : r \in Receivers}
  BY LongestIsOne DEF Init
<1>3. ClockTypes /\ ListTypes
  BY <1>1, <1>2 DEF Init, ClockTypes, ListTypes
<1>4. <<>> \in Seq(Spot) /\ <<>> \in Seq(Noted)
  OBVIOUS
<1>5. QueueTypes
  BY <1>4, Numbers DEF Init, QueueTypes
<1>6. LifeTypes /\ PassedTypes
  BY <1>4 DEF Init, LifeTypes, PassedTypes
<1> QED
  BY <1>3, <1>5, <1>6, Parts

\* Types: every step.
LEMMA TypeStep == TypeOK /\ [Next]_vars => TypeOK'
<1> SUFFICES ASSUME TypeOK, [Next]_vars PROVE TypeOK'
  OBVIOUS
<1>1. ASSUME NEW r \in Receivers, NEW f \in Freqs, Skim(r, f) PROVE TypeOK'
  BY <1>1, SkimTypes
<1>2. ASSUME NEW names \in SUBSET Receivers, NEW within \in SUBSET Receivers, Set(names, within)
      PROVE  TypeOK'
  BY <1>2, SetTypes
<1>3. CASE UNCHANGED vars
  BY <1>3, Parts DEF vars, ClockTypes, ListTypes, QueueTypes, LifeTypes, PassedTypes
<1> QED
  BY <1>1, <1>2, <1>3, TakesTypes, UploadTypes, EndTypes, PassTypes DEF Next

\* Every variable keeps its type: Readers.set leaves an interval that is some
\* receiver's, the upload thread has a batch when it posts and none when it waits.
THEOREM Types == Spec => []TypeOK
  BY TypeInit, TypeStep, PTL DEF Spec

-----------------------------------------------------------------------------
(* The re-spot rule.                                                       *)

\* Steps that touch neither the rule's memory nor the clock.
LEMMA RuleStays ==
  ASSUME Rule, UNCHANGED <<passed, last, interval, now>>, held' \subseteq held
  PROVE  Rule'
  BY DEF Rule, Remembered, OnlyPassed, OnePostPerInterval, HeldForOne

\* So is every time that a spot carries.
LEMMA Numbered ==
  ASSUME TypeOK
  PROVE  /\ now \in Nat /\ interval \in Nat
         /\ \A i \in DOMAIN passed : passed[i].t \in Nat /\ passed[i].gap \in Nat /\ passed[i] \in Noted
         /\ \A e \in last : e.t \in Nat /\ e.f \in Freqs
         /\ \A h \in held : h.t \in Nat /\ h.gap \in Nat
<1>1. now \in Nat /\ interval \in Nat
  BY Numbers DEF TypeOK
<1>2. ASSUME NEW x \in Noted PROVE x.t \in Nat /\ x.gap \in Nat
  BY Numbers DEF Noted
<1>3. ASSUME NEW e \in Entry PROVE e.t \in Nat /\ e.f \in Freqs
  BY Numbers DEF Entry
<1> QED
  BY <1>1, <1>2, <1>3 DEF TypeOK

\* A lasting memory: what the prune takes away is older than every gap still open.
LEMMA SeenRemembers ==
  ASSUME TypeOK, Remembered, NEW i \in DOMAIN passed, now - passed[i].t < passed[i].gap
  PROVE  [t |-> passed[i].t, f |-> passed[i].f, rx |-> passed[i].rx] \in Seen
  BY Numbered DEF Remembered, Seen

\* A spot let through keeps its distance from every one before it.
LEMMA AllowedApart ==
  ASSUME TypeOK, Remembered, NEW s, Allowed(s), NEW i \in DOMAIN passed, passed[i].f = s.f
  PROVE  now - passed[i].t >= passed[i].gap - (IF passed[i].rx = s.rx THEN RESPOT_SLACK_S ELSE 0)
<1> DEFINE e == [t |-> passed[i].t, f |-> passed[i].f, rx |-> passed[i].rx]
           early == IF passed[i].rx = s.rx THEN RESPOT_SLACK_S ELSE 0
<1>1. passed[i].t \in Nat /\ passed[i].gap \in Nat /\ now \in Nat /\ interval \in Nat
      /\ early \in Nat /\ passed[i].gap <= interval
  BY Numbered, Numbers DEF Remembered
<1>2. CASE ~(now - passed[i].t < passed[i].gap)
  BY <1>1, <1>2
<1>3. CASE now - passed[i].t < passed[i].gap
  <2>1. e \in Seen
    BY <1>3, SeenRemembers
  <2>2. now - e.t >= Wait(e.rx, s.rx)
    BY <2>1 DEF Allowed
  <2>3. Wait(e.rx, s.rx) \in Nat /\ Wait(e.rx, s.rx) >= interval - early
    BY <1>1, WaitIs
  <2>4. e.t = passed[i].t /\ e.rx = passed[i].rx
    OBVIOUS
  <2> HIDE DEF early, e
  <2>5. now - passed[i].t >= passed[i].gap - early
    BY <1>1, <2>2, <2>3, <2>4
  <2> QED
    BY <2>5 DEF early
<1> QED
  BY <1>2, <1>3

\* A spot let through is far enough from all before it; one held back has one too near.
LEMMA TakesRule == ASSUME TypeOK, Rule, Takes PROVE Rule'
<1> DEFINE s == Head(spots)
           noted == [t |-> now, f |-> s.f, rx |-> s.rx, gap |-> interval]
           entry == [t |-> now, f |-> s.f, rx |-> s.rx]
<1>1. now' = now /\ interval' = interval
  BY DEF Takes, asRead
<1>2. Remembered /\ OnlyPassed /\ OnePostPerInterval /\ HeldForOne /\ passed \in Seq(Noted)
  BY DEF Rule, TypeOK
<1>3. CASE Allowed(s)
  <2>1. passed' = Append(passed, noted) /\ held' = held /\ last' = Seen \cup {entry}
    BY <1>3 DEF Takes, Entered
  <2> DEFINE n == Len(passed)
  <2>2. /\ n \in Nat /\ DOMAIN passed = 1..n /\ DOMAIN passed' = 1..(n + 1)
        /\ passed'[n + 1] = noted /\ \A i \in 1..n : passed'[i] = passed[i]
    BY <1>2, <2>1
  <2> HIDE DEF n
  <2>3. Remembered'
    <3> SUFFICES ASSUME NEW i \in 1..(n + 1)
                 PROVE  /\ passed'[i].t <= now /\ passed'[i].gap <= interval
                        /\ now - passed'[i].t < passed'[i].gap =>
                             [t |-> passed'[i].t, f |-> passed'[i].f, rx |-> passed'[i].rx] \in last'
      BY <1>1, <2>2 DEF Remembered
    <3>1. CASE i = n + 1
      BY <2>1, <2>2, <3>1, Numbered
    <3>2. CASE i \in 1..n
      BY <1>2, <2>1, <2>2, <3>2, SeenRemembers DEF Remembered
    <3> QED
      BY <2>2, <3>1, <3>2
  <2>4. OnlyPassed'
    <3> SUFFICES ASSUME NEW e \in last'
                 PROVE  \E i \in 1..(n + 1) : passed'[i].t = e.t /\ passed'[i].f = e.f
      BY <2>2 DEF OnlyPassed
    <3>1. CASE e = entry
      <4>1. n + 1 \in 1..(n + 1)
        BY <2>2
      <4> QED
        BY <2>2, <3>1, <4>1
    <3>2. CASE e \in last
      <4>1. PICK i \in 1..n : passed[i].t = e.t /\ passed[i].f = e.f
        BY <1>2, <2>2, <3>2 DEF OnlyPassed
      <4>2. i \in 1..(n + 1)
        BY <2>2
      <4> QED
        BY <2>2, <4>1, <4>2
    <3> QED
      BY <2>1, <3>1, <3>2 DEF Seen
  <2>5. OnePostPerInterval'
    <3> SUFFICES ASSUME NEW i \in 1..(n + 1), NEW j \in 1..(n + 1), i < j, passed'[i].f = passed'[j].f
                 PROVE  passed'[j].t - passed'[i].t >=
                          passed'[i].gap - (IF passed'[i].rx = passed'[j].rx THEN RESPOT_SLACK_S ELSE 0)
      BY <2>2 DEF OnePostPerInterval
    <3>1. i \in 1..n
      BY <2>2
    <3>2. CASE j \in 1..n
      BY <1>2, <2>2, <3>1, <3>2 DEF OnePostPerInterval
    <3>3. CASE j = n + 1
      <4>1. passed'[i] = passed[i] /\ passed'[j].t = now /\ passed'[j].f = s.f /\ passed'[j].rx = s.rx
        BY <2>2, <3>1, <3>3
      <4> HIDE DEF s
      <4> QED
        BY <1>2, <1>3, <2>2, <3>1, <4>1, AllowedApart
    <3> QED
      BY <2>2, <3>2, <3>3
  <2>6. HeldForOne'
    <3> SUFFICES ASSUME NEW h \in held
                 PROVE  \E i \in 1..(n + 1) : passed'[i].f = h.f /\ h.t - passed'[i].t < h.gap
      BY <2>1, <2>2 DEF HeldForOne
    <3>1. PICK i \in 1..n : passed[i].f = h.f /\ h.t - passed[i].t < h.gap
      BY <1>2, <2>2 DEF HeldForOne
    <3>2. i \in 1..(n + 1)
      BY <2>2
    <3> QED
      BY <2>2, <3>1, <3>2
  <2> QED
    BY <2>3, <2>4, <2>5, <2>6 DEF Rule
<1>4. CASE ~Allowed(s)
  <2>1. passed' = passed /\ held' = held \cup {noted} /\ last' = Seen
    BY <1>4 DEF Takes, Entered
  <2>2. Remembered'
    BY <1>1, <1>2, <2>1, SeenRemembers DEF Remembered
  <2>3. OnlyPassed' /\ OnePostPerInterval'
    BY <1>2, <2>1 DEF OnlyPassed, OnePostPerInterval, Seen
  <2>4. HeldForOne'
    <3>1. PICK e \in Seen : e.f = s.f /\ ~(now - e.t >= Wait(e.rx, s.rx))
      BY <1>4 DEF Allowed
    <3>2. PICK i \in DOMAIN passed : passed[i].t = e.t /\ passed[i].f = e.f
      BY <1>2, <3>1 DEF OnlyPassed, Seen
    <3>3. Wait(e.rx, s.rx) \in Nat /\ Wait(e.rx, s.rx) <= interval
      BY WaitIs, Numbered
    <3>4. noted.t - passed[i].t < noted.gap /\ passed[i].f = noted.f
      BY <3>1, <3>2, <3>3, Numbered
    <3> QED
      BY <1>2, <2>1, <3>4 DEF HeldForOne
  <2> QED
    BY <2>2, <2>3, <2>4 DEF Rule
<1> QED
  BY <1>3, <1>4

\* A new list shortens what earlier spots still hold back, never lengthens it.
LEMMA SetRule ==
  ASSUME TypeOK, TypeOK', Rule,
         NEW names \in SUBSET Receivers, NEW within \in SUBSET Receivers, Set(names, within)
  PROVE  Rule'
<1>1. now' = now /\ last' = last /\ held' = held
  BY DEF Set
<1>2. /\ DOMAIN passed' = DOMAIN passed
      /\ \A i \in DOMAIN passed :
           /\ passed'[i].t = passed[i].t /\ passed'[i].f = passed[i].f
           /\ passed'[i].rx = passed[i].rx
           /\ passed'[i].gap <= passed[i].gap /\ passed'[i].gap <= interval'
  BY GapsLessen
<1>3. \A i \in DOMAIN passed : passed[i].t \in Nat /\ passed[i].gap \in Nat /\ passed'[i].gap \in Nat
  <2>1. \A i \in DOMAIN passed' : passed'[i] \in Noted
    BY DEF TypeOK
  <2>2. \A x \in Noted : x.gap \in Nat
    BY Numbers DEF Noted
  <2> QED
    BY <1>2, <2>1, <2>2, Numbered
<1>4. Remembered'
  BY <1>1, <1>2, <1>3, Numbered DEF Rule, Remembered
<1>5. OnlyPassed' /\ HeldForOne'
  BY <1>1, <1>2 DEF Rule, OnlyPassed, HeldForOne
<1>6. OnePostPerInterval'
  <2> SUFFICES ASSUME NEW i \in DOMAIN passed, NEW j \in DOMAIN passed, i < j,
                      passed'[i].f = passed'[j].f
               PROVE  passed'[j].t - passed'[i].t >=
                        passed'[i].gap - (IF passed'[i].rx = passed'[j].rx THEN RESPOT_SLACK_S ELSE 0)
    BY <1>2 DEF OnePostPerInterval
  <2> DEFINE early == IF passed[i].rx = passed[j].rx THEN RESPOT_SLACK_S ELSE 0
  <2>1. passed[j].t - passed[i].t >= passed[i].gap - early /\ early \in Nat
    BY <1>2, Numbers DEF Rule, OnePostPerInterval
  <2>2. early = IF passed'[i].rx = passed'[j].rx THEN RESPOT_SLACK_S ELSE 0
    BY <1>2
  <2> HIDE DEF early
  <2> QED
    BY <1>2, <1>3, <2>1, <2>2
<1> QED
  BY <1>4, <1>5, <1>6 DEF Rule

\* The clock moves no spot let through, and lets more of them expire.
LEMMA PassRule == ASSUME TypeOK, Rule, Pass PROVE Rule'
<1>1. now' = now + 1 /\ UNCHANGED <<passed, last, interval, held>>
  BY DEF Pass, listed, posting
<1>2. Remembered'
  BY <1>1, Numbered DEF Rule, Remembered
<1> QED
  BY <1>1, <1>2 DEF Rule, OnlyPassed, OnePostPerInterval, HeldForOne

\* With the spots forgotten nothing is left to compare.
LEMMA LetGoRule == ASSUME LetGo PROVE Rule'
<1>1. passed' = <<>> /\ last' = {} /\ held' = {}
  BY DEF LetGo
<1>2. DOMAIN passed' = {}
  BY <1>1
<1> QED
  BY <1>1, <1>2 DEF Rule, Remembered, OnlyPassed, OnePostPerInterval, HeldForOne

\* Every step keeps the rule.
LEMMA RuleStep == TypeOK /\ TypeOK' /\ Rule /\ [Next]_vars => Rule'
<1> SUFFICES ASSUME TypeOK, TypeOK', Rule, [Next]_vars PROVE Rule'
  OBVIOUS
<1>1. ASSUME NEW r \in Receivers, NEW f \in Freqs, Skim(r, f) PROVE Rule'
  BY <1>1, RuleStays DEF Skim, posting, listed
<1>2. ASSUME NEW names \in SUBSET Receivers, NEW within \in SUBSET Receivers, Set(names, within)
      PROVE  Rule'
  BY <1>2, SetRule
<1>3. CASE Wakes
  BY <1>3, RuleStays DEF Wakes, asRead
<1>4. CASE Drained \/ Posted \/ PostId
  BY <1>4, RuleStays DEF Drained, Posted, PostId, asRead, posting, listed
<1>5. CASE Marks \/ Exits
  BY <1>5, RuleStays DEF Marks, Exits, outside
<1>6. CASE Dies \/ Asked
  BY <1>6, LetGoRule DEF Dies, Asked
<1>7. CASE UNCHANGED vars
  BY <1>7, RuleStays DEF vars
<1> QED
  BY <1>1, <1>2, <1>3, <1>4, <1>5, <1>6, <1>7, TakesRule, PassRule DEF Next

\* Nothing has passed at the start.
LEMMA RuleInit == Init => Rule
<1>1. Init => passed = <<>> /\ last = {} /\ held = {}
  BY DEF Init
<1>2. passed = <<>> => DOMAIN passed = {}
  OBVIOUS
<1> QED
  BY <1>1, <1>2 DEF Rule, Remembered, OnlyPassed, OnePostPerInterval, HeldForOne

\* One post per interval and frequency over all the receivers of a node, whose own
\* re-spots may come the slack early: the lists may change the interval at any
\* moment, between two spots of an upload too (Respot.allow, Readers.set).
THEOREM PostsApart == Spec => []OnePostPerInterval
<1>1. TypeOK /\ Rule /\ [Next]_vars => TypeOK' /\ Rule'
  BY TypeStep, RuleStep
<1>2. Rule => OnePostPerInterval
  BY DEF Rule
<1> QED
  BY <1>1, <1>2, TypeInit, RuleInit, PTL DEF Spec

\* What is held back is held back for a spot that was let through, never for one
\* that was held back itself.
THEOREM NoneHeldInVain == Spec => []HeldForOne
<1>1. TypeOK /\ Rule /\ [Next]_vars => TypeOK' /\ Rule'
  BY TypeStep, RuleStep
<1>2. Rule => HeldForOne
  BY DEF Rule
<1> QED
  BY <1>1, <1>2, TypeInit, RuleInit, PTL DEF Spec

-----------------------------------------------------------------------------
(* No backlog.                                                             *)

\* So are the times of the upload thread.
LEMMA Times ==
  ASSUME TypeOK
  PROVE  /\ now \in Nat /\ due \in Nat /\ UPLOAD_S \in Nat /\ HTTP_TIMEOUT_S \in Nat
         /\ \A s \in batch : s.at \in Nat
         /\ spots \in Seq(Spot) /\ \A s \in Spot : s.at \in Nat
  BY Numbers DEF TypeOK, Spot

\* Nothing waits at the start.
LEMMA PunctualInit == Init => Punctual
<1> SUFFICES ASSUME Init PROVE Punctual
  OBVIOUS
<1>1. now = 0 /\ due = UPLOAD_S /\ upload = "waits" /\ spots = <<>>
  BY DEF Init
<1>2. DOMAIN spots = {}
  BY <1>1
<1> QED
  BY <1>1, <1>2, Numbers DEF Punctual, SpottedSince

\* A spot is queued when it is read.
LEMMA SkimPunctual ==
  ASSUME TypeOK, Punctual, NEW r \in Receivers, NEW f \in Freqs, Skim(r, f)
  PROVE  Punctual'
<1> DEFINE spot == <<[rx |-> r, f |-> f, at |-> now]>>
           first == IF r \in readers THEN spot ELSE <<>>
           second == IF r \in lingering THEN spot ELSE <<>>
<1>1. UNCHANGED <<now, upload, due, batch>>
  BY DEF Skim, posting
<1>2. now \in 0..MaxTime
  BY DEF TypeOK
<1>3. first \in Seq(Spot) /\ second \in Seq(Spot)
  <2>1. spot \in Seq(Spot)
    BY <1>2 DEF Spot
  <2> QED
    BY <2>1
<1>4. (\A i \in DOMAIN first : first[i].at = now) /\ (\A i \in DOMAIN second : second[i].at = now)
  <2>1. \A i \in DOMAIN spot : spot[i].at = now
    OBVIOUS
  <2>2. DOMAIN <<>> = {}
    OBVIOUS
  <2> QED
    BY <2>1, <2>2
<1>5. spots' = (spots \o first) \o second
  BY DEF Skim
<1> HIDE DEF first, second
<1>6. spots \in Seq(Spot)
  BY Times
<1>7. spots \o first \in Seq(Spot)
  BY <1>3, <1>6
<1>8. \A i \in DOMAIN (spots \o first) :
        (spots \o first)[i].at = now \/ \E k \in DOMAIN spots : (spots \o first)[i] = spots[k]
  BY <1>3, <1>4, <1>6
<1>9. \A i \in DOMAIN spots' :
        spots'[i].at = now \/ \E k \in DOMAIN (spots \o first) : spots'[i] = (spots \o first)[k]
  <2> DEFINE front == spots \o first
  <2>1. front \in Seq(Spot) /\ spots' = front \o second
    BY <1>5, <1>7
  <2> HIDE DEF front
  <2>2. \A i \in DOMAIN spots' : spots'[i].at = now \/ \E k \in DOMAIN front : spots'[i] = front[k]
    BY <2>1, <1>3, <1>4
  <2> QED
    BY <2>2 DEF front
<1>10. \A i \in DOMAIN spots' : spots'[i].at = now \/ \E k \in DOMAIN spots : spots'[i] = spots[k]
  BY <1>8, <1>9
<1>11. ASSUME NEW t \in Int, t <= now, SpottedSince(t)
       PROVE  SpottedSince(t)'
  BY <1>1, <1>2, <1>10, <1>11 DEF SpottedSince
<1>12. CASE upload = "waits"
  BY <1>1, <1>11, <1>12, Times DEF Punctual
<1>13. CASE upload = "drains"
  BY <1>1, <1>11, <1>13, Times DEF Punctual, TakenSince
<1>14. CASE upload = "posts"
  BY <1>1, <1>11, <1>14, Times DEF Punctual, TakenSince
<1>15. CASE upload = "dead"
  BY <1>1, <1>15 DEF Punctual
<1> QED
  BY <1>12, <1>13, <1>14, <1>15 DEF TypeOK

\* A spot taken off the queue goes into the batch with the time it was read.
LEMMA TakesPunctual == ASSUME TypeOK, Punctual, Takes PROVE Punctual'
<1> DEFINE s == Head(spots)
           t == due - UPLOAD_S - HTTP_TIMEOUT_S
<1>1. upload = "drains" /\ spots # <<>> /\ spots' = Tail(spots) /\ UNCHANGED <<upload, now, due>>
      /\ (batch' = batch \/ batch' = batch \cup {s})
  BY DEF Takes, asRead
<1>2. now = due /\ SpottedSince(t) /\ TakenSince(t)
  BY <1>1 DEF Punctual
<1>3. s = spots[1] /\ 1 \in DOMAIN spots
  BY <1>1, Times
<1>4. TakenSince(t)'
  BY <1>1, <1>2, <1>3 DEF TakenSince, SpottedSince
<1>5. SpottedSince(t)'
  <2>1. \A i \in DOMAIN Tail(spots) : i + 1 \in DOMAIN spots /\ Tail(spots)[i] = spots[i + 1]
    BY <1>1, Times
  <2> QED
    BY <1>1, <1>2, <2>1 DEF SpottedSince
<1> QED
  BY <1>1, <1>2, <1>4, <1>5, Times DEF Punctual

\* The queue is empty, so what comes now was read since this drain.
LEMMA DrainedPunctual == ASSUME TypeOK, Punctual, Drained PROVE Punctual'
<1>1. now' = now /\ spots' = <<>> /\ now = due /\ TakenSince(due - UPLOAD_S - HTTP_TIMEOUT_S)
  BY DEF Drained, Unsigned, asRead, Punctual
<1>2. DOMAIN spots' = {}
  BY <1>1
<1>3. CASE upload' = "posts" /\ due' = now + HTTP_TIMEOUT_S /\ UNCHANGED batch
  <2>1. due' - UPLOAD_S - 2 * HTTP_TIMEOUT_S = due - UPLOAD_S - HTTP_TIMEOUT_S
    BY <1>1, <1>3, Times
  <2>2. due' - HTTP_TIMEOUT_S = now /\ now <= due'
    BY <1>1, <1>3, Times
  <2> QED
    BY <1>1, <1>2, <1>3, <2>1, <2>2, Times DEF Punctual, SpottedSince, TakenSince
<1>4. CASE upload' = "waits" /\ due' = now + UPLOAD_S
  BY <1>1, <1>2, <1>4, Times DEF Punctual, SpottedSince, TakenSince
<1> QED
  BY <1>3, <1>4 DEF Drained

\* A wait and a post end by their deadlines, with what was queued meanwhile.
LEMMA WaitPunctual == ASSUME TypeOK, Punctual, Wakes \/ Posted PROVE Punctual'
<1>1. CASE Wakes
  <2>1. upload = "waits" /\ batch = {} /\ now = due /\ upload' = "drains"
        /\ UNCHANGED <<now, due, spots, batch>>
    BY <1>1 DEF Wakes, asRead, TypeOK
  <2> QED
    BY <2>1, Times DEF Punctual, SpottedSince, TakenSince
<1>2. CASE Posted
  <2>1. upload = "posts" /\ upload' = "waits" /\ due' = now + UPLOAD_S /\ now <= due
        /\ UNCHANGED <<now, spots>> /\ SpottedSince(due - HTTP_TIMEOUT_S)
    BY <1>2 DEF Posted, asRead, Punctual
  <2>2. due' - UPLOAD_S - HTTP_TIMEOUT_S <= due - HTTP_TIMEOUT_S
    BY <2>1, Times
  <2>3. \A i \in DOMAIN spots : spots[i].at \in Nat
    BY Times
  <2> QED
    BY <2>1, <2>2, <2>3, Times DEF Punctual, SpottedSince
<1> QED
  BY <1>1, <1>2

\* Every step.
LEMMA PunctualStep == TypeOK /\ Punctual /\ [Next]_vars => Punctual'
<1> SUFFICES ASSUME TypeOK, Punctual, [Next]_vars PROVE Punctual'
  OBVIOUS
<1>1. ASSUME NEW r \in Receivers, NEW f \in Freqs, Skim(r, f) PROVE Punctual'
  BY <1>1, SkimPunctual
<1>2. ASSUME UNCHANGED <<now, due, upload, spots, batch>> PROVE Punctual'
  BY <1>2 DEF Punctual, SpottedSince, TakenSince
<1>3. ASSUME NEW names, NEW within, Set(names, within) PROVE Punctual'
  BY <1>2, <1>3 DEF Set
<1>4. CASE PostId \/ Marks \/ Exits \/ UNCHANGED vars
  BY <1>2, <1>4 DEF PostId, Marks, Exits, vars, listed, posting, outside
<1>5. CASE Dies \/ Asked
  BY <1>5 DEF Dies, Asked, LetGo, Punctual
<1>6. CASE Pass
  <2>1. now' = now + 1 /\ now < due /\ UNCHANGED <<due, upload, spots, batch>>
    BY <1>6 DEF Pass, posting
  <2> QED
    BY <2>1, Times DEF Punctual, SpottedSince, TakenSince
<1> QED
  BY <1>1, <1>3, <1>4, <1>5, <1>6, TakesPunctual, DrainedPunctual, WaitPunctual DEF Next

\* What is posted was read within the wait and the posts around it, however often
\* the sign-in failed meanwhile: upload_loop drops what it could not sign in for.
THEOREM NoBacklog == Spec => []FreshPosts
<1>1. TypeOK /\ Punctual /\ [Next]_vars => TypeOK' /\ Punctual'
  BY TypeStep, PunctualStep
<1>2. TypeOK /\ Punctual => FreshPosts
  <2> SUFFICES ASSUME TypeOK, Punctual, NEW s \in batch
               PROVE  now - s.at <= UPLOAD_S + 2 * HTTP_TIMEOUT_S
    BY DEF FreshPosts
  <2>1. upload \in {"drains", "posts"} /\ now <= due
    BY DEF TypeOK, Punctual
  <2>2. s.at >= due - UPLOAD_S - 2 * HTTP_TIMEOUT_S
    BY <2>1, Times DEF Punctual, TakenSince
  <2> QED
    BY <2>1, <2>2, Times
<1> QED
  BY <1>1, <1>2, TypeInit, PunctualInit, PTL DEF Spec

-----------------------------------------------------------------------------
(* The end of the process.                                                 *)

\* A thread that dies marks the failure before it asks for the shutdown, so that
\* the shutdown is never its own without the mark, and main's answer is right
\* whenever it looks.
MarkedFirst ==
  /\ shutdown \in {"no", "outside", "thread"}
  /\ shutdown = "thread" \/ dying \in {"failed", "over"} => failed
  /\ CleanExit

\* The start.
LEMMA Initially == Init => MarkedFirst
  BY DEF Init, MarkedFirst, CleanExit

\* A step that leaves the life of the process alone.
LEMMA LifeGoesOn ==
  ASSUME MarkedFirst, UNCHANGED life
  PROVE  MarkedFirst'
  BY DEF MarkedFirst, CleanExit, life

\* Every step keeps it.
LEMMA Step == MarkedFirst /\ [Next]_vars => MarkedFirst'
<1> SUFFICES ASSUME MarkedFirst, [Next]_vars PROVE MarkedFirst'
  OBVIOUS
<1>1. ASSUME NEW r \in Receivers, NEW f \in Freqs, Skim(r, f) PROVE MarkedFirst'
  BY <1>1, LifeGoesOn DEF Skim
<1>2. ASSUME NEW names, NEW within, Set(names, within) PROVE MarkedFirst'
  BY <1>2, LifeGoesOn DEF Set
<1>3. CASE Wakes \/ Takes \/ Drained \/ Posted \/ PostId \/ Pass
  BY <1>3, LifeGoesOn DEF Wakes, Takes, Drained, Posted, PostId, Pass
<1>4. CASE Dies
  <2>1. running /\ dying' = "died" /\ UNCHANGED <<failed, shutdown, exit>>
    BY <1>4 DEF Dies
  <2> QED
    BY <2>1 DEF MarkedFirst, CleanExit, running
<1>5. CASE Marks
  <2>1. exit = "no" /\ exit' = exit
    BY <1>5 DEF Marks
  <2>2. CASE dying = "died"
    <3>1. dying' = "failed" /\ failed' = TRUE /\ shutdown' = shutdown
      BY <1>5, <2>2 DEF Marks, Mark, SetFailed
    <3> QED
      BY <2>1, <3>1 DEF MarkedFirst, CleanExit
  <2>3. CASE dying = "failed"
    <3>1. dying' = "over" /\ failed' = failed
          /\ shutdown' = (IF shutdown = "no" THEN "thread" ELSE shutdown)
      BY <1>5, <2>3 DEF Marks, Mark, SetShutdown
    <3> QED
      BY <2>1, <2>3, <3>1 DEF MarkedFirst, CleanExit
  <2> QED
    BY <1>5, <2>2, <2>3 DEF Marks
<1>6. CASE Asked
  <2>1. shutdown' = "outside" /\ exit = "no" /\ UNCHANGED <<dying, failed, exit>>
    BY <1>6 DEF Asked
  <2> QED
    BY <2>1 DEF MarkedFirst, CleanExit
<1>7. CASE Exits
  <2>1. /\ shutdown # "no" /\ UNCHANGED <<dying, failed, shutdown>>
        /\ exit' = IF failed THEN "failed" ELSE "clean"
    BY <1>7 DEF Exits
  <2> QED
    BY <2>1 DEF MarkedFirst, CleanExit
<1>8. CASE UNCHANGED vars
  BY <1>8, LifeGoesOn DEF vars, life
<1> QED
  BY <1>1, <1>2, <1>3, <1>4, <1>5, <1>6, <1>7, <1>8 DEF Next

\* The feeder says it stopped cleanly only when it was asked to (worker, wait_for_stop).
THEOREM CleanOnlyWhenAsked == Spec => []CleanExit
<1>1. MarkedFirst => CleanExit
  BY DEF MarkedFirst
<1> QED
  BY <1>1, Initially, Step, PTL DEF Spec
=============================================================================
