--------------------------- MODULE SpotRuleProofs ---------------------------
(***************************************************************************)
(* Proofs about SpotRule for every value of its constants.  First what     *)
(* holds however the bins lie: types, the agreement of _seen with the      *)
(* copies, the distance of owners, the re-spot interval across stops,      *)
(* crashes and restarts, and that only a CQ makes an owner.  Then what     *)
(* holds on any grid of bins while no call is read in a chain of bins      *)
(* that reaches further than NEAR (InEarshot): one copy a transmission,    *)
(* the takeovers, the steady runner's spot, and the readings every spot    *)
(* rests on.                                                               *)
(***************************************************************************)
EXTENDS SpotRule, FiniteSetTheorems, FunctionTheorems, WellFoundedInduction, TLAPS

-----------------------------------------------------------------------------
(* Extremes of the sets the rule chooses from.                             *)

\* A nonempty set of naturals has a least element: of the segments 0..n of its
\* members, one has no proper subset among them.
LEMMA LeastNat ==
  ASSUME NEW S \in SUBSET Nat, S # {}
  PROVE  \E m \in S : \A n \in S : m <= n
<1> DEFINE T == {0..n : n \in S}
<1>1. T \subseteq FiniteSubsetsOf(Nat) /\ T # {}
  <2>1. ASSUME NEW n \in S
        PROVE  0..n \in FiniteSubsetsOf(Nat)
    <3>1. IsFiniteSet(0..n)
      BY FS_Interval
    <3>2. 0..n \in SUBSET Nat
      OBVIOUS
    <3> QED
      BY <3>1, <3>2 DEF FiniteSubsetsOf
  <2> QED
    BY <2>1
<1>2. PICK t \in T : \A u \in T : ~(<<u, t>> \in StrictSubsetOrdering(Nat))
  BY <1>1, FS_StrictSubsetOrderingWellFounded, WFMin
<1>3. PICK m \in S : t = 0..m
  OBVIOUS
<1>4. ASSUME NEW n \in S, n < m
      PROVE  FALSE
  <2>1. (0..n) \subseteq (0..m) /\ m \in 0..m /\ m \notin 0..n
    BY <1>4
  <2>2. 0..n \in T /\ 0..n \in SUBSET Nat /\ 0..m \in SUBSET Nat
    OBVIOUS
  <2> QED
    BY <1>2, <1>3, <2>1, <2>2 DEF StrictSubsetOrdering
<1> QED
  BY <1>4

\* A nonempty set of naturals with an upper bound has a greatest element.
LEMMA GreatestNat ==
  ASSUME NEW b \in Nat, NEW S \in SUBSET (0..b), S # {}
  PROVE  \E m \in S : \A n \in S : n <= m
<1> DEFINE T == {b - n : n \in S}
<1>1. PICK t \in T : \A u \in T : t <= u
  <2>1. ASSUME NEW n \in S
        PROVE  b - n \in Nat
    <3>1. n \in 0..b
      OBVIOUS
    <3> QED
      BY <3>1
  <2>2. T \in SUBSET Nat /\ T # {}
    BY <2>1
  <2> HIDE DEF T
  <2> QED
    BY <2>2, LeastNat
<1>2. PICK m \in S : t = b - m
  OBVIOUS
<1>3. \A n \in S : n \in 0..b /\ b - m <= b - n
  BY <1>1, <1>2
<1>4. \A n \in S : n <= m
  BY <1>3
<1> QED
  BY <1>4

\* First chooses a copy of the set it is given.
LEMMA FirstIn ==
  ASSUME NEW S \in SUBSET Copy, S # {}
  PROVE  First(S) \in S
<1>1. PICK w \in {c.window : c \in S} : \A v \in {c.window : c \in S} : w <= v
  <2>1. {c.window : c \in S} \in SUBSET Nat /\ {c.window : c \in S} # {}
    BY DEF Copy
  <2> QED
    BY <2>1, LeastNat
<1> DEFINE T == {c \in S : c.window = w}
<1>2. PICK n \in {c.nth : c \in T} : \A m \in {c.nth : c \in T} : n <= m
  <2>1. {c.nth : c \in T} \in SUBSET Nat /\ {c.nth : c \in T} # {}
    BY <1>1 DEF Copy
  <2> QED
    BY <2>1, LeastNat
<1>3. PICK c \in T : c.nth = n
  BY <1>2
<1>4. \A d \in S : c.window < d.window \/ (c.window = d.window /\ c.nth <= d.nth)
  <2> SUFFICES ASSUME NEW d \in S
               PROVE  c.window < d.window \/ (c.window = d.window /\ c.nth <= d.nth)
    OBVIOUS
  <2>1. c.window = w /\ w <= d.window /\ w \in Nat /\ d.window \in Nat
    BY <1>1, <1>3 DEF Copy
  <2>2. CASE d.window = w
    BY <2>1, <2>2, <1>2, <1>3
  <2>3. CASE d.window # w
    BY <2>1, <2>3
  <2> QED
    BY <2>2, <2>3
<1>5. QED
  BY <1>4, <1>3 DEF First

\* Best chooses a copy of the set it is given.
LEMMA BestIn ==
  ASSUME NEW S \in SUBSET Copy, S # {}, MaxSnr \in Nat
  PROVE  Best(S) \in S
<1>1. PICK m \in {c.snr : c \in S} : \A n \in {c.snr : c \in S} : n <= m
  <2>1. {c.snr : c \in S} \in SUBSET (0..MaxSnr) /\ {c.snr : c \in S} # {}
    BY DEF Copy, Snrs
  <2> QED
    BY <2>1, GreatestNat
<1> DEFINE T == {c \in S : \A d \in S : d.snr <= c.snr}
<1>2. T \in SUBSET Copy /\ T # {}
  BY <1>1
<1>3. First(T) \in T
  BY <1>2, FirstIn
<1>4. QED
  BY <1>3 DEF Best

-----------------------------------------------------------------------------
(* The readings: what a text may name, and the owners that follow.         *)

Reading == [window : Nat, freq : Freqs, text : Texts, snr : Snrs, time : Int]

Lockons == [owners : SUBSET Owner, calls : Seq(Calls)]

\* Every call a reading counts is a callsign, and every owner is well typed.
LEMMA CountsTyped ==
  ASSUME NEW lk \in Lockons, NEW rd \in Reading, NEW call \in Calls
  PROVE  Counts(lk, call) \in Lockons /\ CountsAndOwns(lk, rd, call) \in Lockons
<1>1. Append(lk.calls, call) \in Seq(Calls)
  BY DEF Lockons
<1>2. Own(lk.owners, call, rd.freq, rd.time) \in SUBSET Owner
  BY DEF Own, Owner, Lockons, Reading
<1>3. QED
  BY <1>1, <1>2 DEF Counts, CountsAndOwns, Lockons

\* What a CQ group names and owns is of its types.
LEMMA ReadGroupTyped ==
  ASSUME NEW lk \in Lockons, NEW rd \in Reading, NEW cs, NEW i \in Nat
  PROVE  ReadGroup(lk, rd, cs, i) \in Lockons
<1>1. CASE i \notin DOMAIN rd.text.groups
  BY <1>1 DEF ReadGroup
<1>2. CASE i \in DOMAIN rd.text.groups
  <2>1. rd.text.groups[i].call \in Calls
    <3>1. rd.text \in Texts
      BY DEF Reading
    <3>2. rd.text.groups[i].call \in rd.text.tokens /\ rd.text.tokens \subseteq Calls
      BY <1>2, <3>1, SpotRuleAssumption
    <3> QED
      BY <3>2
  <2> QED
    BY <1>2, <2>1, CountsTyped DEF ReadGroup
<1>3. QED
  BY <1>1, <1>2

\* So is what a sign-off names.
LEMMA ReadSignOffTyped ==
  ASSUME NEW lk \in Lockons, NEW rd \in Reading
  PROVE  ReadSignOff(lk, rd) \in Lockons
<1> DEFINE owner == OwnerOf(lk.owners, rd.freq, rd.time, LOCK_IDLE_S)
<1>1. rd.text.signs \subseteq Calls
  <2>1. rd.text \in Texts
    BY DEF Reading
  <2> QED
    BY <2>1, SpotRuleAssumption
<1>2. CASE owner \in rd.text.signs
  BY <1>1, <1>2, CountsTyped DEF ReadSignOff
<1>3. CASE owner \notin rd.text.signs
  BY <1>3 DEF ReadSignOff
<1>4. QED
  BY <1>2, <1>3

\* So is what the whole text does.
LEMMA LockonCallsTyped ==
  ASSUME NEW os \in SUBSET Owner, NEW rd \in Reading, NEW cs
  PROVE  LockonCalls(os, rd, cs) \in Lockons
<1>1. [owners |-> os, calls |-> <<>>] \in Lockons
  BY DEF Lockons
<1>2. QED
  BY <1>1, ReadGroupTyped, ReadSignOffTyped DEF LockonCalls

-----------------------------------------------------------------------------
(* Owners keep their distance.                                             *)

Apart(os) == \A o, p \in os : o # p => Abs(o.freq - p.freq) > CELL

\* _own takes the place of every owner within CELL, so owners stay apart.
LEMMA OwnApart ==
  ASSUME NEW os \in SUBSET Owner, Apart(os), NEW call \in Calls, NEW f \in Freqs, NEW t \in Int
  PROVE  Apart(Own(os, call, f, t))
<1> DEFINE new == [call |-> call, freq |-> f, last |-> t]
           left == {o \in os : Abs(o.freq - f) > CELL /\ t - o.last <= LOCK_IDLE_S}
<1>1. Own(os, call, f, t) = left \cup {new}
  BY DEF Own
<1>2. \A o \in left : Abs(o.freq - new.freq) > CELL /\ Abs(new.freq - o.freq) > CELL
  <2>1. \A o \in left : o.freq \in Nat /\ f \in Nat
    BY SpotRuleAssumption DEF Owner
  <2> QED
    BY <2>1 DEF Abs
<1>3. QED
  BY <1>1, <1>2 DEF Apart

\* So they do over one CQ group.
LEMMA ReadGroupApart ==
  ASSUME NEW lk \in Lockons, Apart(lk.owners), NEW rd \in Reading, NEW cs, NEW i \in Nat
  PROVE  Apart(ReadGroup(lk, rd, cs, i).owners)
<1>1. CASE i \notin DOMAIN rd.text.groups
  BY <1>1 DEF ReadGroup
<1>2. CASE i \in DOMAIN rd.text.groups
  <2> DEFINE call == rd.text.groups[i].call
  <2>1. call \in Calls
    <3>1. rd.text \in Texts
      BY DEF Reading
    <3>2. call \in rd.text.tokens /\ rd.text.tokens \subseteq Calls
      BY <1>2, <3>1, SpotRuleAssumption
    <3> QED
      BY <3>2
  <2>2. Apart(CountsAndOwns(lk, rd, call).owners)
    <3>1. Apart(Own(lk.owners, call, rd.freq, rd.time))
      BY <2>1, OwnApart DEF Lockons, Reading
    <3> QED
      BY <3>1 DEF CountsAndOwns
  <2>3. Counts(lk, call).owners = lk.owners
    BY DEF Counts, Lockons
  <2>4. ReadGroup(lk, rd, cs, i) \in {lk, Counts(lk, call), CountsAndOwns(lk, rd, call)}
    BY <1>2 DEF ReadGroup
  <2> HIDE DEF call
  <2> QED
    BY <2>2, <2>3, <2>4
<1>3. QED
  BY <1>1, <1>2

\* A sign-off names the owner of its frequency or nobody.
LEMMA ReadSignOffCases ==
  ASSUME NEW lk, NEW rd, NEW owner, owner = OwnerOf(lk.owners, rd.freq, rd.time, LOCK_IDLE_S)
  PROVE  \/ ReadSignOff(lk, rd) = lk
         \/ /\ owner \in rd.text.signs
            /\ ReadSignOff(lk, rd) = CountsAndOwns(lk, rd, owner)
BY DEF ReadSignOff

\* Owners stay apart over the whole text.
LEMMA LockonCallsApart ==
  ASSUME NEW os \in SUBSET Owner, Apart(os), NEW rd \in Reading, NEW cs
  PROVE  Apart(LockonCalls(os, rd, cs).owners)
<1> DEFINE lk0 == [owners |-> os, calls |-> <<>>]
           lk1 == ReadGroup(lk0, rd, cs, 1)
           lk2 == ReadGroup(lk1, rd, cs, 2)
           owner == OwnerOf(lk2.owners, rd.freq, rd.time, LOCK_IDLE_S)
<1>1. lk0 \in Lockons /\ Apart(lk0.owners)
  BY DEF Lockons
<1>2. lk1 \in Lockons /\ Apart(lk1.owners)
  BY <1>1, ReadGroupTyped, ReadGroupApart
<1>3. lk2 \in Lockons /\ Apart(lk2.owners)
  BY <1>2, ReadGroupTyped, ReadGroupApart
<1>4. \/ ReadSignOff(lk2, rd) = lk2
      \/ /\ ReadSignOff(lk2, rd) = CountsAndOwns(lk2, rd, owner)
         /\ owner \in Calls
  <2>1. rd.text \in Texts
    BY DEF Reading
  <2>2. rd.text.signs \subseteq Calls
    BY <2>1, SpotRuleAssumption
  <2>3. owner = OwnerOf(lk2.owners, rd.freq, rd.time, LOCK_IDLE_S)
    OBVIOUS
  <2> HIDE DEF lk2, owner
  <2> QED
    BY <2>2, <2>3, ReadSignOffCases
<1>5. ASSUME owner \in Calls
      PROVE  Apart(CountsAndOwns(lk2, rd, owner).owners)
  <2>1. Apart(Own(lk2.owners, owner, rd.freq, rd.time))
    BY <1>3, <1>5, OwnApart DEF Lockons, Reading
  <2> QED
    BY <2>1 DEF CountsAndOwns
<1>6. LockonCalls(os, rd, cs) = ReadSignOff(lk2, rd)
  BY DEF LockonCalls
<1> HIDE DEF lk2, owner
<1> QED
  BY <1>3, <1>4, <1>5, <1>6

-----------------------------------------------------------------------------
(* The loop over the calls of a reading.                                   *)

LoopState == [copies : SUBSET Copy, seen : SUBSET (Nat \X Calls \X Nat),
              lastSpot : [Keys -> Spot \cup {None}],
              out : SUBSET [call : Calls, freq : Freqs]]

CopyKey(c) == <<c.window, c.call, c.nth>>

\* SeenMatchesCopies, of any set of keys and of copies.
Agree(keys, cs) ==
  /\ keys = {CopyKey(c) : c \in cs}
  /\ \A c, d \in cs : CopyKey(c) = CopyKey(d) => c = d

\* Adding a copy changes nothing but the copies and their keys, and they agree.
LEMMA AddCopyEffect ==
  ASSUME NEW r \in LoopState, NEW rd \in Reading, NEW call \in Calls, NEW nth \in Nat,
         NEW wins, Agree(r.seen, r.copies)
  PROVE  LET q == AddCopy(r, rd, call, nth, wins)
         IN /\ q \in LoopState
            /\ Agree(q.seen, q.copies)
            /\ q.lastSpot = r.lastSpot /\ q.out = r.out
<1> DEFINE key == <<rd.window, call, nth>>
           same == SameAudio(r, rd, call, wins)
           c == First(same)
           moved == [c EXCEPT !.freq = rd.freq, !.snr = rd.snr]
           added == [time |-> rd.time, window |-> rd.window, call |-> call,
                     freq |-> rd.freq, snr |-> rd.snr, nth |-> nth]
           q1 == [r EXCEPT !.copies = (@ \ {c}) \cup {moved}]
           q2 == [r EXCEPT !.seen = @ \cup {key}, !.copies = @ \cup {added}]
<1>1. \/ AddCopy(r, rd, call, nth, wins) = r
      \/ AddCopy(r, rd, call, nth, wins) = q1 /\ same # {}
      \/ AddCopy(r, rd, call, nth, wins) = q2 /\ key \notin r.seen
  BY DEF AddCopy
<1>2. ASSUME same # {}
      PROVE  q1 \in LoopState /\ Agree(q1.seen, q1.copies) /\ q1.lastSpot = r.lastSpot /\ q1.out = r.out
  <2>1. same \in SUBSET r.copies /\ r.copies \in SUBSET Copy
    BY DEF SameAudio, CopiesOf, LoopState
  <2>2. c \in r.copies /\ c \in Copy
    <3>1. same \in SUBSET Copy
      BY <2>1
    <3> HIDE DEF same
    <3>2. c \in same
      BY <3>1, <1>2, FirstIn
    <3> QED
      BY <3>2, <2>1
  <2> HIDE DEF c, same
  <2>3. moved \in Copy /\ CopyKey(moved) = CopyKey(c)
    BY <2>2 DEF Copy, CopyKey, Reading
  <2>4. q1.copies = (r.copies \ {c}) \cup {moved} /\ q1.seen = r.seen /\ q1.lastSpot = r.lastSpot /\ q1.out = r.out
    BY DEF LoopState
  <2>5. q1 \in LoopState
    BY <2>1, <2>3 DEF LoopState
  <2> HIDE DEF moved, q1
  <2>6. {CopyKey(d) : d \in q1.copies} = {CopyKey(d) : d \in r.copies}
    BY <2>2, <2>3, <2>4
  <2>7. \A d, e \in q1.copies : CopyKey(d) = CopyKey(e) => d = e
    BY <2>2, <2>3, <2>4 DEF Agree
  <2> QED
    BY <2>4, <2>5, <2>6, <2>7 DEF Agree
<1>3. ASSUME key \notin r.seen
      PROVE  q2 \in LoopState /\ Agree(q2.seen, q2.copies) /\ q2.lastSpot = r.lastSpot /\ q2.out = r.out
  <2>1. added \in Copy /\ CopyKey(added) = key /\ key \in Nat \X Calls \X Nat
    BY DEF Copy, CopyKey, Reading
  <2>2. /\ q2.copies = r.copies \cup {added} /\ q2.seen = r.seen \cup {key}
        /\ q2.lastSpot = r.lastSpot /\ q2.out = r.out
    BY DEF LoopState
  <2>3. q2 \in LoopState
    BY <2>1 DEF LoopState
  <2> HIDE DEF added, q2, key
  <2> QED
    BY <1>3, <2>1, <2>2, <2>3 DEF Agree
<1> HIDE DEF q1, q2, key, same
<1>4. QED
  BY <1>1, <1>2, <1>3

\* What holds of the loop's record after the first i calls: the keys spotted are
\* those of calls among them, each was due against the table base the reading
\* began with, and every other entry of the table is still base's.
Progress(r, base, calls, i, t) ==
  /\ r \in LoopState /\ Agree(r.seen, r.copies)
  /\ \A s \in r.out :
       /\ <<s.call, Band(s.freq)>> \in Keys
       /\ \E j \in 1..i : j <= Len(calls) /\ calls[j] = s.call
       /\ LET last == base[<<s.call, Band(s.freq)>>]
          IN last # None => t - last.time >= RESPOT_S \/ Abs(s.freq - last.freq) >= MOVE
  /\ \A k \in Keys : \/ \E s \in r.out : k = <<s.call, Band(s.freq)>>
                     \/ r.lastSpot[k] = base[k]

\* A spot of call on f, and when the table lets it out.
SpotOf(r, t, call, f) ==
  [r EXCEPT !.lastSpot = [r.lastSpot EXCEPT ![<<call, Band(f)>>] = [time |-> t, freq |-> f]],
            !.out = r.out \cup {[call |-> call, freq |-> f]}]

Due(last, t, f) == last = None \/ t - last.time >= RESPOT_S \/ Abs(f - last.freq) >= MOVE

\* A decision leaves the record alone or spots the call, when it is due.
LEMMA DecideEffect ==
  ASSUME NEW r \in LoopState, NEW rd \in Reading, NEW call \in Calls, NEW owned
  PROVE  \/ Decide(r, rd, call, owned) = r
         \/ \E f \in Freqs :
              /\ <<call, Band(f)>> \in Keys
              /\ Due(r.lastSpot[<<call, Band(f)>>], rd.time, f)
              /\ Decide(r, rd, call, owned) = SpotOf(r, rd.time, call, f)
<1> DEFINE mine == CopiesOf(r.copies, call, rd.freq)
           f == Best(mine).freq
<1>1. CASE Cardinality(mine) < Tier[call]
  BY <1>1 DEF Decide
<1>2. CASE ~(Cardinality(mine) < Tier[call])
  <2>1. mine # {}
    <3>1. Tier[call] \in Nat \ {0}
      BY SpotRuleAssumption
    <3>2. mine = {} => Cardinality(mine) = 0
      BY FS_EmptySet
    <3> HIDE DEF mine
    <3> QED
      BY <1>2, <3>1, <3>2
  <2>2. f \in Freqs
    <3>1. mine \in SUBSET Copy
      BY DEF CopiesOf, LoopState
    <3> HIDE DEF mine
    <3>2. Best(mine) \in mine
      BY <2>1, <3>1, BestIn, SpotRuleAssumption
    <3> QED
      BY <3>1, <3>2 DEF Copy
  <2>3. <<call, Band(f)>> \in Keys
    BY <2>2 DEF Keys
  <2>4. \/ Decide(r, rd, call, owned) = r
        \/ /\ Due(r.lastSpot[<<call, Band(f)>>], rd.time, f)
           /\ Decide(r, rd, call, owned) = SpotOf(r, rd.time, call, f)
    BY DEF Decide, Due, SpotOf
  <2> HIDE DEF f
  <2> QED
    BY <2>2, <2>3, <2>4
<1> QED
  BY <1>1, <1>2

\* One more call keeps the record in order.
LEMMA CountCallProgress ==
  ASSUME NEW r, NEW base \in [Keys -> Spot \cup {None}], NEW calls \in Seq(Calls), NEW i \in Nat,
         NEW rd \in Reading, NEW owned, NEW wins, Progress(r, base, calls, i, rd.time)
  PROVE  Progress(CountCall(r, rd, calls, i + 1, owned, wins), base, calls, i + 1, rd.time)
<1> DEFINE q == CountCall(r, rd, calls, i + 1, owned, wins)
           call == calls[i + 1]
<1>1. CASE i + 1 > Len(calls) \/ \E j \in 1..i : calls[j] = call
  <2>1. q = r
    BY <1>1 DEF CountCall
  <2>2. 1..i \subseteq 1..(i + 1)
    OBVIOUS
  <2> QED
    BY <2>1, <2>2 DEF Progress
<1>2. CASE ~(i + 1 > Len(calls) \/ \E j \in 1..i : calls[j] = call)
  <2>1. call \in Calls /\ i + 1 \in 1..Len(calls)
    BY <1>2
  <2> DEFINE once == AddCopy(r, rd, call, 0, wins)
             added == IF \E j \in (i + 2)..Len(calls) : calls[j] = call
                      THEN AddCopy(once, rd, call, 1, wins) ELSE once
  <2>2. q = Decide(added, rd, call, owned)
    BY <1>2 DEF CountCall
  <2>3. /\ added \in LoopState /\ Agree(added.seen, added.copies)
        /\ added.lastSpot = r.lastSpot /\ added.out = r.out
    <3>1. /\ once \in LoopState /\ Agree(once.seen, once.copies)
          /\ once.lastSpot = r.lastSpot /\ once.out = r.out
      BY <2>1, AddCopyEffect DEF Progress
    <3> HIDE DEF once
    <3>2. LET p == AddCopy(once, rd, call, 1, wins)
          IN /\ p \in LoopState /\ Agree(p.seen, p.copies)
             /\ p.lastSpot = r.lastSpot /\ p.out = r.out
      BY <2>1, <3>1, AddCopyEffect
    <3> QED
      BY <3>1, <3>2
  <2> HIDE DEF added
  <2>4. Progress(added, base, calls, i, rd.time)
    BY <2>3 DEF Progress
  <2>5. CASE q = added
    <3>1. 1..i \subseteq 1..(i + 1)
      OBVIOUS
    <3> QED
      BY <2>4, <2>5, <3>1 DEF Progress
  <2>6. ASSUME NEW f \in Freqs,
               <<call, Band(f)>> \in Keys,
               Due(added.lastSpot[<<call, Band(f)>>], rd.time, f),
               q = SpotOf(added, rd.time, call, f)
        PROVE  Progress(q, base, calls, i + 1, rd.time)
    <3> DEFINE key == <<call, Band(f)>>
               new == [call |-> call, freq |-> f]
    <3>1. /\ q.out = added.out \cup {new}
          /\ q.lastSpot = [added.lastSpot EXCEPT ![key] = [time |-> rd.time, freq |-> f]]
          /\ q.copies = added.copies /\ q.seen = added.seen
      BY <2>3, <2>6 DEF LoopState, SpotOf
    <3>2. q \in LoopState
      <4>1. [time |-> rd.time, freq |-> f] \in Spot
        BY DEF Spot, Reading
      <4>2. [added.lastSpot EXCEPT ![key] = [time |-> rd.time, freq |-> f]] \in [Keys -> Spot \cup {None}]
        BY <2>3, <4>1 DEF LoopState
      <4>3. new \in [call : Calls, freq : Freqs]
        BY <2>1
      <4> HIDE DEF new, key
      <4>4. q = [added EXCEPT !.lastSpot = [added.lastSpot EXCEPT ![key] = [time |-> rd.time, freq |-> f]],
                              !.out = added.out \cup {new}]
        BY <2>3, <2>6 DEF SpotOf, key, new
      <4> HIDE DEF q
      <4> QED
        BY <2>3, <4>2, <4>3, <4>4 DEF LoopState
    <3>3. added.lastSpot[key] = base[key]
      BY <2>4, <2>6, <1>2 DEF Progress
    <3> HIDE DEF q
    <3>4. \A s \in q.out :
            /\ <<s.call, Band(s.freq)>> \in Keys
            /\ \E j \in 1..(i + 1) : j <= Len(calls) /\ calls[j] = s.call
            /\ LET last == base[<<s.call, Band(s.freq)>>]
               IN last # None => rd.time - last.time >= RESPOT_S \/ Abs(s.freq - last.freq) >= MOVE
      <4>1. CASE TRUE
        <5> SUFFICES ASSUME NEW s \in q.out
                     PROVE  /\ <<s.call, Band(s.freq)>> \in Keys
                            /\ \E j \in 1..(i + 1) : j <= Len(calls) /\ calls[j] = s.call
                            /\ LET last == base[<<s.call, Band(s.freq)>>]
                               IN last # None => rd.time - last.time >= RESPOT_S \/ Abs(s.freq - last.freq) >= MOVE
          OBVIOUS
        <5>1. CASE s \in added.out
          BY <2>4, <5>1 DEF Progress
        <5>2. CASE s = new
          BY <2>1, <2>6, <3>3, <5>2 DEF Due
        <5> QED
          BY <3>1, <5>1, <5>2
      <4> QED
        BY <4>1
    <3>5. \A k \in Keys : \/ \E s \in q.out : k = <<s.call, Band(s.freq)>>
                          \/ q.lastSpot[k] = base[k]
      <4> SUFFICES ASSUME NEW k \in Keys
                   PROVE  \/ \E s \in q.out : k = <<s.call, Band(s.freq)>>
                          \/ q.lastSpot[k] = base[k]
        OBVIOUS
      <4>1. CASE k = key
        <5>1. new \in q.out /\ key = <<new.call, Band(new.freq)>>
          BY <3>1
        <5> HIDE DEF new
        <5> QED
          BY <4>1, <5>1
      <4>2. CASE k # key
        <5>1. q.lastSpot[k] = added.lastSpot[k]
          BY <2>3, <3>1, <4>2 DEF LoopState
        <5> QED
          BY <2>4, <3>1, <5>1 DEF Progress
      <4> QED
        BY <4>1, <4>2
    <3> QED
      BY <2>3, <3>1, <3>2, <3>4, <3>5 DEF Progress
  <2>7. CASE q # added
    <3> HIDE DEF call, q
    <3>1. PICK f \in Freqs : /\ <<call, Band(f)>> \in Keys
                             /\ Due(added.lastSpot[<<call, Band(f)>>], rd.time, f)
                             /\ Decide(added, rd, call, owned) = SpotOf(added, rd.time, call, f)
      BY <2>1, <2>2, <2>3, <2>7, DecideEffect
    <3>2. Progress(q, base, calls, i + 1, rd.time)
      BY <2>2, <2>6, <3>1
    <3> QED
      BY <3>2 DEF q
  <2> QED
    BY <2>5, <2>7
<1>3. QED
  BY <1>1, <1>2

-----------------------------------------------------------------------------
(* The steps.                                                              *)

\* Expiring copies takes their keys, and no others, out of _seen.
LEMMA FreshAgrees ==
  ASSUME TypeOK, SeenMatchesCopies
  PROVE  Agree(FreshSeen, FreshCopies)
<1>1. \A c, d \in copies : CopyKey(c) = CopyKey(d) => c = d
  BY DEF SeenMatchesCopies, CopyKey
<1>2. seen = {CopyKey(c) : c \in copies}
  BY DEF SeenMatchesCopies, CopyKey
<1>3. FreshCopies \subseteq copies
  BY DEF FreshCopies
<1>4. FreshSeen = seen \ {CopyKey(c) : c \in copies \ FreshCopies}
  BY DEF FreshSeen, CopyKey
<1> HIDE DEF FreshCopies
<1>5. FreshSeen = {CopyKey(c) : c \in FreshCopies}
  BY <1>1, <1>2, <1>3, <1>4
<1>6. QED
  BY <1>1, <1>3, <1>5 DEF Agree

\* Pruning keeps an entry of the re-spot table or drops it for its age.
LEMMA FreshSpotsKeep ==
  ASSUME TypeOK
  PROVE  /\ FreshSpots \in [Keys -> Spot \cup {None}]
         /\ \A k \in Keys : \/ FreshSpots[k] = lastSpot[k]
                            \/ /\ FreshSpots[k] = None /\ lastSpot[k] # None
                               /\ now - lastSpot[k].time >= REPEAT_S
<1>1. \A k \in Keys : lastSpot[k] \in Spot \cup {None}
  BY DEF TypeOK
<1>2. REPEAT_S \in Nat /\ now \in Nat
  BY SpotRuleAssumption DEF TypeOK
<1>3. \A k \in Keys : lastSpot[k] # None => lastSpot[k].time \in Int
  BY <1>1 DEF Spot
<1>4. FreshSpots \in [Keys -> Spot \cup {None}]
  BY <1>1 DEF FreshSpots, TypeOK
<1>5. ASSUME NEW k \in Keys, FreshSpots[k] # lastSpot[k]
      PROVE  /\ FreshSpots[k] = None /\ lastSpot[k] # None
             /\ now - lastSpot[k].time >= REPEAT_S
  <2>1. FreshSpots[k] = None /\ lastSpot[k] # None /\ lastSpot[k].time < now - REPEAT_S
    BY <1>5 DEF FreshSpots
  <2> QED
    BY <2>1, <1>2, <1>3
<1>6. QED
  BY <1>4, <1>5

\* What a feed does, in terms of the record its loop ends with.
FeedEffect(r) ==
  /\ copies' = r.copies /\ seen' = r.seen /\ lastSpot' = r.lastSpot /\ out' = r.out
  /\ spotted' = [k \in Keys |-> IF \E s \in r.out : k = <<s.call, Band(s.freq)>>
                                THEN r.lastSpot[k] ELSE spotted[k]]
  /\ UNCHANGED <<running, now, memory>>

\* A feed ends with a record in order, typed owners that are apart, and a
\* window table that is typed.
LEMMA FeedRecord ==
  ASSUME TypeOK, SeenMatchesCopies, OwnersApart,
         NEW f \in Freqs, NEW text \in Texts, NEW snr \in Snrs, Feed(f, text, snr)
  PROVE  /\ running
         /\ \E r, calls : Progress(r, FreshSpots, calls, 3, now) /\ FeedEffect(r)
         /\ owners' \in SUBSET Owner /\ Apart(owners')
         /\ windows' \in SUBSET Window /\ nextWindow' \in Nat /\ pruned' \in Int
<1> DEFINE rd(w) == [window |-> w, freq |-> f, text |-> text, snr |-> snr, time |-> now]
           wins(w) == Fresh(windows \cup (IF w = nextWindow THEN {[id |-> w, bin |-> f, first |-> now]}
                                          ELSE {}))
           owned == IF TWO_WINDOWS THEN OwnerOf(owners, f, now, TAKEOVER_IDLE_S) ELSE None
           lk(w) == LockonCalls(owners, rd(w), FreshCopies)
           r0 == [copies |-> FreshCopies, seen |-> FreshSeen, lastSpot |-> FreshSpots, out |-> {}]
           r1(w) == CountCall(r0, rd(w), lk(w).calls, 1, owned, wins(w))
           r2(w) == CountCall(r1(w), rd(w), lk(w).calls, 2, owned, wins(w))
           r3(w) == CountCall(r2(w), rd(w), lk(w).calls, 3, owned, wins(w))
<1>1. PICK w \in WindowIds(f) :
        /\ FeedEffect(r3(w))
        /\ owners' = lk(w).owners /\ windows' = wins(w)
        /\ nextWindow' = IF w = nextWindow THEN w + 1 ELSE nextWindow
        /\ pruned' = IF now - pruned >= PRUNE_S THEN now ELSE pruned
  BY DEF Feed, FeedEffect
<1>2. w \in Nat
  BY DEF WindowIds, TypeOK, Window
<1>3. rd(w) \in Reading
  BY <1>2 DEF Reading, TypeOK
<1>4. owners \in SUBSET Owner /\ Apart(owners)
  BY DEF TypeOK, OwnersApart, Apart
<1>5. lk(w) \in Lockons /\ Apart(lk(w).owners)
  BY <1>3, <1>4, LockonCallsTyped, LockonCallsApart
<1>6. lk(w).calls \in Seq(Calls)
  BY <1>5 DEF Lockons
<1>7. Progress(r0, FreshSpots, lk(w).calls, 0, now)
  <2>1. Agree(FreshSeen, FreshCopies)
    BY FreshAgrees
  <2>2. r0 \in LoopState
    <3>1. FreshCopies \in SUBSET Copy /\ FreshSeen \in SUBSET (Nat \X Calls \X Nat)
      BY DEF FreshCopies, FreshSeen, TypeOK
    <3> QED
      BY <3>1, FreshSpotsKeep DEF LoopState
  <2> QED
    BY <2>1, <2>2 DEF Progress
<1>8. Progress(r3(w), FreshSpots, lk(w).calls, 3, now)
  <2>1. FreshSpots \in [Keys -> Spot \cup {None}] /\ rd(w).time = now
    BY FreshSpotsKeep
  <2> DEFINE W == wins(w)
             C == lk(w).calls
             R == rd(w)
             R0 == r0
             O == owned
  <2>2. C \in Seq(Calls) /\ R \in Reading /\ R.time = now /\ Progress(R0, FreshSpots, C, 0, R.time)
    BY <1>3, <1>6, <1>7
  <2> HIDE DEF W, C, R, R0, O
  <2>3. Progress(CountCall(R0, R, C, 1, O, W), FreshSpots, C, 1, R.time)
    <3>1. Progress(CountCall(R0, R, C, 0 + 1, O, W), FreshSpots, C, 0 + 1, R.time)
      BY <2>1, <2>2, CountCallProgress
    <3> QED
      BY <3>1
  <2> DEFINE R1 == CountCall(R0, R, C, 1, O, W)
  <2> HIDE DEF R1
  <2>4. Progress(CountCall(R1, R, C, 2, O, W), FreshSpots, C, 2, R.time)
    <3>1. Progress(R1, FreshSpots, C, 1, R.time)
      BY <2>3 DEF R1
    <3>2. Progress(CountCall(R1, R, C, 1 + 1, O, W), FreshSpots, C, 1 + 1, R.time)
      BY <2>1, <2>2, <3>1, CountCallProgress
    <3> QED
      BY <3>2
  <2> DEFINE R2 == CountCall(R1, R, C, 2, O, W)
  <2> HIDE DEF R2
  <2>5. Progress(CountCall(R2, R, C, 3, O, W), FreshSpots, C, 3, R.time)
    <3>1. Progress(R2, FreshSpots, C, 2, R.time)
      BY <2>4 DEF R2
    <3>2. Progress(CountCall(R2, R, C, 2 + 1, O, W), FreshSpots, C, 2 + 1, R.time)
      BY <2>1, <2>2, <3>1, CountCallProgress
    <3> QED
      BY <3>2
  <2> QED
    BY <2>2, <2>5 DEF R0, R1, R2, R, C, W, O
<1>9. windows' \in SUBSET Window
  BY <1>1, <1>2 DEF TypeOK, Window, Fresh
<1>10. nextWindow' \in Nat /\ pruned' \in Int
  BY <1>1, <1>2 DEF TypeOK
<1> HIDE DEF r3, lk, wins
<1>11. QED
  BY <1>1, <1>5, <1>8, <1>9, <1>10 DEF Feed, Lockons

-----------------------------------------------------------------------------
(* The inductive invariant.  The re-spot interval is about two observers of *)
(* the table; it is inductive only together with the table's agreement with *)
(* them (SpotsRemembered), and the copies need their keys to stay typed.    *)

IInv ==
  /\ TypeOK
  /\ SeenMatchesCopies
  /\ OwnersApart
  /\ SpotsRemembered

\* The table starts empty, or with what a file may hold.
LEMMA InitInv == Init => IInv
<1> SUFFICES ASSUME Init PROVE IInv
  OBVIOUS
<1>1. TypeOK
  BY SpotRuleAssumption DEF Init, TypeOK, NoSpots
<1>2. SeenMatchesCopies /\ OwnersApart
  BY DEF Init, SeenMatchesCopies, OwnersApart
<1>3. SpotsRemembered
  BY DEF Init, SpotsRemembered, Remembers, NoSpots
<1> QED
  BY <1>1, <1>2, <1>3 DEF IInv

\* A feed preserves the invariant, and obeys the re-spot interval.
LEMMA FeedInv ==
  ASSUME IInv, NEW f \in Freqs, NEW text \in Texts, NEW snr \in Snrs, Feed(f, text, snr)
  PROVE  IInv'
<1>1. PICK r, calls : Progress(r, FreshSpots, calls, 3, now) /\ FeedEffect(r)
  BY FeedRecord DEF IInv
<1>2. /\ running /\ owners' \in SUBSET Owner /\ Apart(owners')
      /\ windows' \in SUBSET Window /\ nextWindow' \in Nat /\ pruned' \in Int
  BY FeedRecord DEF IInv
<1>3. r \in LoopState /\ Agree(r.seen, r.copies)
  BY <1>1 DEF Progress
<1>4. TypeOK'
  <2>1. \A k \in Keys : spotted[k] \in Spot \cup {None} /\ r.lastSpot[k] \in Spot \cup {None}
    BY <1>3 DEF LoopState, IInv, TypeOK
  <2>2. spotted' \in [Keys -> Spot \cup {None}]
    BY <1>1, <2>1 DEF FeedEffect
  <2>3. /\ copies' \in SUBSET Copy /\ seen' \in SUBSET (Nat \X Calls \X Nat)
        /\ lastSpot' \in [Keys -> Spot \cup {None}]
    BY <1>1, <1>3 DEF FeedEffect, LoopState
  <2>4. running' \in BOOLEAN /\ now' \in Nat /\ memory' \in [Keys -> Spot \cup {None}]
    BY <1>1 DEF FeedEffect, IInv, TypeOK
  <2> QED
    BY <1>2, <2>2, <2>3, <2>4 DEF TypeOK
<1>5. SeenMatchesCopies'
  BY <1>1, <1>3 DEF FeedEffect, Agree, SeenMatchesCopies, CopyKey
<1>6. OwnersApart'
  BY <1>2 DEF OwnersApart, Apart
<1>7. SpotsRemembered'
  <2>1. running' = running /\ now' = now /\ lastSpot' = r.lastSpot
    BY <1>1 DEF FeedEffect
  <2> SUFFICES ASSUME NEW k \in Keys, spotted'[k] # None
               PROVE  \/ r.lastSpot[k] = spotted'[k]
                      \/ r.lastSpot[k] = None /\ now - spotted'[k].time >= REPEAT_S
    BY <1>2, <2>1 DEF SpotsRemembered, Remembers
  <2>2. CASE \E s \in r.out : k = <<s.call, Band(s.freq)>>
    BY <1>1, <2>2 DEF FeedEffect
  <2>3. CASE ~ \E s \in r.out : k = <<s.call, Band(s.freq)>>
    <3>1. spotted'[k] = spotted[k] /\ r.lastSpot[k] = FreshSpots[k]
      BY <1>1, <2>3 DEF FeedEffect, Progress
    <3>2. lastSpot[k] = spotted[k] \/ (lastSpot[k] = None /\ now - spotted[k].time >= REPEAT_S)
      BY <1>2, <3>1 DEF IInv, SpotsRemembered, Remembers
    <3>3. \/ FreshSpots[k] = lastSpot[k]
          \/ /\ FreshSpots[k] = None /\ lastSpot[k] # None
             /\ now - lastSpot[k].time >= REPEAT_S
      BY FreshSpotsKeep DEF IInv
    <3> QED
      BY <3>1, <3>2, <3>3
  <2> QED
    BY <2>2, <2>3
<1> QED
  BY <1>4, <1>5, <1>6, <1>7 DEF IInv

\* The process going down takes every table with it but the file.
LEMMA DownInv ==
  ASSUME IInv, Down, memory' \in [Keys -> Spot \cup {None}],
         spotted' \in [Keys -> Spot \cup {None}],
         \A k \in Keys : spotted'[k] # None =>
            \/ memory'[k] = spotted'[k]
            \/ memory'[k] = None /\ now - spotted'[k].time >= REPEAT_S
  PROVE  IInv'
<1>1. TypeOK'
  <2>1. lastSpot' \in [Keys -> Spot \cup {None}]
    BY DEF Down, NoSpots
  <2>2. pruned' \in Int
    <3>1. PRUNE_S \in Nat
      BY SpotRuleAssumption
    <3> QED
      BY <3>1 DEF Down
  <2> QED
    BY <2>1, <2>2 DEF Down, IInv, TypeOK
<1>2. SeenMatchesCopies' /\ OwnersApart'
  BY DEF Down, SeenMatchesCopies, OwnersApart
<1>3. SpotsRemembered'
  BY DEF Down, SpotsRemembered, Remembers
<1> QED
  BY <1>1, <1>2, <1>3 DEF IInv

\* Every step preserves the invariant.
LEMMA NextInv == IInv /\ [Next]_vars => IInv'
<1> SUFFICES ASSUME IInv, [Next]_vars
             PROVE  IInv'
  OBVIOUS
<1>1. CASE Decode
  BY <1>1, FeedInv DEF Decode
<1>2. CASE Tick
  <2>1. TypeOK' /\ SeenMatchesCopies' /\ OwnersApart'
    BY <1>2 DEF Tick, rule, IInv, TypeOK, SeenMatchesCopies, OwnersApart
  <2>2. SpotsRemembered'
    <3>1. \A k \in Keys : spotted[k] # None => spotted[k].time \in Int
      BY DEF IInv, TypeOK, Spot
    <3>2. now \in Nat /\ now' = now + 1 /\ REPEAT_S \in Nat
      BY <1>2, SpotRuleAssumption DEF Tick, IInv, TypeOK
    <3>3. /\ running' = running /\ lastSpot' = lastSpot /\ memory' = memory /\ spotted' = spotted
      BY <1>2 DEF Tick, rule
    <3>4. \A k \in Keys : spotted[k] # None /\ now - spotted[k].time >= REPEAT_S
                            => now' - spotted[k].time >= REPEAT_S
      BY <3>1, <3>2
    <3> QED
      BY <3>3, <3>4 DEF IInv, SpotsRemembered, Remembers
  <2> QED
    BY <2>1, <2>2 DEF IInv
<1>3. CASE Save
  <2>1. TypeOK' /\ SeenMatchesCopies' /\ OwnersApart'
    BY <1>3 DEF Save, rule, IInv, TypeOK, SeenMatchesCopies, OwnersApart
  <2>2. SpotsRemembered'
    BY <1>3 DEF Save, rule, IInv, SpotsRemembered, Remembers
  <2> QED
    BY <2>1, <2>2 DEF IInv
<1>4. CASE Stop
  <2>1. \A k \in Keys : spotted'[k] # None =>
            \/ memory'[k] = spotted'[k]
            \/ memory'[k] = None /\ now - spotted'[k].time >= REPEAT_S
    BY <1>4 DEF Stop, IInv, SpotsRemembered, Remembers
  <2> QED
    BY <1>4, <2>1, DownInv DEF Stop, IInv, TypeOK
<1>5. CASE Crash
  BY <1>5, DownInv DEF Crash, IInv, TypeOK
<1>6. CASE Start
  <2> DEFINE kept == [k \in Keys |-> IF memory[k] # None /\ now - memory[k].time < RESPOT_S
                                     THEN memory[k] ELSE None]
  <2>1. /\ ~running /\ running' = TRUE /\ lastSpot' = kept
        /\ UNCHANGED <<now, copies, seen, owners, windows, nextWindow, pruned, memory, heard, spotted>>
    BY <1>6 DEF Start
  <2>2. kept \in [Keys -> Spot \cup {None}]
    BY DEF IInv, TypeOK
  <2>3. TypeOK' /\ SeenMatchesCopies' /\ OwnersApart'
    BY <2>1, <2>2 DEF IInv, TypeOK, SeenMatchesCopies, OwnersApart
  <2>4. ASSUME NEW k \in Keys, spotted[k] # None
        PROVE  \/ kept[k] = spotted[k]
               \/ kept[k] = None /\ now - spotted[k].time >= REPEAT_S
    <3>1. \/ memory[k] = spotted[k]
          \/ memory[k] = None /\ now - spotted[k].time >= REPEAT_S
      BY <2>1, <2>4 DEF IInv, SpotsRemembered, Remembers
    <3>2. spotted[k].time \in Int /\ now \in Nat
      BY <2>4 DEF IInv, TypeOK, Spot
    <3>3. REPEAT_S \in Nat /\ RESPOT_S \in Nat /\ REPEAT_S <= RESPOT_S
      BY SpotRuleAssumption
    <3> QED
      BY <3>1, <3>2, <3>3
  <2>5. SpotsRemembered'
    BY <2>1, <2>4 DEF SpotsRemembered, Remembers
  <2> QED
    BY <2>3, <2>5 DEF IInv
<1>7. CASE UNCHANGED vars
  <2>1. TypeOK' /\ SeenMatchesCopies' /\ OwnersApart'
    BY <1>7 DEF vars, rule, IInv, TypeOK, SeenMatchesCopies, OwnersApart
  <2>2. SpotsRemembered'
    BY <1>7 DEF vars, rule, IInv, SpotsRemembered, Remembers
  <2> QED
    BY <2>1, <2>2 DEF IInv
<1> QED
  BY <1>1, <1>2, <1>3, <1>4, <1>5, <1>6, <1>7 DEF Next

-----------------------------------------------------------------------------
(* The table and the owners: the first theorems.                           *)

\* Every reachable state satisfies the inductive invariant.
THEOREM Invariance == Spec => []IInv
<1>1. QED
  BY InitInv, NextInv, PTL DEF Spec

\* Feeding, saving, stopping, crashing and starting keep every table of the rule
\* in its type.
THEOREM TypeCorrect == Spec => []TypeOK
<1>1. IInv => TypeOK
  BY DEF IInv
<1>2. QED
  BY <1>1, Invariance, PTL

\* feed's _seen and _copies, and _expire, which removes from both, never disagree.
THEOREM SeenAgrees == Spec => []SeenMatchesCopies
<1>1. IInv => SeenMatchesCopies
  BY DEF IInv
<1>2. QED
  BY <1>1, Invariance, PTL

\* _own never leaves two owners in one cell, however many calls take a frequency.
THEOREM OwnersKeepApart == Spec => []OwnersApart
<1>1. IInv => OwnersApart
  BY DEF IInv
<1>2. QED
  BY <1>1, Invariance, PTL

\* The table, or the file of a process that is down, still holds every spot that
\* must hold back the next one.
THEOREM TableRemembers == Spec => []SpotsRemembered
<1>1. IInv => SpotsRemembered
  BY DEF IInv
<1>2. QED
  BY <1>1, Invariance, PTL

\* A step that spots a call finds its last spot REPEAT_S old or the call moved.
LEMMA SpotStep ==
  ASSUME IInv, Next, NEW s \in out', spotted[<<s.call, Band(s.freq)>>] # None
  PROVE  LET last == spotted[<<s.call, Band(s.freq)>>]
         IN now - last.time >= REPEAT_S \/ Abs(s.freq - last.freq) >= MOVE
<1> DEFINE k == <<s.call, Band(s.freq)>>
<1>1. CASE Decode
  <2>1. PICK r, calls : Progress(r, FreshSpots, calls, 3, now) /\ FeedEffect(r)
    BY <1>1, FeedRecord DEF Decode, IInv
  <2>2. running
    BY <1>1, FeedRecord DEF Decode, IInv
  <2>3. /\ k \in Keys
        /\ FreshSpots[k] # None => \/ now - FreshSpots[k].time >= RESPOT_S
                                   \/ Abs(s.freq - FreshSpots[k].freq) >= MOVE
    BY <2>1 DEF Progress, FeedEffect
  <2>4. lastSpot[k] = spotted[k] \/ (lastSpot[k] = None /\ now - spotted[k].time >= REPEAT_S)
    BY <2>2, <2>3 DEF IInv, SpotsRemembered, Remembers
  <2>5. \/ FreshSpots[k] = lastSpot[k]
        \/ /\ FreshSpots[k] = None /\ lastSpot[k] # None
           /\ now - lastSpot[k].time >= REPEAT_S
    BY <2>3, FreshSpotsKeep DEF IInv
  <2>6. REPEAT_S <= RESPOT_S /\ REPEAT_S \in Nat /\ RESPOT_S \in Nat
    BY SpotRuleAssumption
  <2>7. spotted[k].time \in Int /\ now \in Int
    BY <2>3 DEF IInv, TypeOK, Spot
  <2>8. spotted[k] # None
    OBVIOUS
  <2> HIDE DEF k
  <2>9. now - spotted[k].time >= REPEAT_S \/ Abs(s.freq - spotted[k].freq) >= MOVE
    BY <2>3, <2>4, <2>5, <2>6, <2>7, <2>8
  <2> QED
    BY <2>9 DEF k
<1>2. CASE Tick \/ Save \/ Stop \/ Crash \/ Start
  BY <1>2 DEF Tick, Save, Stop, Crash, Start, Down
<1> QED
  BY <1>1, <1>2 DEF Next

\* No call is spotted on a band within REPEAT_S of its last spot unless it moved,
\* through any sequence of feeds, prunings, saves, stops, crashes and starts.
THEOREM RespotsKeepInterval == Spec => RespotInterval
<1>1. IInv /\ [Next]_vars =>
        [\A s \in out' :
           LET last == spotted[<<s.call, Band(s.freq)>>]
           IN last # None => now - last.time >= REPEAT_S \/ Abs(s.freq - last.freq) >= MOVE]_vars
  BY SpotStep
<1>2. QED
  BY <1>1, Invariance, PTL DEF Spec, RespotInterval

-----------------------------------------------------------------------------
(* Who owns a frequency, by what text, and what a feed is.                 *)

\* A nonempty set of live owners has a nearest one, which owner() gives.
LEMMA OwnerIs ==
  ASSUME NEW os \in SUBSET Owner, NEW f \in Freqs, NEW t \in Int, NEW idle \in Nat,
         LiveOwners(os, f, t, idle) # {}
  PROVE  \E o \in LiveOwners(os, f, t, idle) :
           /\ OwnerOf(os, f, t, idle) = o.call
           /\ \A p \in LiveOwners(os, f, t, idle) :
                \/ Abs(o.freq - f) < Abs(p.freq - f)
                \/ Abs(o.freq - f) = Abs(p.freq - f) /\ o.last <= p.last
<1> DEFINE live == LiveOwners(os, f, t, idle)
           far(o) == Abs(o.freq - f)
           nearest(o) == \A p \in live : far(o) < far(p) \/ (far(o) = far(p) /\ o.last <= p.last)
<1>1. \A o \in live : /\ o \in os /\ o \in Owner /\ o.freq \in Nat /\ o.last \in Int
                      /\ far(o) \in Nat /\ t - o.last <= idle
  <2>1. Freqs \subseteq Nat
    BY SpotRuleAssumption
  <2>2. \A o \in live : o \in os /\ o \in Owner /\ t - o.last <= idle
    BY DEF LiveOwners
  <2>3. \A o \in live : o.freq \in Nat /\ o.last \in Int
    BY <2>1, <2>2 DEF Owner
  <2>4. \A o \in live : far(o) \in Nat
    BY <2>1, <2>3 DEF Abs
  <2> QED
    BY <2>2, <2>3, <2>4
<1> HIDE DEF live, far
<1>2. PICK m \in {far(o) : o \in live} : \A n \in {far(o) : o \in live} : m <= n
  <2>1. {far(o) : o \in live} \in SUBSET Nat /\ {far(o) : o \in live} # {}
    BY <1>1 DEF live
  <2> QED
    BY <2>1, LeastNat
<1> DEFINE T == {o \in live : far(o) = m}
           since(o) == o.last - (t - idle)
<1>3. PICK k \in {since(o) : o \in T} : \A n \in {since(o) : o \in T} : k <= n
  <2>1. {since(o) : o \in T} \in SUBSET Nat /\ {since(o) : o \in T} # {}
    BY <1>1, <1>2
  <2> HIDE DEF since, T
  <2> QED
    BY <2>1, LeastNat
<1>4. PICK o \in T : since(o) = k
  BY <1>3
<1>5. nearest(o)
  <2> SUFFICES ASSUME NEW p \in live PROVE far(o) < far(p) \/ (far(o) = far(p) /\ o.last <= p.last)
    OBVIOUS
  <2>1. far(o) = m /\ m <= far(p) /\ far(o) \in Nat /\ far(p) \in Nat
    BY <1>1, <1>2
  <2>2. CASE far(p) = m
    <3>1. p \in T /\ k <= since(p)
      BY <1>3, <2>2
    <3>2. since(o) <= since(p) /\ o.last \in Int /\ p.last \in Int
      BY <1>1, <1>4, <3>1
    <3>3. o.last <= p.last
      BY <3>2
    <3> QED
      BY <2>1, <2>2, <3>3
  <2> QED
    BY <2>1, <2>2
<1>6. OwnerOf(os, f, t, idle) = (CHOOSE p \in live : nearest(p)).call
  BY DEF OwnerOf, live, far
<1> HIDE DEF nearest
<1> DEFINE chosen == CHOOSE p \in live : nearest(p)
<1>7. chosen \in live /\ nearest(chosen)
  BY <1>5
<1> HIDE DEF chosen
<1>8. OwnerOf(os, f, t, idle) = chosen.call
  BY <1>6 DEF chosen
<1> QED
  BY <1>7, <1>8 DEF nearest, live, far

\* An owner is one of those held, and live.
LEMMA OwnerHeld ==
  ASSUME NEW os \in SUBSET Owner, NEW f \in Freqs, NEW t \in Int, NEW idle \in Nat,
         OwnerOf(os, f, t, idle) # None
  PROVE  \E o \in os : o.call = OwnerOf(os, f, t, idle)
<1>1. LiveOwners(os, f, t, idle) # {}
  <2> SUFFICES ASSUME LiveOwners(os, f, t, idle) = {} PROVE FALSE
    OBVIOUS
  <2>1. OwnerOf(os, f, t, idle) = None
    BY Zenon DEF OwnerOf
  <2> QED
    BY <2>1
<1>2. PICK o \in LiveOwners(os, f, t, idle) : OwnerOf(os, f, t, idle) = o.call
  BY <1>1, OwnerIs
<1> QED
  BY <1>2 DEF LiveOwners

\* A call of a group is a callsign.
LEMMA GroupCall ==
  ASSUME NEW rd \in Reading, NEW i \in DOMAIN rd.text.groups
  PROVE  rd.text.groups[i].call \in Calls
<1>1. rd.text \in Texts
  BY DEF Reading
<1> QED
  BY <1>1, SpotRuleAssumption

\* A group that counts appends its call, and may give it the frequency.
LEMMA GroupReads ==
  ASSUME NEW lk \in Lockons, NEW rd, NEW cs, NEW i
  PROVE  \/ ReadGroup(lk, rd, cs, i) = lk
         \/ /\ i \in DOMAIN rd.text.groups
            /\ ReadGroup(lk, rd, cs, i).calls = Append(lk.calls, rd.text.groups[i].call)
            /\ ReadGroup(lk, rd, cs, i).owners \in
                 {lk.owners, Own(lk.owners, rd.text.groups[i].call, rd.freq, rd.time)}
<1> DEFINE call == rd.text.groups[i].call
<1>1. Counts(lk, call).calls = Append(lk.calls, call) /\ Counts(lk, call).owners = lk.owners
  BY DEF Counts, Lockons
<1>2. CountsAndOwns(lk, rd, call).calls = Append(lk.calls, call)
      /\ CountsAndOwns(lk, rd, call).owners = Own(lk.owners, call, rd.freq, rd.time)
  BY DEF CountsAndOwns
<1>3. ReadGroup(lk, rd, cs, i) # lk =>
        /\ i \in DOMAIN rd.text.groups
        /\ ReadGroup(lk, rd, cs, i) \in {Counts(lk, call), CountsAndOwns(lk, rd, call)}
  BY DEF ReadGroup
<1> QED
  BY <1>1, <1>2, <1>3

\* A sign-off that counts is the owner's, and renews him.
LEMMA SignOffReads ==
  ASSUME NEW lk, NEW rd, NEW owner, owner = OwnerOf(lk.owners, rd.freq, rd.time, LOCK_IDLE_S)
  PROVE  \/ ReadSignOff(lk, rd) = lk
         \/ /\ owner \in rd.text.signs
            /\ ReadSignOff(lk, rd).calls = Append(lk.calls, owner)
            /\ ReadSignOff(lk, rd).owners = Own(lk.owners, owner, rd.freq, rd.time)
BY DEF ReadSignOff, CountsAndOwns

\* Every owner owned before, or is counted by a CQ group of the reading.
ByCq(lk, os, rd) ==
  \A o \in lk.owners :
    \/ \E p \in os : p.call = o.call
    \/ \E j \in 1..Len(lk.calls) : \E g \in DOMAIN rd.text.groups :
         lk.calls[j] = o.call /\ rd.text.groups[g].call = o.call

\* Each group a text is read for keeps the owners those of before or of its groups.
LEMMA ReadGroupByCq ==
  ASSUME NEW lk \in Lockons, NEW os, NEW rd \in Reading, NEW cs, NEW i, ByCq(lk, os, rd)
  PROVE  ByCq(ReadGroup(lk, rd, cs, i), os, rd)
<1> DEFINE q == ReadGroup(lk, rd, cs, i)
           call == rd.text.groups[i].call
<1>1. CASE q = lk
  BY <1>1
<1>2. CASE i \in DOMAIN rd.text.groups /\ q.calls = Append(lk.calls, call)
           /\ q.owners \in {lk.owners, Own(lk.owners, call, rd.freq, rd.time)}
  <2>1. call \in Calls /\ lk.calls \in Seq(Calls)
    BY <1>2, GroupCall DEF Lockons
  <2> DEFINE n == Len(lk.calls)
  <2>2. n \in Nat /\ Len(q.calls) = n + 1 /\ q.calls[n + 1] = call /\ \A j \in 1..n : q.calls[j] = lk.calls[j]
    BY <1>2, <2>1
  <2>3. \A o \in q.owners : o \in lk.owners \/ o.call = call
    BY <1>2 DEF Own
  <2> HIDE DEF n, q, call
  <2>4. n + 1 \in 1..n + 1 /\ \A j \in 1..n : j \in 1..n + 1
    BY <2>2
  <2> SUFFICES ASSUME NEW o \in q.owners
               PROVE  \/ \E p \in os : p.call = o.call
                      \/ \E j \in 1..Len(q.calls) : \E g \in DOMAIN rd.text.groups :
                           q.calls[j] = o.call /\ rd.text.groups[g].call = o.call
    BY DEF ByCq, q
  <2>5. CASE o \in lk.owners
    BY <2>2, <2>4, <2>5 DEF ByCq, n
  <2>6. CASE o.call = call
    BY <1>2, <2>2, <2>4, <2>6 DEF call
  <2> QED
    BY <2>3, <2>5, <2>6
<1> QED
  BY <1>1, <1>2, GroupReads

\* The reading as a whole keeps them so too: a sign-off renews an owner and makes none.
LEMMA LockonByCq ==
  ASSUME NEW os \in SUBSET Owner, NEW rd \in Reading, NEW cs
  PROVE  ByCq(LockonCalls(os, rd, cs), os, rd)
<1> DEFINE lk0 == [owners |-> os, calls |-> <<>>]
           lk1 == ReadGroup(lk0, rd, cs, 1)
           lk2 == ReadGroup(lk1, rd, cs, 2)
           owner == OwnerOf(lk2.owners, rd.freq, rd.time, LOCK_IDLE_S)
           q == ReadSignOff(lk2, rd)
<1>1. lk0 \in Lockons /\ ByCq(lk0, os, rd)
  BY DEF Lockons, ByCq
<1>2. lk1 \in Lockons /\ ByCq(lk1, os, rd)
  BY <1>1, ReadGroupTyped, ReadGroupByCq
<1>3. lk2 \in Lockons /\ ByCq(lk2, os, rd)
  BY <1>2, ReadGroupTyped, ReadGroupByCq
<1>4. LockonCalls(os, rd, cs) = q
  BY DEF LockonCalls
<1>5. \/ q = lk2
      \/ /\ owner \in rd.text.signs /\ q.calls = Append(lk2.calls, owner)
         /\ q.owners = Own(lk2.owners, owner, rd.freq, rd.time)
  BY SignOffReads
<1> HIDE DEF lk2, q
<1>6. CASE q = lk2
  BY <1>3, <1>4, <1>6
<1>7. CASE owner \in rd.text.signs /\ q.calls = Append(lk2.calls, owner)
           /\ q.owners = Own(lk2.owners, owner, rd.freq, rd.time)
  <2>1. rd.text.signs \subseteq Calls /\ None \notin Calls
    <3>1. rd.text \in Texts
      BY DEF Reading
    <3> QED
      BY <3>1, SpotRuleAssumption
  <2>2. lk2.calls \in Seq(Calls) /\ lk2.owners \in SUBSET Owner /\ owner \in Calls /\ owner # None
    BY <1>3, <1>7, <2>1 DEF Lockons
  <2>3. PICK p \in lk2.owners : p.call = owner
    <3>1. rd.freq \in Freqs /\ rd.time \in Int /\ LOCK_IDLE_S \in Nat
      BY SpotRuleAssumption DEF Reading
    <3> QED
      BY <2>2, <3>1, OwnerHeld
  <2> DEFINE n == Len(lk2.calls)
  <2>4. n \in Nat /\ Len(q.calls) = n + 1 /\ \A j \in 1..n : q.calls[j] = lk2.calls[j]
    BY <1>7, <2>2
  <2>5. \A o \in q.owners : o \in lk2.owners \/ o.call = p.call
    BY <1>7, <2>3 DEF Own
  <2> HIDE DEF n, owner
  <2>6. \A j \in 1..n : j \in 1..n + 1
    BY <2>4
  <2> SUFFICES ASSUME NEW o \in q.owners
               PROVE  \/ \E r \in os : r.call = o.call
                      \/ \E j \in 1..Len(q.calls) : \E g \in DOMAIN rd.text.groups :
                           q.calls[j] = o.call /\ rd.text.groups[g].call = o.call
    BY <1>4 DEF ByCq
  <2>7. PICK r \in lk2.owners : r.call = o.call
    BY <2>3, <2>5
  <2> QED
    BY <1>3, <2>4, <2>6, <2>7 DEF ByCq, n
<1> QED
  BY <1>5, <1>6, <1>7

\* A feed, in terms of its reading, of the window it has, and of what they give.
WindowsWith(w, f) ==
  Fresh(windows \cup (IF w = nextWindow THEN {[id |-> w, bin |-> f, first |-> now]} ELSE {}))

OwnedAt(f) == IF TWO_WINDOWS THEN OwnerOf(owners, f, now, TAKEOVER_IDLE_S) ELSE None

LoopStart == [copies |-> FreshCopies, seen |-> FreshSeen, lastSpot |-> FreshSpots, out |-> {}]

Loop(rd, calls, owned, wins) ==
  CountCall(CountCall(CountCall(LoopStart, rd, calls, 1, owned, wins), rd, calls, 2, owned, wins),
            rd, calls, 3, owned, wins)

HeardOf(calls, rd) ==
  {[call |-> calls[i], window |-> rd.window, bin |-> rd.freq, time |-> rd.time,
    nth |-> Cardinality({j \in 1..(i - 1) : calls[j] = calls[i]}),
    byCq |-> \E g \in DOMAIN rd.text.groups : rd.text.groups[g].call = calls[i]] : i \in DOMAIN calls}

FeedOf(f, w, rd, lk, r) ==
  /\ w \in WindowIds(f) /\ w \in Nat
  /\ rd \in Reading /\ rd.window = w /\ rd.freq = f /\ rd.time = now
  /\ lk = LockonCalls(owners, rd, FreshCopies) /\ lk \in Lockons
  /\ r = Loop(rd, lk.calls, OwnedAt(f), WindowsWith(w, f))
  /\ FeedEffect(r)
  /\ owners' = lk.owners /\ windows' = WindowsWith(w, f)
  /\ nextWindow' = (IF w = nextWindow THEN w + 1 ELSE nextWindow)
  /\ heard' = heard \cup HeardOf(lk.calls, rd)

\* Every feed is one of a reading in its window.
LEMMA FeedIs ==
  ASSUME TypeOK, NEW f \in Freqs, NEW text \in Texts, NEW snr \in Snrs, Feed(f, text, snr)
  PROVE  running /\ \E w, rd, lk, r : FeedOf(f, w, rd, lk, r)
<1> DEFINE rd(w) == [window |-> w, freq |-> f, text |-> text, snr |-> snr, time |-> now]
           wins(w) == Fresh(windows \cup (IF w = nextWindow THEN {[id |-> w, bin |-> f, first |-> now]}
                                          ELSE {}))
           owned == IF TWO_WINDOWS THEN OwnerOf(owners, f, now, TAKEOVER_IDLE_S) ELSE None
           lk(w) == LockonCalls(owners, rd(w), FreshCopies)
           r0 == [copies |-> FreshCopies, seen |-> FreshSeen, lastSpot |-> FreshSpots, out |-> {}]
           r1(w) == CountCall(r0, rd(w), lk(w).calls, 1, owned, wins(w))
           r2(w) == CountCall(r1(w), rd(w), lk(w).calls, 2, owned, wins(w))
           r3(w) == CountCall(r2(w), rd(w), lk(w).calls, 3, owned, wins(w))
           said(w) == {[call |-> lk(w).calls[i], window |-> w, bin |-> f, time |-> now,
                        nth |-> Cardinality({j \in 1..(i - 1) : lk(w).calls[j] = lk(w).calls[i]}),
                        byCq |-> \E g \in DOMAIN text.groups : text.groups[g].call = lk(w).calls[i]]
                         : i \in DOMAIN lk(w).calls}
<1>1. PICK w \in WindowIds(f) :
        /\ FeedEffect(r3(w))
        /\ owners' = lk(w).owners /\ windows' = wins(w)
        /\ nextWindow' = (IF w = nextWindow THEN w + 1 ELSE nextWindow)
        /\ heard' = heard \cup said(w)
  BY ZenonT(60) DEF Feed, FeedEffect
<1>2. w \in Nat
  BY DEF WindowIds, TypeOK, Window
<1>3. rd(w) \in Reading /\ rd(w).window = w /\ rd(w).freq = f /\ rd(w).time = now /\ rd(w).text = text
  BY <1>2 DEF Reading, TypeOK
<1>4. lk(w) \in Lockons
  <2>1. owners \in SUBSET Owner
    BY DEF TypeOK
  <2> QED
    BY <1>3, <2>1, LockonCallsTyped
<1>5. r3(w) = Loop(rd(w), lk(w).calls, OwnedAt(f), WindowsWith(w, f)) /\ wins(w) = WindowsWith(w, f)
  BY Zenon DEF Loop, LoopStart, OwnedAt, WindowsWith
<1>6. said(w) = HeardOf(lk(w).calls, rd(w))
  <2> DEFINE z == lk(w).calls
  <2> HIDE DEF lk
  <2> QED
    BY DEF HeardOf
<1>7. lk(w) = LockonCalls(owners, rd(w), FreshCopies)
  OBVIOUS
<1> HIDE DEF rd, lk, r3, wins, said
<1>8. FeedOf(f, w, rd(w), lk(w), r3(w))
  BY <1>1, <1>2, <1>3, <1>4, <1>5, <1>6, <1>7 DEF FeedOf
<1> QED
  BY <1>8 DEF Feed

\* The sign-offs of a caller cannot make him an owner.
THEOREM OwnersCalled == Spec => []OwnerCalledCq
<1>1. Init => OwnerCalledCq
  BY DEF Init, OwnerCalledCq
<1>2. IInv /\ OwnerCalledCq /\ [Next]_vars => OwnerCalledCq'
  <2> SUFFICES ASSUME IInv, OwnerCalledCq, [Next]_vars PROVE OwnerCalledCq'
    OBVIOUS
  <2>1. ASSUME NEW f \in Freqs, NEW text \in Texts, NEW snr \in Snrs, Feed(f, text, snr)
        PROVE  OwnerCalledCq'
    <3>1. PICK w, rd, lk, r : FeedOf(f, w, rd, lk, r)
      BY <2>1, FeedIs DEF IInv
    <3>2. /\ rd \in Reading /\ lk \in Lockons /\ lk = LockonCalls(owners, rd, FreshCopies)
          /\ owners' = lk.owners /\ heard' = heard \cup HeardOf(lk.calls, rd)
      BY <3>1 DEF FeedOf
    <3>3. ByCq(lk, owners, rd)
      <4>1. owners \in SUBSET Owner
        BY DEF IInv, TypeOK
      <4> QED
        BY <3>2, <4>1, LockonByCq
    <3> SUFFICES ASSUME NEW o \in owners' PROVE \E h \in heard' : h.call = o.call /\ h.byCq
      BY DEF OwnerCalledCq
    <3>4. CASE \E p \in owners : p.call = o.call
      BY <3>2, <3>4 DEF OwnerCalledCq
    <3>5. ASSUME NEW j \in 1..Len(lk.calls), NEW g \in DOMAIN rd.text.groups,
                 lk.calls[j] = o.call, rd.text.groups[g].call = o.call
          PROVE  \E h \in heard' : h.call = o.call /\ h.byCq
      <4> DEFINE h == [call |-> lk.calls[j], window |-> rd.window, bin |-> rd.freq, time |-> rd.time,
                       nth |-> Cardinality({i \in 1..(j - 1) : lk.calls[i] = lk.calls[j]}),
                       byCq |-> \E i \in DOMAIN rd.text.groups : rd.text.groups[i].call = lk.calls[j]]
      <4>1. j \in DOMAIN lk.calls
        BY <3>2 DEF Lockons
      <4>2. h \in HeardOf(lk.calls, rd)
        BY <4>1 DEF HeardOf
      <4>3. h.call = o.call /\ h.byCq
        BY <3>5
      <4> HIDE DEF h
      <4> QED
        BY <3>2, <4>2, <4>3
    <3> QED
      BY <3>2, <3>3, <3>4, <3>5 DEF ByCq
  <2>2. CASE Decode
    BY <2>1, <2>2 DEF Decode
  <2>3. CASE Tick \/ Save \/ Start \/ UNCHANGED vars
    <3>1. UNCHANGED <<owners, heard>>
      BY <2>3 DEF Tick, Save, Start, vars, rule
    <3> QED
      BY <3>1 DEF OwnerCalledCq
  <2>4. CASE Stop \/ Crash
    BY <2>4 DEF Stop, Crash, Down, OwnerCalledCq
  <2> QED
    BY <2>2, <2>3, <2>4 DEF Next
<1> QED
  BY <1>1, <1>2, InitInv, NextInv, PTL DEF Spec

-----------------------------------------------------------------------------
(* Decisions and copies.                                                   *)

\* Of two bins, either hears the other or neither does.
LEMMA NearSymmetric ==
  ASSUME NEW f \in Freqs, NEW g \in Freqs, Near(f, g)
  PROVE  Near(g, f)
<1>1. f \in Nat /\ g \in Nat
  BY SpotRuleAssumption
<1> QED
  BY <1>1 DEF Near, Abs

\* A decision leaves the copies and their keys as they are.
LEMMA DecideKeeps ==
  ASSUME NEW r \in LoopState, NEW rd \in Reading, NEW call \in Calls, NEW owned
  PROVE  LET q == Decide(r, rd, call, owned)
         IN q.copies = r.copies /\ q.seen = r.seen /\ q \in LoopState
<1> DEFINE q == Decide(r, rd, call, owned)
<1>1. CASE q = r
  BY <1>1
<1>2. ASSUME NEW f \in Freqs, <<call, Band(f)>> \in Keys, q = SpotOf(r, rd.time, call, f)
      PROVE  q.copies = r.copies /\ q.seen = r.seen /\ q \in LoopState
  <2> DEFINE table == [r.lastSpot EXCEPT ![<<call, Band(f)>>] = [time |-> rd.time, freq |-> f]]
             spots == r.out \cup {[call |-> call, freq |-> f]}
  <2>1. [time |-> rd.time, freq |-> f] \in Spot
    BY DEF Spot, Reading
  <2>2. table \in [Keys -> Spot \cup {None}]
    BY <2>1 DEF LoopState
  <2>3. spots \in SUBSET [call : Calls, freq : Freqs]
    BY DEF LoopState
  <2>4. q = [r EXCEPT !.lastSpot = table, !.out = spots]
    BY <1>2 DEF SpotOf
  <2> HIDE DEF table, spots, q
  <2> QED
    BY <2>2, <2>3, <2>4 DEF LoopState
<1> HIDE DEF q
<1>3. \/ q = r
      \/ \E f \in Freqs : <<call, Band(f)>> \in Keys /\ q = SpotOf(r, rd.time, call, f)
  BY DecideEffect DEF q
<1> QED
  BY <1>1, <1>2, <1>3 DEF q

\* What adding a copy may do to the copies: nothing, move the one another bin
\* took of the same transmission, or add one that no other bin took.
Adds(qs, cs, same, rd, call, nth) ==
  \/ qs = cs
  \/ \E c \in same : \E moved \in Copy :
       /\ moved = [c EXCEPT !.freq = rd.freq, !.snr = rd.snr]
       /\ qs = (cs \ {c}) \cup {moved}
  \/ \E added \in Copy :
       /\ same = {} /\ qs = cs \cup {added}
       /\ added = [time |-> rd.time, window |-> rd.window, call |-> call,
                   freq |-> rd.freq, snr |-> rd.snr, nth |-> nth]

\* AddCopy changes nothing, moves a copy of the same audio, or adds one of its own.
LEMMA AddCopyCases ==
  ASSUME NEW r \in LoopState, NEW rd \in Reading, NEW call \in Calls, NEW nth \in Nat, NEW wins
  PROVE  Adds(AddCopy(r, rd, call, nth, wins).copies, r.copies,
              SameAudio(r, rd, call, wins), rd, call, nth)
<1> DEFINE q == AddCopy(r, rd, call, nth, wins)
           key == <<rd.window, call, nth>>
           same == SameAudio(r, rd, call, wins)
           c == First(same)
           moved == [c EXCEPT !.freq = rd.freq, !.snr = rd.snr]
           added == [time |-> rd.time, window |-> rd.window, call |-> call,
                     freq |-> rd.freq, snr |-> rd.snr, nth |-> nth]
           q1 == [r EXCEPT !.copies = (@ \ {c}) \cup {moved}]
           q2 == [r EXCEPT !.seen = @ \cup {key}, !.copies = @ \cup {added}]
<1>1. same \in SUBSET Copy
  BY DEF SameAudio, CopiesOf, LoopState
<1>2. same # {} => c \in same
  <2> HIDE DEF same
  <2> QED
    BY <1>1, FirstIn
<1>3. q = r \/ (q = q1 /\ same # {}) \/ (q = q2 /\ same = {})
  <2>1. same # {} => c.snr \in Int /\ rd.snr \in Int
    <3> HIDE DEF c
    <3>1. MaxSnr \in Nat
      BY SpotRuleAssumption
    <3> QED
      BY <1>1, <1>2, <3>1 DEF Copy, Snrs, Reading
  <2>2. same # {} => (rd.snr > c.snr \/ rd.snr <= c.snr)
    <3> HIDE DEF c, same
    <3> QED
      BY <2>1
  <2> QED
    BY <2>2 DEF AddCopy
<1>4. q1.copies = (r.copies \ {c}) \cup {moved} /\ q2.copies = r.copies \cup {added}
  BY DEF LoopState
<1>5. same # {} => moved \in Copy
  <2> HIDE DEF c
  <2> QED
    BY <1>1, <1>2 DEF Copy, Reading
<1>6. added \in Copy
  BY DEF Copy, Reading
<1> HIDE DEF q, q1, q2, same, c, added, key
<1>7. CASE q = r
  BY <1>7 DEF q, Adds
<1>8. CASE q = q1 /\ same # {}
  BY <1>2, <1>4, <1>5, <1>8 DEF q, same, Adds
<1>9. CASE q = q2 /\ same = {}
  BY <1>4, <1>6, <1>9 DEF q, same, added, Adds
<1> QED
  BY <1>3, <1>7, <1>8, <1>9

\* The copies of the i-th call: one for each of its first two groups.
Added(r, rd, calls, i, wins) ==
  LET once == AddCopy(r, rd, calls[i], 0, wins)
  IN IF \E j \in (i + 1)..Len(calls) : calls[j] = calls[i]
     THEN AddCopy(once, rd, calls[i], 1, wins) ELSE once

\* A call of the loop: nothing, or one or two copies of it and a decision.
LEMMA CountCallIs ==
  ASSUME NEW r, NEW rd, NEW calls \in Seq(Calls), NEW i \in Nat \ {0}, NEW owned, NEW wins
  PROVE  \/ CountCall(r, rd, calls, i, owned, wins) = r
         \/ /\ i \in 1..Len(calls) /\ calls[i] \in Calls
            /\ \A j \in 1..(i - 1) : calls[j] # calls[i]
            /\ CountCall(r, rd, calls, i, owned, wins)
                 = Decide(Added(r, rd, calls, i, wins), rd, calls[i], owned)
<1>1. CASE i > Len(calls) \/ \E j \in 1..(i - 1) : calls[j] = calls[i]
  BY <1>1 DEF CountCall
<1>2. CASE ~(i > Len(calls) \/ \E j \in 1..(i - 1) : calls[j] = calls[i])
  <2>1. Len(calls) \in Nat /\ i \in 1..Len(calls)
    BY <1>2
  <2>2. calls[i] \in Calls
    BY <2>1
  <2> QED
    BY <1>2, <2>1, <2>2 DEF CountCall, Added
<1> QED
  BY <1>1, <1>2

-----------------------------------------------------------------------------
(* What is read, and where.                                                *)

HeardReading == [call : Calls, window : Nat, bin : Freqs, time : Int, nth : Nat, byCq : BOOLEAN]

\* A bin hears itself.
LEMMA NearSelf ==
  ASSUME NEW f \in Freqs
  PROVE  Near(f, f)
<1>1. f \in Nat /\ NEAR \in Nat
  BY SpotRuleAssumption
<1> QED
  BY <1>1 DEF Near, Abs

\* What a reading is heard to say is typed, and there is little of it.
LEMMA HeardTyped ==
  ASSUME NEW rd \in Reading, NEW calls \in Seq(Calls)
  PROVE  HeardOf(calls, rd) \subseteq HeardReading /\ IsFiniteSet(HeardOf(calls, rd))
<1> DEFINE said(i) == [call |-> calls[i], window |-> rd.window, bin |-> rd.freq, time |-> rd.time,
                       nth |-> Cardinality({j \in 1..(i - 1) : calls[j] = calls[i]}),
                       byCq |-> \E g \in DOMAIN rd.text.groups : rd.text.groups[g].call = calls[i]]
<1>1. DOMAIN calls = 1..Len(calls) /\ Len(calls) \in Nat
  OBVIOUS
<1>2. \A i \in DOMAIN calls : said(i) \in HeardReading
  <2> SUFFICES ASSUME NEW i \in DOMAIN calls PROVE said(i) \in HeardReading
    OBVIOUS
  <2> DEFINE before == {j \in 1..(i - 1) : calls[j] = calls[i]}
             byCq == \E g \in DOMAIN rd.text.groups : rd.text.groups[g].call = calls[i]
  <2>1. IsFiniteSet(1..(i - 1))
    <3>1. i - 1 \in Int /\ 1 \in Int
      BY <1>1
    <3> QED
      BY <3>1, FS_Interval
  <2>2. IsFiniteSet(before)
    <3>1. before \subseteq 1..(i - 1)
      OBVIOUS
    <3> HIDE DEF before
    <3> QED
      BY <2>1, <3>1, FS_Subset
  <2>3. Cardinality(before) \in Nat
    BY <2>2, FS_CardinalityType
  <2>4. calls[i] \in Calls /\ byCq \in BOOLEAN
    BY <1>1
  <2>5. said(i) = [call |-> calls[i], window |-> rd.window, bin |-> rd.freq, time |-> rd.time,
                   nth |-> Cardinality(before), byCq |-> byCq]
    OBVIOUS
  <2> HIDE DEF before, byCq, said
  <2> QED
    BY <2>3, <2>4, <2>5 DEF HeardReading, Reading
<1>3. HeardOf(calls, rd) = {said(i) : i \in 1..Len(calls)}
  BY <1>1 DEF HeardOf
<1>4. IsFiniteSet({said(i) : i \in 1..Len(calls)})
  <2>1. IsFiniteSet(1..Len(calls))
    BY <1>1, FS_Interval
  <2> DEFINE S == 1..Len(calls)
             said2 == [i \in S |-> said(i)]
  <2> HIDE DEF said, S
  <2>2. IsFiniteSet({said2[i] : i \in S})
    <3>1. said2 \in Surjection(S, {said2[i] : i \in S})
      BY DEF Surjection
    <3> HIDE DEF said2
    <3> QED
      BY <2>1, <3>1, FS_Surjection DEF S
  <2>3. {said2[i] : i \in S} = {said(i) : i \in S}
    OBVIOUS
  <2> QED
    BY <2>2, <2>3 DEF S
<1> HIDE DEF said
<1> QED
  BY <1>1, <1>2, <1>3, <1>4

\* All that is heard of a reading is heard in its window, by its bin, at its time.
LEMMA HeardAt ==
  ASSUME NEW rd, NEW calls, NEW h \in HeardOf(calls, rd)
  PROVE  /\ h.window = rd.window /\ h.bin = rd.freq /\ h.time = rd.time
         /\ \E i \in DOMAIN calls : h.call = calls[i]
<1>1. PICK i \in DOMAIN calls :
        h = [call |-> calls[i], window |-> rd.window, bin |-> rd.freq, time |-> rd.time,
             nth |-> Cardinality({j \in 1..(i - 1) : calls[j] = calls[i]}),
             byCq |-> \E g \in DOMAIN rd.text.groups : rd.text.groups[g].call = calls[i]]
  BY DEF HeardOf
<1> QED
  BY <1>1

\* Every call a reading counts is heard.
LEMMA CallsHeard ==
  ASSUME NEW rd \in Reading, NEW calls \in Seq(Calls), NEW i \in 1..Len(calls)
  PROVE  \E h \in HeardOf(calls, rd) : /\ h.call = calls[i] /\ h.window = rd.window
                                       /\ h.bin = rd.freq /\ h.time = rd.time
<1> DEFINE said == [call |-> calls[i], window |-> rd.window, bin |-> rd.freq, time |-> rd.time,
                    nth |-> Cardinality({j \in 1..(i - 1) : calls[j] = calls[i]}),
                    byCq |-> \E g \in DOMAIN rd.text.groups : rd.text.groups[g].call = calls[i]]
<1>1. i \in DOMAIN calls
  OBVIOUS
<1>2. said \in HeardOf(calls, rd)
  BY <1>1 DEF HeardOf
<1>3. said.call = calls[i] /\ said.window = rd.window /\ said.bin = rd.freq /\ said.time = rd.time
  OBVIOUS
<1> HIDE DEF said
<1> QED
  BY <1>2, <1>3

\* The first two groups of a call are readings of it, numbered 0 and 1.
LEMMA GroupsHeard ==
  ASSUME NEW rd \in Reading, NEW calls \in Seq(Calls), NEW i \in 1..Len(calls),
         \A j \in 1..(i - 1) : calls[j] # calls[i]
  PROVE  /\ \E h \in HeardOf(calls, rd) :
              /\ h.call = calls[i] /\ h.window = rd.window /\ h.nth = 0
              /\ h.bin = rd.freq /\ h.time = rd.time
         /\ (\E j \in (i + 1)..Len(calls) : calls[j] = calls[i]) =>
              \E h \in HeardOf(calls, rd) :
                /\ h.call = calls[i] /\ h.window = rd.window /\ h.nth = 1
                /\ h.bin = rd.freq /\ h.time = rd.time
<1> DEFINE before(n) == {j \in 1..(n - 1) : calls[j] = calls[n]}
           said(n) == [call |-> calls[n], window |-> rd.window, bin |-> rd.freq, time |-> rd.time,
                       nth |-> Cardinality(before(n)),
                       byCq |-> \E g \in DOMAIN rd.text.groups : rd.text.groups[g].call = calls[n]]
<1>1. DOMAIN calls = 1..Len(calls) /\ Len(calls) \in Nat
  OBVIOUS
<1>2. \A n \in 1..Len(calls) : said(n) \in HeardOf(calls, rd)
  BY <1>1 DEF HeardOf
<1>3. \A n : /\ said(n).call = calls[n] /\ said(n).window = rd.window
             /\ said(n).nth = Cardinality(before(n)) /\ said(n).bin = rd.freq /\ said(n).time = rd.time
  OBVIOUS
<1>4. before(i) = {} /\ Cardinality({}) = 0
  BY FS_EmptySet
<1>5. ASSUME \E j \in (i + 1)..Len(calls) : calls[j] = calls[i]
      PROVE  \E n \in 1..Len(calls) : calls[n] = calls[i] /\ Cardinality(before(n)) = 1
  <2> DEFINE later == {j \in (i + 1)..Len(calls) : calls[j] = calls[i]}
  <2>1. later \in SUBSET Nat /\ later # {}
    BY <1>1, <1>5
  <2>2. PICK n \in later : \A m \in later : n <= m
    <3> HIDE DEF later
    <3> QED
      BY <2>1, LeastNat
  <2>3. n \in (i + 1)..Len(calls) /\ calls[n] = calls[i] /\ i \in Nat /\ n \in Nat
    BY <1>1, <2>2
  <2>4. \A j \in 1..(n - 1) : calls[j] = calls[n] => j = i
    <3> SUFFICES ASSUME NEW j \in 1..(n - 1), calls[j] = calls[i] PROVE j = i
      BY <2>3
    <3>1. j \in Nat /\ j < n /\ j <= Len(calls) /\ j >= 1
      BY <1>1, <2>3
    <3>2. ~(j < i)
      <4> SUFFICES ASSUME j < i PROVE FALSE
        OBVIOUS
      <4>1. j \in 1..(i - 1)
        BY <2>3, <3>1
      <4> QED
        BY <4>1
    <3>3. ~(j > i)
      <4> SUFFICES ASSUME j > i PROVE FALSE
        OBVIOUS
      <4>1. j \in (i + 1)..Len(calls)
        BY <1>1, <2>3, <3>1
      <4>2. j \in later
        BY <4>1
      <4> QED
        BY <2>2, <2>3, <3>1, <4>2
    <3> QED
      BY <2>3, <3>1, <3>2, <3>3
  <2>5. i \in 1..(n - 1)
    BY <2>3
  <2>6. before(n) = {i}
    BY <2>3, <2>4, <2>5
  <2>7. Cardinality({i}) = 1
    BY FS_Singleton
  <2>8. n \in 1..Len(calls)
    BY <1>1, <2>3
  <2> HIDE DEF before
  <2> QED
    BY <2>3, <2>6, <2>7, <2>8
<1> HIDE DEF said, before
<1>6. said(i) \in HeardOf(calls, rd) /\ said(i).nth = 0
  BY <1>2, <1>3, <1>4
<1>7. ASSUME \E j \in (i + 1)..Len(calls) : calls[j] = calls[i]
      PROVE  \E h \in HeardOf(calls, rd) :
               /\ h.call = calls[i] /\ h.window = rd.window /\ h.nth = 1
               /\ h.bin = rd.freq /\ h.time = rd.time
  <2>1. PICK n \in 1..Len(calls) : calls[n] = calls[i] /\ Cardinality(before(n)) = 1
    BY <1>5, <1>7
  <2>2. said(n) \in HeardOf(calls, rd)
    BY <1>2, <2>1
  <2> QED
    BY <1>3, <2>1, <2>2
<1> QED
  BY <1>3, <1>6, <1>7

\* The bins that read a call within REPEAT_S of each other hear each other, or are
\* in groups too far apart to hear each other: no chain of bins reads one call, each
\* near the next, further than NEAR.  It is what was read that is restricted, not
\* where the bins are.
Earshot(hs) ==
  \A h, g, k \in hs :
     /\ h.call = g.call /\ g.call = k.call
     /\ \A a, b \in {h, g, k} : a.time - b.time <= REPEAT_S
     /\ Near(h.bin, g.bin) /\ Near(g.bin, k.bin)
     => Near(h.bin, k.bin)

InEarshot == Earshot(heard)

\* Some of what was read was in earshot when all of it was.
LEMMA EarshotOfFewer ==
  ASSUME NEW hs, NEW more, hs \subseteq more, Earshot(more)
  PROVE  Earshot(hs)
<1>1. \A h, g, k \in hs : h \in more /\ g \in more /\ k \in more
  OBVIOUS
<1> QED
  BY <1>1 DEF Earshot

\* The bins that read a call in the last REPEAT_S before t.
Bins(hs, call, t) ==
  {h.bin : h \in {g \in hs : g.call = call /\ t - g.time <= REPEAT_S /\ g.time <= t}}

\* Bins that read a call lately, each near the next, are near.
LEMMA BinsTogether ==
  ASSUME NEW hs \in SUBSET HeardReading, Earshot(hs), NEW call, NEW t \in Int,
         NEW f \in Bins(hs, call, t), NEW g \in Bins(hs, call, t), NEW k \in Bins(hs, call, t),
         Near(f, g), Near(g, k)
  PROVE  Near(f, k)
<1>1. PICK a \in hs : a.call = call /\ a.bin = f /\ t - a.time <= REPEAT_S /\ a.time <= t
  BY DEF Bins
<1>2. PICK b \in hs : b.call = call /\ b.bin = g /\ t - b.time <= REPEAT_S /\ b.time <= t
  BY DEF Bins
<1>3. PICK c \in hs : c.call = call /\ c.bin = k /\ t - c.time <= REPEAT_S /\ c.time <= t
  BY DEF Bins
<1>4. a.time \in Int /\ b.time \in Int /\ c.time \in Int /\ REPEAT_S \in Nat
  BY SpotRuleAssumption DEF HeardReading
<1>5. \A x, y \in {a, b, c} : x.time - y.time <= REPEAT_S
  BY <1>1, <1>2, <1>3, <1>4
<1> QED
  BY <1>1, <1>2, <1>3, <1>5 DEF Earshot

\* Every copy stands at a bin that read its call, when the copy was taken or later.
Standing(cs, hs, t) ==
  \A c \in cs : \E h \in hs : /\ h.call = c.call /\ h.bin = c.freq
                              /\ c.time <= h.time /\ h.time <= t

\* Copies of the last REPEAT_S before t.
Lately(cs, t) == \A c \in cs : t - c.time <= REPEAT_S

\* Adding a copy holds none that is older than REPEAT_S.
LEMMA AddCopyLately ==
  ASSUME NEW r \in LoopState, NEW rd \in Reading, NEW call \in Calls, NEW nth \in Nat, NEW wins,
         Lately(r.copies, rd.time)
  PROVE  Lately(AddCopy(r, rd, call, nth, wins).copies, rd.time)
<1> DEFINE q == AddCopy(r, rd, call, nth, wins)
           same == SameAudio(r, rd, call, wins)
<1>1. REPEAT_S \in Nat /\ rd.time \in Int /\ r.copies \in SUBSET Copy
  BY SpotRuleAssumption DEF Reading, LoopState
<1>2. CASE q.copies = r.copies
  BY <1>2
<1>3. ASSUME NEW c \in same, NEW moved \in Copy, moved = [c EXCEPT !.freq = rd.freq, !.snr = rd.snr],
             q.copies = (r.copies \ {c}) \cup {moved}
      PROVE  Lately(q.copies, rd.time)
  <2>1. c \in r.copies /\ c \in Copy
    BY <1>1 DEF SameAudio, CopiesOf
  <2>2. moved.time = c.time
    BY <1>3, <2>1 DEF Copy
  <2> QED
    BY <1>3, <2>1, <2>2 DEF Lately
<1>4. ASSUME NEW added \in Copy, q.copies = r.copies \cup {added},
             added = [time |-> rd.time, window |-> rd.window, call |-> call,
                      freq |-> rd.freq, snr |-> rd.snr, nth |-> nth]
      PROVE  Lately(q.copies, rd.time)
  <2>1. added.time = rd.time
    BY <1>4
  <2> HIDE DEF q
  <2> QED
    BY <1>1, <1>4, <2>1 DEF Lately
<1>5. Adds(q.copies, r.copies, same, rd, call, nth)
  BY AddCopyCases
<1> HIDE DEF q, same
<1>6. Lately(q.copies, rd.time)
  BY <1>2, <1>3, <1>4, <1>5 DEF Adds
<1> QED
  BY <1>6 DEF q

\* What feed compares a reading with: the copies of the last REPEAT_S, each at a bin
\* that read its call.
Stationed(cs, hs, t) == Standing(cs, hs, t) /\ Lately(cs, t)

HeardNow(hs, rd, call) == \E h \in hs : h.call = call /\ h.bin = rd.freq /\ h.time = rd.time

\* The reading, the copies of its call and what they were taken from are all of bins
\* that read the call lately.
LEMMA Within ==
  ASSUME NEW hs \in SUBSET HeardReading, Earshot(hs), NEW rd \in Reading, NEW call,
         HeardNow(hs, rd, call), NEW cs \in SUBSET Copy, Stationed(cs, hs, rd.time)
  PROVE  LET B == Bins(hs, call, rd.time)
         IN /\ B \subseteq Freqs /\ rd.freq \in B
            /\ \A c \in cs : c.time <= rd.time
            /\ \A c \in cs : c.call = call => c.freq \in B
            /\ \A c \in cs, h \in hs : /\ c.call = call /\ h.call = call
                                       /\ c.time <= h.time /\ h.time <= rd.time
                                       => h.bin \in B
            /\ \A f, g, k \in B : Near(f, g) /\ Near(g, k) => Near(f, k)
<1> DEFINE B == Bins(hs, call, rd.time)
<1>1. /\ rd.time \in Int /\ REPEAT_S \in Nat
      /\ \A c \in cs : c.time \in Int
      /\ \A h \in hs : h.time \in Int /\ h.bin \in Freqs
  BY SpotRuleAssumption DEF Reading, Copy, HeardReading
<1>2. \A h \in hs : h.call = call /\ rd.time - h.time <= REPEAT_S /\ h.time <= rd.time => h.bin \in B
  BY DEF Bins
<1>3. \A f \in B : f \in Freqs
  BY <1>1 DEF Bins
<1>4. \A f, g, k \in B : Near(f, g) /\ Near(g, k) => Near(f, k)
  BY <1>1, BinsTogether
<1> HIDE DEF B
<1>5. rd.freq \in B
  <2>1. PICK h \in hs : h.call = call /\ h.bin = rd.freq /\ h.time = rd.time
    BY DEF HeardNow
  <2>2. rd.time - h.time <= REPEAT_S /\ h.time <= rd.time
    BY <1>1, <2>1
  <2> QED
    BY <1>2, <2>1, <2>2
<1>6. ASSUME NEW c \in cs
      PROVE  c.time <= rd.time /\ (c.call = call => c.freq \in B)
  <2>1. PICK h \in hs : h.call = c.call /\ h.bin = c.freq /\ c.time <= h.time /\ h.time <= rd.time
    BY DEF Stationed, Standing
  <2>2. rd.time - c.time <= REPEAT_S
    BY DEF Stationed, Lately
  <2>3. rd.time - h.time <= REPEAT_S /\ c.time <= rd.time
    BY <1>1, <2>1, <2>2
  <2> QED
    BY <1>2, <2>1, <2>3
<1>7. ASSUME NEW c \in cs, NEW h \in hs, c.call = call, h.call = call,
             c.time <= h.time, h.time <= rd.time
      PROVE  h.bin \in B
  <2>1. rd.time - c.time <= REPEAT_S
    BY DEF Stationed, Lately
  <2>2. rd.time - h.time <= REPEAT_S
    BY <1>1, <1>7, <2>1
  <2> QED
    BY <1>2, <1>7, <2>2
<1>8. B \subseteq Freqs
  BY <1>3
<1> QED
  BY <1>4, <1>5, <1>6, <1>7, <1>8 DEF B

\* A copy that is added or moved stands at the reading's bin.
LEMMA AddCopyStationed ==
  ASSUME NEW r \in LoopState, NEW rd \in Reading, NEW call \in Calls, NEW nth \in Nat, NEW wins,
         NEW hs \in SUBSET HeardReading, HeardNow(hs, rd, call),
         Stationed(r.copies, hs, rd.time)
  PROVE  Stationed(AddCopy(r, rd, call, nth, wins).copies, hs, rd.time)
<1> DEFINE q == AddCopy(r, rd, call, nth, wins)
           same == SameAudio(r, rd, call, wins)
<1>1. rd.time \in Int /\ r.copies \in SUBSET Copy
  BY DEF Reading, LoopState
<1>2. PICK now_ \in hs : now_.call = call /\ now_.bin = rd.freq /\ now_.time = rd.time
  BY DEF HeardNow
<1>3. CASE q.copies = r.copies
  BY <1>3 DEF Stationed
<1>4. ASSUME NEW c \in same, NEW moved \in Copy, moved = [c EXCEPT !.freq = rd.freq, !.snr = rd.snr],
             q.copies = (r.copies \ {c}) \cup {moved}
      PROVE  Standing(q.copies, hs, rd.time)
  <2>1. c \in r.copies /\ c \in Copy /\ c.call = call
    BY <1>1 DEF SameAudio, CopiesOf
  <2>2. moved.time = c.time /\ moved.call = call /\ moved.freq = rd.freq
    BY <1>4, <2>1 DEF Copy
  <2>3. c.time <= rd.time
    <3>1. PICK h \in hs : c.time <= h.time /\ h.time <= rd.time
      BY <2>1 DEF Stationed, Standing
    <3>2. c.time \in Int /\ h.time \in Int
      BY <2>1 DEF Copy, HeardReading
    <3> QED
      BY <1>1, <3>1, <3>2
  <2>4. \E h \in hs : /\ h.call = moved.call /\ h.bin = moved.freq
                     /\ moved.time <= h.time /\ h.time <= rd.time
    <3>1. now_.time <= rd.time /\ moved.time <= now_.time
      BY <1>1, <1>2, <2>2, <2>3
    <3> QED
      BY <1>2, <2>2, <3>1
  <2>5. Standing(r.copies, hs, rd.time) /\ q.copies \subseteq r.copies \cup {moved}
    BY <1>4 DEF Stationed
  <2> HIDE DEF q, same
  <2> QED
    BY <2>4, <2>5 DEF Standing
<1>5. ASSUME NEW added \in Copy, q.copies = r.copies \cup {added},
             added = [time |-> rd.time, window |-> rd.window, call |-> call,
                      freq |-> rd.freq, snr |-> rd.snr, nth |-> nth]
      PROVE  Standing(q.copies, hs, rd.time)
  <2>1. added.time = rd.time /\ added.call = call /\ added.freq = rd.freq
    BY <1>5
  <2> HIDE DEF q
  <2> QED
    BY <1>1, <1>2, <1>5, <2>1 DEF Stationed, Standing
<1>6. Adds(q.copies, r.copies, same, rd, call, nth)
  BY AddCopyCases
<1>7. Lately(q.copies, rd.time)
  BY AddCopyLately DEF Stationed
<1> HIDE DEF q, same
<1>8. Stationed(q.copies, hs, rd.time)
  BY <1>3, <1>4, <1>5, <1>6, <1>7 DEF Adds, Stationed
<1> QED
  BY <1>8 DEF q

\* So do all the copies of a call that is counted.
LEMMA CountCallStationed ==
  ASSUME NEW r \in LoopState, NEW rd \in Reading, NEW calls \in Seq(Calls),
         NEW i \in Nat \ {0}, NEW owned, NEW wins, NEW hs \in SUBSET HeardReading,
         HeardOf(calls, rd) \subseteq hs, Agree(r.seen, r.copies),
         Stationed(r.copies, hs, rd.time)
  PROVE  LET q == CountCall(r, rd, calls, i, owned, wins)
         IN /\ q \in LoopState /\ Agree(q.seen, q.copies)
            /\ Stationed(q.copies, hs, rd.time)
<1> DEFINE q == CountCall(r, rd, calls, i, owned, wins)
           added == Added(r, rd, calls, i, wins)
           Good(s) == /\ s \in LoopState /\ Agree(s.seen, s.copies)
                      /\ Stationed(s.copies, hs, rd.time)
<1>1. CASE q = r
  BY <1>1
<1>2. ASSUME i \in 1..Len(calls), calls[i] \in Calls, q = Decide(added, rd, calls[i], owned)
      PROVE  Good(q)
  <2> DEFINE once == AddCopy(r, rd, calls[i], 0, wins)
             twice == AddCopy(once, rd, calls[i], 1, wins)
  <2>0. HeardNow(hs, rd, calls[i])
    BY <1>2, CallsHeard DEF HeardNow
  <2>1. Good(once)
    BY <1>2, <2>0, AddCopyEffect, AddCopyStationed
  <2>2. Good(twice)
    <3> HIDE DEF once
    <3> QED
      BY <1>2, <2>0, <2>1, AddCopyEffect, AddCopyStationed
  <2>3. added \in {once, twice}
    BY DEF Added
  <2> HIDE DEF added, q, once, twice
  <2> QED
    BY <1>2, <2>1, <2>2, <2>3, DecideKeeps
<1>3. \/ q = r
      \/ i \in 1..Len(calls) /\ calls[i] \in Calls /\ q = Decide(added, rd, calls[i], owned)
  BY CountCallIs
<1> HIDE DEF q, added
<1>4. Good(q)
  BY <1>1, <1>2, <1>3
<1> QED
  BY <1>4 DEF q

\* The loop starts from the copies that are fresh, whose keys are those of _seen.
LEMMA LoopStartIs ==
  ASSUME TypeOK, SeenMatchesCopies
  PROVE  /\ LoopStart \in LoopState /\ Agree(LoopStart.seen, LoopStart.copies)
         /\ LoopStart.copies = FreshCopies /\ LoopStart.seen = FreshSeen
         /\ LoopStart.lastSpot = FreshSpots /\ LoopStart.out = {}
<1>1. FreshCopies \in SUBSET Copy /\ FreshSeen \in SUBSET (Nat \X Calls \X Nat)
  BY DEF FreshCopies, FreshSeen, TypeOK
<1> QED
  BY <1>1, FreshAgrees, FreshSpotsKeep DEF LoopStart, LoopState

\* What is heard is typed and finite, and every copy stands at a bin that heard it.
Sited ==
  /\ heard \subseteq HeardReading /\ IsFiniteSet(heard)
  /\ Standing(copies, heard, now)

\* So it is with the copies a feed starts from.
LEMMA StartStationed ==
  ASSUME TypeOK, SeenMatchesCopies, Sited, NEW hs, heard \subseteq hs
  PROVE  Stationed(LoopStart.copies, hs, now)
<1>1. LoopStart.copies = FreshCopies /\ FreshCopies \subseteq copies
  BY LoopStartIs DEF FreshCopies
<1>2. \A c \in FreshCopies : now - c.time <= REPEAT_S
  <2>1. now \in Nat /\ REPEAT_S \in Nat /\ \A c \in copies : c.time \in Int
    BY SpotRuleAssumption DEF TypeOK, Copy
  <2> QED
    BY <2>1 DEF FreshCopies
<1> QED
  BY <1>1, <1>2 DEF Sited, Stationed, Standing, Lately

\* A feed leaves every copy at a bin that heard it.
LEMMA FeedSited ==
  ASSUME TypeOK, SeenMatchesCopies, Sited,
         NEW f \in Freqs, NEW w, NEW rd, NEW lk, NEW r, FeedOf(f, w, rd, lk, r)
  PROVE  Sited'
<1> DEFINE wins == WindowsWith(w, f)
           owned == OwnedAt(f)
           calls == lk.calls
           hs == heard \cup HeardOf(calls, rd)
           r1 == CountCall(LoopStart, rd, calls, 1, owned, wins)
           r2 == CountCall(r1, rd, calls, 2, owned, wins)
           r3 == CountCall(r2, rd, calls, 3, owned, wins)
           Good(s) == /\ s \in LoopState /\ Agree(s.seen, s.copies)
                      /\ Stationed(s.copies, hs, rd.time)
<1>1. rd \in Reading /\ calls \in Seq(Calls) /\ rd.time = now
  BY DEF FeedOf, Lockons
<1>2. r = r3 /\ copies' = r.copies /\ heard' = hs /\ now' = now
  BY DEF FeedOf, Loop, FeedEffect
<1>3. hs \in SUBSET HeardReading /\ IsFiniteSet(hs)
  BY <1>1, HeardTyped, FS_Union DEF Sited
<1>4. Good(LoopStart)
  <2>1. heard \subseteq hs
    OBVIOUS
  <2> HIDE DEF hs
  <2> QED
    BY <1>1, <2>1, LoopStartIs, StartStationed
<1>5. HeardOf(calls, rd) \subseteq hs
  OBVIOUS
<1> HIDE DEF wins, owned, calls, hs
<1>0. 1 \in Nat \ {0} /\ 2 \in Nat \ {0} /\ 3 \in Nat \ {0}
  OBVIOUS
<1>6. Good(r1)
  BY <1>0, <1>1, <1>3, <1>4, <1>5, CountCallStationed, Zenon
<1> HIDE DEF r1
<1>7. Good(r2)
  BY <1>0, <1>1, <1>3, <1>5, <1>6, CountCallStationed, Zenon
<1> HIDE DEF r2
<1>8. Good(r3)
  BY <1>0, <1>1, <1>3, <1>5, <1>7, CountCallStationed, Zenon
<1> HIDE DEF r3
<1> QED
  BY <1>1, <1>2, <1>3, <1>8 DEF Sited, Stationed

\* Only the feeds hear and copy.
LEMMA NextSited ==
  ASSUME IInv, Sited, [Next]_vars
  PROVE  Sited'
<1>1. CASE Decode
  <2>1. PICK f \in Freqs, text \in Texts, snr \in Snrs : Feed(f, text, snr)
    BY <1>1 DEF Decode
  <2>2. TypeOK /\ SeenMatchesCopies
    BY DEF IInv
  <2>3. PICK w, rd, lk, r : FeedOf(f, w, rd, lk, r)
    BY <2>1, <2>2, FeedIs
  <2> QED
    BY <2>2, <2>3, FeedSited
<1>2. CASE Tick
  <2>1. now \in Nat /\ now' = now + 1 /\ UNCHANGED <<copies, heard>>
    BY <1>2 DEF Tick, rule, IInv, TypeOK
  <2>2. \A h \in heard : h.time \in Int
    BY DEF Sited, HeardReading
  <2>3. Standing(copies, heard, now + 1)
    BY <2>1, <2>2 DEF Sited, Standing
  <2> QED
    BY <2>1, <2>3 DEF Sited
<1>3. CASE Save \/ Start \/ UNCHANGED vars
  <2>1. UNCHANGED <<copies, heard, now>>
    BY <1>3 DEF Save, Start, vars, rule
  <2> QED
    BY <2>1 DEF Sited
<1>4. CASE Stop \/ Crash
  <2>1. copies' = {} /\ heard' = {}
    BY <1>4 DEF Stop, Crash, Down
  <2> QED
    BY <2>1, FS_EmptySet DEF Sited, Standing
<1> QED
  BY <1>1, <1>2, <1>3, <1>4 DEF Next

\* At first nothing is heard.
LEMMA InitSited ==
  ASSUME Init
  PROVE  Sited
BY FS_EmptySet DEF Init, Sited, Standing

\* In every reachable state the copies stand where their calls were heard.
LEMMA Sites == Spec => [](IInv /\ Sited)
<1>1. Init => IInv /\ Sited
  BY InitInv, InitSited
<1>2. IInv /\ Sited /\ [Next]_vars => (IInv /\ Sited)'
  BY NextInv, NextSited
<1> QED
  BY <1>1, <1>2, PTL DEF Spec

\* What was heard is forgotten only as the process ends: where all of it is in
\* earshot after a step, it was before.
LEMMA StayInEarshot ==
  ASSUME IInv, [Next]_vars, InEarshot'
  PROVE  InEarshot \/ Stop \/ Crash
<1>1. CASE Decode
  <2>1. PICK f \in Freqs, text \in Texts, snr \in Snrs : Feed(f, text, snr)
    BY <1>1 DEF Decode
  <2>2. heard \subseteq heard'
    BY <2>1 DEF Feed
  <2> QED
    BY <2>2, EarshotOfFewer DEF InEarshot
<1>2. CASE Tick \/ Save \/ Start \/ UNCHANGED vars
  <2>1. heard' = heard
    BY <1>2 DEF Tick, Save, Start, vars
  <2> QED
    BY <2>1 DEF InEarshot
<1> QED
  BY <1>1, <1>2 DEF Next

-----------------------------------------------------------------------------
(* One transmission, one copy.                                             *)

\* No two bins have a copy each of what may be one transmission; and no copy is of
\* the future, or of a window still to open.
Single(cs, wins) ==
  \A c, d \in cs, v, u \in wins :
     /\ c.call = d.call /\ Near(c.freq, d.freq)
     /\ v.id = c.window /\ u.id = d.window /\ v.bin # u.bin
     => Abs(c.time - d.time) >= WINDOW_S

Dated(cs, w, t) == \A c \in cs : c.window <= w /\ c.time <= t

\* The window a reading belongs to is its bin's.
OwnWindow(rd, wins) ==
  \A v \in wins : v.id = rd.window => v.bin = rd.freq

\* Adding a copy puts no second one beside what may be the same transmission.
LEMMA AddCopySingle ==
  ASSUME NEW r \in LoopState, NEW rd \in Reading, NEW call \in Calls,
         NEW nth \in Nat, NEW wins, OwnWindow(rd, wins), NEW w \in Int, rd.window <= w,
         Single(r.copies, wins), Dated(r.copies, w, rd.time),
         NEW hs \in SUBSET HeardReading, Earshot(hs), HeardNow(hs, rd, call),
         Stationed(r.copies, hs, rd.time)
  PROVE  LET q == AddCopy(r, rd, call, nth, wins)
         IN Single(q.copies, wins) /\ Dated(q.copies, w, rd.time)
<1> DEFINE q == AddCopy(r, rd, call, nth, wins)
           same == SameAudio(r, rd, call, wins)
           B == Bins(hs, call, rd.time)
<1>0. /\ B \subseteq Freqs /\ rd.freq \in B
      /\ \A c \in r.copies : c.call = call => c.freq \in B
      /\ \A f, g, k \in B : Near(f, g) /\ Near(g, k) => Near(f, k)
  <2>1. r.copies \in SUBSET Copy
    BY DEF LoopState
  <2> QED
    BY <2>1, Within
<1> HIDE DEF B
<1>1. /\ r.copies \in SUBSET Copy /\ rd.freq \in Freqs /\ rd.time \in Int /\ WINDOW_S \in Nat
      /\ Freqs \subseteq Nat
  BY SpotRuleAssumption DEF LoopState, Reading
<1>2. CASE q.copies = r.copies
  BY <1>2
<1>3. ASSUME NEW c \in same, NEW moved \in Copy, moved = [c EXCEPT !.freq = rd.freq, !.snr = rd.snr],
             q.copies = (r.copies \ {c}) \cup {moved}
      PROVE  Single(q.copies, wins) /\ Dated(q.copies, w, rd.time)
  <2>1. c \in r.copies /\ c \in Copy /\ c.call = call /\ Near(c.freq, rd.freq)
    BY <1>1 DEF SameAudio, CopiesOf
  <2>2. moved.call = c.call /\ moved.window = c.window /\ moved.time = c.time /\ moved.freq = rd.freq
    BY <1>3, <2>1 DEF Copy
  <2>3. \A d \in r.copies : d.call = call /\ Near(moved.freq, d.freq) => Near(c.freq, d.freq)
    BY <1>0, <2>1, <2>2
  <2>4. \A d \in r.copies : d.call = call /\ Near(d.freq, moved.freq) => Near(d.freq, c.freq)
    <3>1. Near(rd.freq, c.freq)
      BY <1>1, <2>1, NearSymmetric DEF Copy
    <3> QED
      BY <1>0, <2>1, <2>2, <3>1
  <2>5. Near(c.freq, c.freq)
    <3>1. c.freq \in Nat /\ NEAR \in Nat
      BY <1>1, <2>1, SpotRuleAssumption DEF Copy
    <3> QED
      BY <3>1 DEF Near, Abs
  <2>6. Dated(q.copies, w, rd.time)
    BY <1>3, <2>1, <2>2 DEF Dated
  <2> HIDE DEF same, q
  <2> SUFFICES ASSUME NEW a \in q.copies, NEW b \in q.copies, NEW v \in wins, NEW u \in wins,
                      a.call = b.call, Near(a.freq, b.freq), v.id = a.window, u.id = b.window,
                      v.bin # u.bin
               PROVE  Abs(a.time - b.time) >= WINDOW_S
    BY <2>6 DEF Single
  <2> DEFINE was(d) == IF d = moved THEN c ELSE d
  <2>7. \A d \in q.copies : /\ was(d) \in r.copies /\ was(d).call = d.call
                            /\ was(d).window = d.window /\ was(d).time = d.time
    BY <1>3, <2>1, <2>2
  <2>8. Near(was(a).freq, was(b).freq)
    <3>1. was(a).call = was(b).call
      BY <2>7
    <3> QED
      BY <1>3, <2>1, <2>2, <2>3, <2>4, <2>5, <2>7, <3>1
  <2> HIDE DEF was
  <2> QED
    BY <2>7, <2>8 DEF Single
<1>4. ASSUME same = {}, NEW added \in Copy, q.copies = r.copies \cup {added},
             added = [time |-> rd.time, window |-> rd.window, call |-> call,
                      freq |-> rd.freq, snr |-> rd.snr, nth |-> nth]
      PROVE  Single(q.copies, wins) /\ Dated(q.copies, w, rd.time)
  <2>1. /\ added.call = call /\ added.window = rd.window /\ added.time = rd.time
        /\ added.freq = rd.freq
    BY <1>4
  <2>2. \A d \in r.copies, v \in wins :
          d.call = call /\ Near(d.freq, rd.freq) /\ v.id = d.window /\ v.bin # rd.freq
          => rd.time - d.time >= WINDOW_S
    <3>1. \A d \in r.copies, v \in wins :
            d.call = call /\ Near(d.freq, rd.freq) /\ v.id = d.window /\ v.bin # rd.freq
            => ~(rd.time - d.time < WINDOW_S)
      BY <1>4 DEF SameAudio, CopiesOf
    <3>2. \A d \in r.copies : d.time \in Int
      BY <1>1 DEF Copy
    <3> QED
      BY <1>1, <3>1, <3>2
  <2>3. Dated(q.copies, w, rd.time)
    BY <1>1, <1>4, <2>1 DEF Dated
  <2> HIDE DEF same, q
  <2> SUFFICES ASSUME NEW a \in q.copies, NEW b \in q.copies, NEW v \in wins, NEW u \in wins,
                      a.call = b.call, Near(a.freq, b.freq), v.id = a.window, u.id = b.window,
                      v.bin # u.bin
               PROVE  Abs(a.time - b.time) >= WINDOW_S
    BY <2>3 DEF Single
  <2>4. a \in Copy /\ b \in Copy
    BY <1>1, <1>4
  <2>5. CASE a \in r.copies /\ b \in r.copies
    BY <2>5 DEF Single
  <2>6. CASE a = added /\ b = added
    BY <2>1, <2>6 DEF OwnWindow
  <2>7. CASE a \in r.copies /\ b = added
    <3>1. u.bin = rd.freq
      BY <2>1, <2>7 DEF OwnWindow
    <3>2. rd.time - a.time >= WINDOW_S
      BY <2>1, <2>2, <2>7, <3>1
    <3> QED
      BY <1>1, <2>1, <2>4, <2>7, <3>2 DEF Abs, Copy
  <2>8. CASE a = added /\ b \in r.copies
    <3>1. v.bin = rd.freq
      BY <2>1, <2>8 DEF OwnWindow
    <3>2. Near(b.freq, rd.freq)
      BY <1>1, <2>1, <2>4, <2>8, NearSymmetric DEF Copy
    <3>3. rd.time - b.time >= WINDOW_S
      BY <2>1, <2>2, <2>8, <3>1, <3>2
    <3> QED
      BY <1>1, <2>1, <2>4, <2>8, <3>3 DEF Abs, Copy
  <2> QED
    BY <1>4, <2>5, <2>6, <2>7, <2>8
<1>5. Adds(q.copies, r.copies, same, rd, call, nth)
  BY AddCopyCases
<1> HIDE DEF q, same
<1>6. Single(q.copies, wins) /\ Dated(q.copies, w, rd.time)
  BY <1>2, <1>3, <1>4, <1>5 DEF Adds
<1> QED
  BY <1>6 DEF q

\* Nor does counting a call, in one group or two.
LEMMA CountCallSingle ==
  ASSUME NEW r \in LoopState, NEW rd \in Reading, NEW calls \in Seq(Calls),
         NEW i \in Nat \ {0}, NEW owned, NEW wins, OwnWindow(rd, wins), NEW w \in Int, rd.window <= w,
         Single(r.copies, wins), Dated(r.copies, w, rd.time), Agree(r.seen, r.copies),
         NEW hs \in SUBSET HeardReading, Earshot(hs), HeardOf(calls, rd) \subseteq hs,
         Stationed(r.copies, hs, rd.time)
  PROVE  LET q == CountCall(r, rd, calls, i, owned, wins)
         IN /\ q \in LoopState /\ Agree(q.seen, q.copies)
            /\ Single(q.copies, wins) /\ Dated(q.copies, w, rd.time)
            /\ Stationed(q.copies, hs, rd.time)
<1> DEFINE q == CountCall(r, rd, calls, i, owned, wins)
           added == Added(r, rd, calls, i, wins)
           Good(s) == /\ s \in LoopState /\ Agree(s.seen, s.copies)
                      /\ Single(s.copies, wins) /\ Dated(s.copies, w, rd.time)
                      /\ Stationed(s.copies, hs, rd.time)
<1>1. CASE q = r
  BY <1>1
<1>2. ASSUME i \in 1..Len(calls), calls[i] \in Calls, q = Decide(added, rd, calls[i], owned)
      PROVE  Good(q)
  <2> DEFINE once == AddCopy(r, rd, calls[i], 0, wins)
             twice == AddCopy(once, rd, calls[i], 1, wins)
  <2>0. HeardNow(hs, rd, calls[i])
    BY <1>2, CallsHeard DEF HeardNow
  <2>1. Good(once)
    BY <1>2, <2>0, AddCopyEffect, AddCopySingle, AddCopyStationed
  <2>2. Good(twice)
    <3> HIDE DEF once
    <3> QED
      BY <1>2, <2>0, <2>1, AddCopyEffect, AddCopySingle, AddCopyStationed
  <2>3. added \in {once, twice}
    BY DEF Added
  <2> HIDE DEF added, q, once, twice
  <2> QED
    BY <1>2, <2>1, <2>2, <2>3, DecideKeeps
<1>3. \/ q = r
      \/ i \in 1..Len(calls) /\ calls[i] \in Calls /\ q = Decide(added, rd, calls[i], owned)
  BY CountCallIs
<1> HIDE DEF q, added
<1>4. Good(q)
  BY <1>1, <1>2, <1>3
<1> QED
  BY <1>4 DEF q

\* The windows of a process are numbered in order, one number for each; no copy is
\* of a window still to open, or of the future.
Numbered ==
  /\ \A v \in windows : v.id < nextWindow
  /\ \A v, u \in windows : v.id = u.id => v = u
  /\ Dated(copies, nextWindow - 1, now)

\* A reading has the newest window of its bin.
LEMMA FeedNumbered ==
  ASSUME TypeOK, Numbered, NEW f \in Freqs, NEW w \in WindowIds(f)
  PROVE  LET wins == WindowsWith(w, f)
             next == IF w = nextWindow THEN w + 1 ELSE nextWindow
         IN /\ wins \subseteq windows \cup {[id |-> nextWindow, bin |-> f, first |-> now]}
            /\ \A v \in wins : v.id < next
            /\ \A v, u \in wins : v.id = u.id => v = u
            /\ \A v \in wins : v.id = w => v.bin = f /\ v.first = now
            /\ w = next - 1 /\ next \in Nat /\ next >= nextWindow
<1> DEFINE new == [id |-> nextWindow, bin |-> f, first |-> now]
           wins == WindowsWith(w, f)
           next == IF w = nextWindow THEN w + 1 ELSE nextWindow
<1>1. nextWindow \in Nat /\ \A v \in windows : v.id \in Nat /\ v.bin \in Freqs
  BY DEF TypeOK, Window
<1>2. \/ w = nextWindow
      \/ w = nextWindow - 1 /\ \E v \in windows : v.id = w /\ v.bin = f /\ v.first = now
  BY DEF WindowIds
<1>3. wins \subseteq windows \cup (IF w = nextWindow THEN {new} ELSE {})
  BY DEF WindowsWith, Fresh
<1>4. new.id = nextWindow /\ new.bin = f /\ new.first = now
  OBVIOUS
<1> HIDE DEF wins, new
<1>5. \A v \in wins : v.id < next
  BY <1>1, <1>2, <1>3, <1>4 DEF Numbered
<1>6. \A v, u \in wins : v.id = u.id => v = u
  BY <1>1, <1>2, <1>3, <1>4 DEF Numbered
<1>7. \A v \in wins : v.id = w => v.bin = f /\ v.first = now
  BY <1>1, <1>2, <1>3, <1>4 DEF Numbered
<1>8. w = next - 1 /\ next \in Nat /\ next >= nextWindow
  BY <1>1, <1>2
<1>9. wins \subseteq windows \cup {new}
  BY <1>3
<1> HIDE DEF next
<1> QED
  BY <1>5, <1>6, <1>7, <1>8, <1>9 DEF wins, new, next

\* What three calls of the loop keep, once each of them keeps it.
LEMMA FeedSingle ==
  ASSUME InEarshot', TypeOK, SeenMatchesCopies, Sited, Numbered, OneTransmissionOneCopy,
         NEW f \in Freqs, NEW w, NEW rd, NEW lk, NEW r, FeedOf(f, w, rd, lk, r)
  PROVE  Numbered' /\ OneTransmissionOneCopy'
<1> DEFINE wins == WindowsWith(w, f)
           next == IF w = nextWindow THEN w + 1 ELSE nextWindow
           last == next - 1
           owned == OwnedAt(f)
           calls == lk.calls
           hs == heard \cup HeardOf(calls, rd)
           r1 == CountCall(LoopStart, rd, calls, 1, owned, wins)
           r2 == CountCall(r1, rd, calls, 2, owned, wins)
           r3 == CountCall(r2, rd, calls, 3, owned, wins)
           Good(s) == /\ s \in LoopState /\ Agree(s.seen, s.copies)
                      /\ Single(s.copies, wins) /\ Dated(s.copies, last, rd.time)
                      /\ Stationed(s.copies, hs, rd.time)
<1>1. /\ w \in WindowIds(f) /\ rd \in Reading /\ rd.window = w /\ rd.freq = f /\ rd.time = now
      /\ calls \in Seq(Calls)
  BY DEF FeedOf, Lockons
<1>2. r = r3 /\ copies' = r.copies /\ windows' = wins /\ nextWindow' = next /\ now' = now
  BY DEF FeedOf, Loop, FeedEffect
<1>3. /\ wins \subseteq windows \cup {[id |-> nextWindow, bin |-> f, first |-> now]}
      /\ \A v \in wins : v.id < next
      /\ \A v, u \in wins : v.id = u.id => v = u
      /\ \A v \in wins : v.id = w => v.bin = f /\ v.first = now
      /\ w = next - 1 /\ next \in Nat /\ next >= nextWindow
  BY <1>1, FeedNumbered
<1>4. OwnWindow(rd, wins) /\ last \in Int /\ rd.window <= last
  BY <1>1, <1>3 DEF OwnWindow
<1>5. LoopStart \in LoopState /\ Agree(LoopStart.seen, LoopStart.copies)
      /\ LoopStart.copies \subseteq copies
  <2>1. FreshCopies \subseteq copies
    BY DEF FreshCopies
  <2> QED
    BY <2>1, LoopStartIs
<1>6. Single(LoopStart.copies, wins)
  <2>1. \A c \in copies : c.window \in Nat /\ c.window < nextWindow
    BY DEF Numbered, Dated, TypeOK, Copy
  <2>2. nextWindow \in Nat
    BY DEF TypeOK
  <2>3. \A c \in copies, v \in wins : v.id = c.window => v \in windows
    <3> DEFINE new == [id |-> nextWindow, bin |-> f, first |-> now]
    <3>1. new.id = nextWindow /\ wins \subseteq windows \cup {new}
      BY <1>3
    <3> HIDE DEF new, wins
    <3> QED
      BY <2>1, <2>2, <3>1
  <2> HIDE DEF wins
  <2> QED
    BY <1>5, <2>3 DEF OneTransmissionOneCopy, Single
<1>7. Dated(LoopStart.copies, last, rd.time)
  <2>1. \A c \in copies : c.window \in Nat /\ c.window <= nextWindow - 1 /\ c.time <= now
    BY DEF Numbered, Dated, TypeOK, Copy
  <2>2. nextWindow \in Nat
    BY DEF TypeOK
  <2> HIDE DEF next
  <2> QED
    BY <1>1, <1>3, <1>5, <2>1, <2>2 DEF Dated
<1>14. Stationed(LoopStart.copies, hs, rd.time)
  <2>1. heard \subseteq hs
    OBVIOUS
  <2> HIDE DEF hs
  <2> QED
    BY <1>1, <2>1, StartStationed
<1>15. hs \in SUBSET HeardReading /\ Earshot(hs) /\ HeardOf(calls, rd) \subseteq hs
  <2>1. heard' = hs
    BY DEF FeedOf
  <2>2. heard' \subseteq HeardReading
    BY FeedSited DEF Sited
  <2> QED
    BY <2>1, <2>2 DEF InEarshot
<1> HIDE DEF wins, next, owned, calls, last, hs
<1>8. Good(r1)
  BY <1>1, <1>4, <1>5, <1>6, <1>7, <1>14, <1>15, CountCallSingle
<1> HIDE DEF r1
<1>9. Good(r2)
  BY <1>1, <1>4, <1>8, <1>15, CountCallSingle
<1> HIDE DEF r2
<1>10. Good(r3)
  BY <1>1, <1>4, <1>9, <1>15, CountCallSingle
<1> HIDE DEF r3
<1>11. Numbered'
  BY <1>1, <1>2, <1>3, <1>10 DEF Numbered, last
<1> QED
  BY <1>2, <1>10, <1>11 DEF OneTransmissionOneCopy, Single

\* Every reachable state holds its windows in order and one copy a transmission.
LEMMA Singled ==
  Spec => [](InEarshot => Numbered /\ OneTransmissionOneCopy)
<1> DEFINE Inv == Numbered /\ OneTransmissionOneCopy
<1>1. Init => Inv
  BY DEF Init, Numbered, OneTransmissionOneCopy, Dated
<1>2. IInv /\ Sited /\ (InEarshot => Inv) /\ [Next]_vars => (InEarshot => Inv)'
  <2> SUFFICES ASSUME IInv, Sited, InEarshot => Inv, [Next]_vars, InEarshot'
               PROVE  Numbered' /\ OneTransmissionOneCopy'
    OBVIOUS
  <2>0. (Numbered /\ OneTransmissionOneCopy) \/ Stop \/ Crash
    BY StayInEarshot
  <2>4. CASE Stop \/ Crash
    BY <2>4 DEF Stop, Crash, Down, Numbered, Dated, OneTransmissionOneCopy
  <2>1. CASE Decode
    <3>1. PICK f \in Freqs, text \in Texts, snr \in Snrs : Feed(f, text, snr)
      BY <2>1 DEF Decode
    <3>2. TypeOK /\ SeenMatchesCopies
      BY DEF IInv
    <3>3. PICK w, rd, lk, r : FeedOf(f, w, rd, lk, r)
      BY <3>1, <3>2, FeedIs
    <3> QED
      BY <2>0, <2>4, <3>2, <3>3, FeedSingle
  <2>2. CASE Tick
    <3>1. \A c \in copies : c.time \in Int
      BY DEF IInv, TypeOK, Copy
    <3>2. now \in Nat /\ now' = now + 1 /\ UNCHANGED <<copies, windows, nextWindow>>
      BY <2>2 DEF Tick, rule, IInv, TypeOK
    <3> QED
      BY <2>0, <2>4, <3>1, <3>2 DEF Numbered, Dated, OneTransmissionOneCopy
  <2>3. CASE Save \/ Start \/ UNCHANGED vars
    <3>1. UNCHANGED <<now, copies, windows, nextWindow>>
      BY <2>3 DEF Save, Start, vars, rule
    <3> QED
      BY <2>0, <2>4, <3>1 DEF Numbered, Dated, OneTransmissionOneCopy
  <2> QED
    BY <2>1, <2>2, <2>3, <2>4 DEF Next
<1> QED
  BY <1>1, <1>2, Sites, PTL DEF Spec

\* On any grid of bins: as long as no chain of bins has read one call further than
\* NEAR, two bins never hold a copy each of one transmission.  Each text is compared
\* with the copies the other bins took, and moving a copy to a stronger bin brings it
\* near no copy it was not near before.
THEOREM OneCopy == Spec => [](InEarshot => OneTransmissionOneCopy)
BY Singled, PTL

-----------------------------------------------------------------------------
(* Copies and the readings they were taken from.                           *)

\* Every copy was read: its call, in its window and at its time, by a bin near it.
Witnessed(cs, hs) ==
  \A c \in cs : \E h \in hs : /\ h.call = c.call /\ h.window = c.window /\ h.nth = c.nth
                              /\ h.time = c.time /\ Near(h.bin, c.freq)

\* A copy that is added or moved rests on the reading it was taken from.
LEMMA AddCopyWitnessed ==
  ASSUME NEW r \in LoopState, NEW rd \in Reading, NEW call \in Calls,
         NEW nth \in Nat, NEW wins, NEW hs \in SUBSET HeardReading,
         Witnessed(r.copies, hs), IsFiniteSet(r.copies), Earshot(hs),
         Stationed(r.copies, hs, rd.time),
         \E h \in hs : /\ h.call = call /\ h.window = rd.window /\ h.nth = nth
                       /\ h.bin = rd.freq /\ h.time = rd.time
  PROVE  LET q == AddCopy(r, rd, call, nth, wins)
         IN Witnessed(q.copies, hs) /\ IsFiniteSet(q.copies)
<1> DEFINE q == AddCopy(r, rd, call, nth, wins)
           same == SameAudio(r, rd, call, wins)
           B == Bins(hs, call, rd.time)
<1>0. /\ B \subseteq Freqs /\ rd.freq \in B
      /\ \A c \in r.copies : c.time <= rd.time
      /\ \A c \in r.copies : c.call = call => c.freq \in B
      /\ \A c \in r.copies, h \in hs : /\ c.call = call /\ h.call = call
                                       /\ c.time <= h.time /\ h.time <= rd.time
                                       => h.bin \in B
      /\ \A f, g, k \in B : Near(f, g) /\ Near(g, k) => Near(f, k)
  <2>1. r.copies \in SUBSET Copy /\ HeardNow(hs, rd, call)
    BY DEF LoopState, HeardNow
  <2> QED
    BY <2>1, Within
<1> HIDE DEF B
<1>1. r.copies \in SUBSET Copy /\ rd.freq \in Freqs
  BY DEF LoopState, Reading
<1>2. CASE q.copies = r.copies
  BY <1>2
<1>3. ASSUME NEW c \in same, NEW moved \in Copy, moved = [c EXCEPT !.freq = rd.freq, !.snr = rd.snr],
             q.copies = (r.copies \ {c}) \cup {moved}
      PROVE  Witnessed(q.copies, hs) /\ IsFiniteSet(q.copies)
  <2>1. c \in r.copies /\ c \in Copy /\ c.call = call /\ Near(c.freq, rd.freq)
    BY <1>1 DEF SameAudio, CopiesOf
  <2>2. /\ moved.call = c.call /\ moved.window = c.window /\ moved.nth = c.nth
        /\ moved.freq = rd.freq /\ moved.time = c.time
    BY <1>3, <2>1 DEF Copy
  <2>3. PICK h \in hs : /\ h.call = c.call /\ h.window = c.window /\ h.nth = c.nth
                        /\ h.time = c.time /\ Near(h.bin, c.freq)
    BY <2>1 DEF Witnessed
  <2>4. Near(h.bin, rd.freq)
    <3>1. c.time \in Int /\ h.time = c.time /\ c.time <= rd.time
      BY <1>0, <2>1, <2>3 DEF Copy
    <3>2. h.bin \in B /\ c.freq \in B
      BY <1>0, <2>1, <2>3, <3>1
    <3> QED
      BY <1>0, <2>1, <2>3, <3>2
  <2>5. IsFiniteSet(r.copies \ {c})
    <3>1. (r.copies \ {c}) \subseteq r.copies
      OBVIOUS
    <3> QED
      BY <3>1, FS_Subset
  <2> HIDE DEF q
  <2>6. IsFiniteSet((r.copies \ {c}) \cup {moved})
    BY <2>5, FS_AddElement
  <2>7. Witnessed(q.copies, hs)
    BY <1>3, <2>2, <2>3, <2>4 DEF Witnessed
  <2> QED
    BY <1>3, <2>6, <2>7
<1>4. ASSUME NEW added \in Copy, q.copies = r.copies \cup {added},
             added = [time |-> rd.time, window |-> rd.window, call |-> call,
                      freq |-> rd.freq, snr |-> rd.snr, nth |-> nth]
      PROVE  Witnessed(q.copies, hs) /\ IsFiniteSet(q.copies)
  <2>1. Near(rd.freq, rd.freq)
    BY <1>1, NearSelf
  <2>2. /\ added.call = call /\ added.window = rd.window /\ added.nth = nth
        /\ added.freq = rd.freq /\ added.time = rd.time
    BY <1>4
  <2> HIDE DEF q
  <2>3. IsFiniteSet(q.copies)
    BY <1>4, FS_AddElement
  <2>4. Witnessed(q.copies, hs)
    BY <1>4, <2>1, <2>2 DEF Witnessed
  <2> QED
    BY <2>3, <2>4
<1>5. Adds(q.copies, r.copies, same, rd, call, nth)
  BY AddCopyCases
<1> HIDE DEF q, same
<1>6. Witnessed(q.copies, hs) /\ IsFiniteSet(q.copies)
  BY <1>2, <1>3, <1>4, <1>5 DEF Adds
<1> QED
  BY <1>6 DEF q

\* So do all the copies of a call that is counted.
LEMMA CountCallWitnessed ==
  ASSUME NEW r \in LoopState, NEW rd \in Reading, NEW calls \in Seq(Calls),
         NEW i \in Nat \ {0}, NEW owned, NEW wins, NEW hs \in SUBSET HeardReading,
         HeardOf(calls, rd) \subseteq hs,
         Witnessed(r.copies, hs), IsFiniteSet(r.copies), Agree(r.seen, r.copies),
         Earshot(hs), Stationed(r.copies, hs, rd.time)
  PROVE  LET q == CountCall(r, rd, calls, i, owned, wins)
         IN /\ q \in LoopState /\ Agree(q.seen, q.copies)
            /\ Witnessed(q.copies, hs) /\ IsFiniteSet(q.copies)
            /\ Stationed(q.copies, hs, rd.time)
<1> DEFINE q == CountCall(r, rd, calls, i, owned, wins)
           added == Added(r, rd, calls, i, wins)
           Good(s) == /\ s \in LoopState /\ Agree(s.seen, s.copies)
                      /\ Witnessed(s.copies, hs) /\ IsFiniteSet(s.copies)
                      /\ Stationed(s.copies, hs, rd.time)
<1>1. CASE q = r
  BY <1>1
<1>2. ASSUME i \in 1..Len(calls), calls[i] \in Calls, \A j \in 1..(i - 1) : calls[j] # calls[i],
             q = Decide(added, rd, calls[i], owned)
      PROVE  Good(q)
  <2> DEFINE once == AddCopy(r, rd, calls[i], 0, wins)
             twice == AddCopy(once, rd, calls[i], 1, wins)
             again == \E j \in (i + 1)..Len(calls) : calls[j] = calls[i]
  <2>0. HeardNow(hs, rd, calls[i])
    BY <1>2, CallsHeard DEF HeardNow
  <2>1. Good(once)
    <3>1. \E h \in hs : /\ h.call = calls[i] /\ h.window = rd.window /\ h.nth = 0
                        /\ h.bin = rd.freq /\ h.time = rd.time
      <4>1. PICK h \in HeardOf(calls, rd) :
              /\ h.call = calls[i] /\ h.window = rd.window /\ h.nth = 0
              /\ h.bin = rd.freq /\ h.time = rd.time
        BY <1>2, GroupsHeard
      <4> QED
        BY <4>1
    <3>2. /\ once \in LoopState /\ Agree(once.seen, once.copies)
          /\ Stationed(once.copies, hs, rd.time)
      BY <1>2, <2>0, AddCopyEffect, AddCopyStationed
    <3>3. Witnessed(once.copies, hs) /\ IsFiniteSet(once.copies)
      BY <1>2, <3>1, AddCopyWitnessed, Zenon
    <3> QED
      BY <3>2, <3>3
  <2>2. ASSUME again PROVE Good(twice)
    <3>1. \E h \in hs : /\ h.call = calls[i] /\ h.window = rd.window /\ h.nth = 1
                        /\ h.bin = rd.freq /\ h.time = rd.time
      <4>1. PICK h \in HeardOf(calls, rd) :
              /\ h.call = calls[i] /\ h.window = rd.window /\ h.nth = 1
              /\ h.bin = rd.freq /\ h.time = rd.time
        BY <1>2, <2>2, GroupsHeard
      <4> QED
        BY <4>1
    <3> HIDE DEF once
    <3>2. /\ twice \in LoopState /\ Agree(twice.seen, twice.copies)
          /\ Stationed(twice.copies, hs, rd.time)
      BY <1>2, <2>0, <2>1, AddCopyEffect, AddCopyStationed
    <3>3. Witnessed(twice.copies, hs) /\ IsFiniteSet(twice.copies)
      BY <1>2, <2>1, <3>1, AddCopyWitnessed, Zenon
    <3> QED
      BY <3>2, <3>3
  <2>3. added = once \/ (again /\ added = twice)
    BY DEF Added
  <2> HIDE DEF added, q, once, twice
  <2> QED
    BY <1>2, <2>1, <2>2, <2>3, DecideKeeps
<1>3. \/ q = r
      \/ /\ i \in 1..Len(calls) /\ calls[i] \in Calls /\ \A j \in 1..(i - 1) : calls[j] # calls[i]
         /\ q = Decide(added, rd, calls[i], owned)
  BY CountCallIs
<1> HIDE DEF q, added
<1>4. Good(q)
  BY <1>1, <1>2, <1>3
<1> QED
  BY <1>4 DEF q

\* What is heard is typed and finite, and so is what is copied from it.
Evidence ==
  /\ heard \subseteq HeardReading /\ IsFiniteSet(heard)
  /\ Witnessed(copies, heard) /\ IsFiniteSet(copies)

\* A feed leaves every copy its reading.
LEMMA FeedEvidence ==
  ASSUME InEarshot', TypeOK, SeenMatchesCopies, Sited, Evidence,
         NEW f \in Freqs, NEW w, NEW rd, NEW lk, NEW r, FeedOf(f, w, rd, lk, r)
  PROVE  Evidence'
<1> DEFINE wins == WindowsWith(w, f)
           owned == OwnedAt(f)
           calls == lk.calls
           hs == heard \cup HeardOf(calls, rd)
           r1 == CountCall(LoopStart, rd, calls, 1, owned, wins)
           r2 == CountCall(r1, rd, calls, 2, owned, wins)
           r3 == CountCall(r2, rd, calls, 3, owned, wins)
           Good(s) == /\ s \in LoopState /\ Agree(s.seen, s.copies)
                      /\ Witnessed(s.copies, hs) /\ IsFiniteSet(s.copies)
                      /\ Stationed(s.copies, hs, rd.time)
<1>1. rd \in Reading /\ calls \in Seq(Calls) /\ rd.time = now
  BY DEF FeedOf, Lockons
<1>2. r = r3 /\ copies' = r.copies /\ heard' = hs
  BY DEF FeedOf, Loop, FeedEffect
<1>3. hs \in SUBSET HeardReading /\ IsFiniteSet(hs) /\ Earshot(hs)
  <2>1. hs \in SUBSET HeardReading /\ IsFiniteSet(hs)
    BY <1>1, HeardTyped, FS_Union DEF Evidence
  <2>2. Earshot(heard')
    BY DEF InEarshot
  <2> HIDE DEF hs
  <2> QED
    BY <1>2, <2>1, <2>2
<1>4. Good(LoopStart)
  <2>1. FreshCopies \subseteq copies
    BY DEF FreshCopies
  <2>2. IsFiniteSet(FreshCopies)
    BY <2>1, FS_Subset DEF Evidence
  <2>3. Witnessed(FreshCopies, hs)
    BY <2>1 DEF Evidence, Witnessed
  <2>4. Stationed(LoopStart.copies, hs, rd.time)
    <3>1. heard \subseteq hs
      OBVIOUS
    <3> HIDE DEF hs
    <3> QED
      BY <1>1, <3>1, StartStationed
  <2> QED
    BY <2>2, <2>3, <2>4, LoopStartIs
<1>5. HeardOf(calls, rd) \subseteq hs
  OBVIOUS
<1> HIDE DEF wins, owned, calls, hs
<1>0. 1 \in Nat \ {0} /\ 2 \in Nat \ {0} /\ 3 \in Nat \ {0}
  OBVIOUS
<1>6. Good(r1)
  BY <1>0, <1>1, <1>3, <1>4, <1>5, CountCallWitnessed, Zenon
<1> HIDE DEF r1
<1>7. Good(r2)
  BY <1>0, <1>1, <1>3, <1>5, <1>6, CountCallWitnessed, Zenon
<1> HIDE DEF r2
<1>8. Good(r3)
  BY <1>0, <1>1, <1>3, <1>5, <1>7, CountCallWitnessed, Zenon
<1> HIDE DEF r3
<1> QED
  BY <1>2, <1>3, <1>8 DEF Evidence

\* The evidence rests on nothing but the feeds.
LEMMA NextEvidence ==
  ASSUME InEarshot', IInv, Sited, InEarshot => Evidence, [Next]_vars
  PROVE  Evidence'
<1>0. Evidence \/ Stop \/ Crash
  BY StayInEarshot
<1>3. CASE Stop \/ Crash
  <2>1. copies' = {} /\ heard' = {}
    BY <1>3 DEF Stop, Crash, Down
  <2> QED
    BY <2>1, FS_EmptySet DEF Evidence, Witnessed
<1>1. CASE Decode
  <2>1. PICK f \in Freqs, text \in Texts, snr \in Snrs : Feed(f, text, snr)
    BY <1>1 DEF Decode
  <2>2. TypeOK /\ SeenMatchesCopies
    BY DEF IInv
  <2>3. PICK w, rd, lk, r : FeedOf(f, w, rd, lk, r)
    BY <2>1, <2>2, FeedIs
  <2> QED
    BY <1>0, <1>3, <2>2, <2>3, FeedEvidence
<1>2. CASE Tick \/ Save \/ Start \/ UNCHANGED vars
  <2>1. UNCHANGED <<copies, heard>>
    BY <1>2 DEF Tick, Save, Start, vars, rule
  <2> QED
    BY <1>0, <1>3, <2>1 DEF Evidence
<1> QED
  BY <1>1, <1>2, <1>3 DEF Next

\* At first there is nothing to read.
LEMMA InitEvidence ==
  ASSUME Init
  PROVE  Evidence
BY FS_EmptySet DEF Init, Evidence, Witnessed

\* Every copy of every reachable state was read, by a bin near it.
LEMMA Evident == Spec => [](InEarshot => Evidence)
<1>1. Init => Evidence
  BY InitEvidence
<1>2. IInv /\ Sited /\ (InEarshot => Evidence) /\ [Next]_vars => (InEarshot => Evidence)'
  BY NextEvidence
<1> QED
  BY <1>1, <1>2, Sites, PTL DEF Spec

\* A count of finitely many copies is a number.
LEMMA CountTyped ==
  ASSUME NEW cs, IsFiniteSet(cs), NEW call, NEW f
  PROVE  Count(cs, call, f) \in Nat
<1>1. CopiesOf(cs, call, f) \subseteq cs
  BY DEF CopiesOf
<1>2. IsFiniteSet(CopiesOf(cs, call, f))
  BY <1>1, FS_Subset
<1> QED
  BY <1>2, FS_CardinalityType DEF Count

\* The copies of a call leave the spots alone.
LEMMA AddedEffect ==
  ASSUME NEW r \in LoopState, NEW rd \in Reading, NEW calls, NEW i, calls[i] \in Calls,
         NEW wins, Agree(r.seen, r.copies)
  PROVE  LET q == Added(r, rd, calls, i, wins)
         IN /\ q \in LoopState /\ Agree(q.seen, q.copies)
            /\ q.lastSpot = r.lastSpot /\ q.out = r.out
<1> DEFINE call == calls[i]
           once == AddCopy(r, rd, call, 0, wins)
           twice == AddCopy(once, rd, call, 1, wins)
           added == Added(r, rd, calls, i, wins)
           Good(q) == /\ q \in LoopState /\ Agree(q.seen, q.copies)
                      /\ q.lastSpot = r.lastSpot /\ q.out = r.out
<1>1. Good(once)
  BY AddCopyEffect
<1>2. Good(twice)
  <2>1. call \in Calls
    OBVIOUS
  <2> HIDE DEF once, call
  <2> QED
    BY <1>1, <2>1, AddCopyEffect
<1>3. added \in {once, twice}
  BY DEF Added
<1> HIDE DEF once, twice, added
<1>4. Good(added)
  BY <1>1, <1>2, <1>3
<1> QED
  BY <1>4 DEF added

\* A reading that names one call, in one group or more, decides once.
LEMMA OneCallLoop ==
  ASSUME NEW r, NEW rd, NEW calls \in Seq(Calls), NEW owned, NEW wins,
         \A i, j \in 1..Len(calls) : calls[i] = calls[j]
  PROVE  CountCall(CountCall(r, rd, calls, 2, owned, wins), rd, calls, 3, owned, wins) = r
<1>1. ASSUME NEW i \in {2, 3}, NEW q
      PROVE  CountCall(q, rd, calls, i, owned, wins) = q
  <2>1. CASE i > Len(calls)
    BY <2>1 DEF CountCall
  <2>2. CASE i <= Len(calls)
    <3>1. 1 \in 1..(i - 1) /\ 1 \in 1..Len(calls) /\ i \in 1..Len(calls)
      BY <2>2
    <3>2. calls[1] = calls[i]
      BY <3>1
    <3> QED
      BY <3>1, <3>2 DEF CountCall
  <2> QED
    BY <2>1, <2>2
<1> QED
  BY <1>1

\* A feed of a text that names one call decides once, on the copies it leaves.
LEMMA FeedLone ==
  ASSUME TypeOK, SeenMatchesCopies,
         NEW f \in Freqs, NEW w, NEW rd, NEW lk, NEW r, FeedOf(f, w, rd, lk, r),
         \A i, j \in 1..Len(lk.calls) : lk.calls[i] = lk.calls[j]
  PROVE  \/ lk.calls = <<>> /\ r.out = {}
         \/ \E q \in LoopState : /\ lk.calls[1] \in Calls /\ 1 \in 1..Len(lk.calls)
                                 /\ q.lastSpot = FreshSpots /\ q.out = {}
                                 /\ r = Decide(q, rd, lk.calls[1], OwnedAt(f))
<1> DEFINE wins == WindowsWith(w, f)
           owned == OwnedAt(f)
           calls == lk.calls
           added == Added(LoopStart, rd, calls, 1, wins)
           r1 == CountCall(LoopStart, rd, calls, 1, owned, wins)
<1>1. rd \in Reading /\ calls \in Seq(Calls)
  BY DEF FeedOf, Lockons
<1>2. r = r1
  <2>1. r = CountCall(CountCall(r1, rd, calls, 2, owned, wins), rd, calls, 3, owned, wins)
    BY DEF FeedOf, Loop
  <2> HIDE DEF r1, owned, wins
  <2> QED
    BY <1>1, <2>1, OneCallLoop
<1>3. /\ LoopStart \in LoopState /\ Agree(LoopStart.seen, LoopStart.copies)
      /\ LoopStart.out = {} /\ LoopStart.lastSpot = FreshSpots
  BY LoopStartIs
<1>4. CASE calls = <<>>
  <2>1. r1 = LoopStart
    BY <1>4 DEF CountCall
  <2> QED
    BY <1>2, <1>3, <1>4, <2>1
<1>5. CASE calls # <<>>
  <2>1. 1 \in 1..Len(calls) /\ calls[1] \in Calls
    BY <1>1, <1>5
  <2>2. r1 = Decide(added, rd, calls[1], owned)
    BY <2>1 DEF CountCall, Added
  <2> HIDE DEF calls, wins, owned, r1
  <2>3. added \in LoopState /\ added.lastSpot = FreshSpots /\ added.out = {}
    BY <1>1, <1>3, <2>1, AddedEffect
  <2> HIDE DEF added
  <2> QED
    BY <1>2, <2>1, <2>2, <2>3 DEF calls, owned
<1> QED
  BY <1>4, <1>5

-----------------------------------------------------------------------------
(* Takeovers.                                                              *)

\* Who has just been given a frequency is its owner.
LEMMA OwnedNow ==
  ASSUME NEW os \in SUBSET Owner, NEW call \in Calls, NEW f \in Freqs, NEW t \in Int,
         NEW idle \in Nat
  PROVE  OwnerOf(Own(os, call, f, t), f, t, idle) = call
<1> DEFINE new == [call |-> call, freq |-> f, last |-> t]
           now_ == Own(os, call, f, t)
<1>1. new \in Owner /\ new.call = call /\ new.freq = f /\ new.last = t
  BY DEF Owner
<1>2. \A o \in now_ : o = new \/ (o \in os /\ Abs(o.freq - f) > CELL)
  BY DEF Own
<1>3. new \in now_
  BY DEF Own
<1> HIDE DEF new, now_
<1>4. now_ \in SUBSET Owner
  BY <1>1, <1>2
<1>5. Abs(f - f) = 0 /\ Near(f, f) /\ t - t <= idle /\ CELL \in Nat
  <2>1. f \in Nat /\ NEAR \in Nat /\ CELL \in Nat
    BY SpotRuleAssumption
  <2> QED
    BY <2>1 DEF Near, Abs
<1>6. new \in LiveOwners(now_, f, t, idle)
  BY <1>1, <1>3, <1>5 DEF LiveOwners
<1>7. PICK o \in LiveOwners(now_, f, t, idle) :
        /\ OwnerOf(now_, f, t, idle) = o.call
        /\ \A p \in LiveOwners(now_, f, t, idle) :
             \/ Abs(o.freq - f) < Abs(p.freq - f)
             \/ Abs(o.freq - f) = Abs(p.freq - f) /\ o.last <= p.last
  BY <1>4, <1>6, OwnerIs
<1>8. o \in now_ /\ (Abs(o.freq - f) < 0 \/ Abs(o.freq - f) = 0)
  BY <1>1, <1>5, <1>6, <1>7 DEF LiveOwners
<1>9. ~(Abs(o.freq - f) > CELL)
  <2>1. o.freq \in Nat /\ f \in Nat
    BY <1>4, <1>8, SpotRuleAssumption DEF Owner
  <2>2. Abs(o.freq - f) \in Int
    BY <2>1 DEF Abs
  <2> HIDE DEF now_
  <2> QED
    BY <1>5, <1>8, <2>2
<1>10. o = new
  BY <1>2, <1>8, <1>9
<1> QED
  BY <1>1, <1>7, <1>10 DEF now_

\* A group gives its call the frequency when nobody has it, when the call has it
\* already, or when the call has its copies.
LEMMA GroupOwns ==
  ASSUME NEW lk, NEW rd, NEW cs, NEW i, NEW owner,
         owner = OwnerOf(lk.owners, rd.freq, rd.time, TAKEOVER_IDLE_S)
  PROVE  LET call == rd.text.groups[i].call
             q == ReadGroup(lk, rd, cs, i)
         IN \/ q = lk
            \/ i \in DOMAIN rd.text.groups /\ q = Counts(lk, call)
            \/ /\ i \in DOMAIN rd.text.groups /\ q = CountsAndOwns(lk, rd, call)
               /\ owner = None \/ owner = call \/ Enough(cs, call, rd.freq)
BY DEF ReadGroup

\* The frequency of a reading has the owner it had, or one who has earned it.
Deserves(call, os, rd, cs) ==
  \/ OwnerOf(os, rd.freq, rd.time, TAKEOVER_IDLE_S) \in {None, call}
  \/ Enough(cs, call, rd.freq)

Earned(lk, os, rd, cs) ==
  \/ lk.owners = os
  \/ \E call \in Calls :
       /\ \E qs \in SUBSET Owner : lk.owners = Own(qs, call, rd.freq, rd.time)
       /\ lk.owners \subseteq os \cup {[call |-> call, freq |-> rd.freq, last |-> rd.time]}
       /\ \E j \in 1..Len(lk.calls) : lk.calls[j] = call
       /\ Deserves(call, os, rd, cs)

\* Giving the frequency to one more call leaves no trace of who got it before.
LEMMA OwnEarned ==
  ASSUME NEW lk \in Lockons, NEW os \in SUBSET Owner, NEW rd \in Reading, NEW cs,
         NEW call \in Calls, Earned(lk, os, rd, cs), Deserves(call, os, rd, cs)
  PROVE  Earned(CountsAndOwns(lk, rd, call), os, rd, cs)
<1> DEFINE q == CountsAndOwns(lk, rd, call)
           new(c) == [call |-> c, freq |-> rd.freq, last |-> rd.time]
           n == Len(lk.calls)
<1>1. q.calls = Append(lk.calls, call) /\ q.owners = Own(lk.owners, call, rd.freq, rd.time)
  BY DEF CountsAndOwns
<1>2. lk.calls \in Seq(Calls) /\ lk.owners \in SUBSET Owner /\ rd.freq \in Nat /\ CELL \in Nat
  BY SpotRuleAssumption DEF Lockons, Reading
<1>3. n + 1 \in 1..Len(q.calls) /\ q.calls[n + 1] = call
  BY <1>1, <1>2
<1>4. Abs(rd.freq - rd.freq) = 0 /\ ~(0 > CELL)
  BY <1>2 DEF Abs
<1>5. \A o \in q.owners : o = new(call) \/ (o \in lk.owners /\ Abs(o.freq - rd.freq) > CELL)
  BY <1>1 DEF Own
<1>6. \A c : new(c).freq = rd.freq
  OBVIOUS
<1> HIDE DEF q, new, n
<1>7. q.owners \subseteq os \cup {new(call)}
  <2>1. CASE lk.owners = os
    BY <1>5, <2>1
  <2>2. ASSUME NEW c \in Calls, lk.owners \subseteq os \cup {new(c)}
        PROVE  q.owners \subseteq os \cup {new(call)}
    BY <1>4, <1>5, <1>6, <2>2
  <2> QED
    BY <2>1, <2>2 DEF Earned, new
<1>8. \E qs \in SUBSET Owner : q.owners = Own(qs, call, rd.freq, rd.time)
  BY <1>1, <1>2
<1> QED
  BY <1>3, <1>7, <1>8 DEF Earned, q, new

\* Each group a text is read for takes a frequency only from none, or with enough copies.
LEMMA ReadGroupEarned ==
  ASSUME NEW lk \in Lockons, NEW os \in SUBSET Owner, NEW rd \in Reading, NEW cs, NEW i,
         Earned(lk, os, rd, cs)
  PROVE  Earned(ReadGroup(lk, rd, cs, i), os, rd, cs)
<1> DEFINE q == ReadGroup(lk, rd, cs, i)
           call == rd.text.groups[i].call
           owner == OwnerOf(lk.owners, rd.freq, rd.time, TAKEOVER_IDLE_S)
<1>1. CASE q = lk
  BY <1>1
<1>2. CASE i \in DOMAIN rd.text.groups /\ q = Counts(lk, call)
  <2>1. call \in Calls /\ lk.calls \in Seq(Calls)
    BY <1>2, GroupCall DEF Lockons
  <2>2. q.owners = lk.owners /\ q.calls = Append(lk.calls, call)
    BY <1>2 DEF Counts, Lockons
  <2>3. \A j \in 1..Len(lk.calls) : j \in 1..Len(q.calls) /\ q.calls[j] = lk.calls[j]
    BY <2>1, <2>2
  <2> HIDE DEF q, call
  <2> QED
    BY <2>2, <2>3 DEF Earned, q
<1>3. CASE /\ i \in DOMAIN rd.text.groups /\ q = CountsAndOwns(lk, rd, call)
           /\ owner = None \/ owner = call \/ Enough(cs, call, rd.freq)
  <2>1. call \in Calls /\ None \notin Calls
    BY <1>3, GroupCall, SpotRuleAssumption
  <2>2. Deserves(call, os, rd, cs)
    <3>1. CASE Enough(cs, call, rd.freq)
      BY <3>1 DEF Deserves
    <3>2. CASE owner \in {None, call} /\ lk.owners = os
      BY <3>2 DEF Deserves
    <3>3. ASSUME owner \in {None, call}, NEW c \in Calls, NEW qs \in SUBSET Owner,
                 lk.owners = Own(qs, c, rd.freq, rd.time), Deserves(c, os, rd, cs)
          PROVE  Deserves(call, os, rd, cs)
      <4>1. rd.freq \in Freqs /\ rd.time \in Int /\ TAKEOVER_IDLE_S \in Nat
        BY SpotRuleAssumption DEF Reading
      <4>2. owner = c
        BY <3>3, <4>1, OwnedNow
      <4> HIDE DEF owner, call
      <4> QED
        BY <2>1, <3>3, <4>2
    <3> HIDE DEF owner, call
    <3>4. owner \in {None, call} \/ Enough(cs, call, rd.freq)
      BY <1>3
    <3> QED
      BY <3>1, <3>2, <3>3, <3>4 DEF Earned
  <2> HIDE DEF call
  <2>3. Earned(CountsAndOwns(lk, rd, call), os, rd, cs)
    BY <2>1, <2>2, OwnEarned
  <2> QED
    BY <1>3, <2>3
<1>4. \/ q = lk
      \/ i \in DOMAIN rd.text.groups /\ q = Counts(lk, call)
      \/ /\ i \in DOMAIN rd.text.groups /\ q = CountsAndOwns(lk, rd, call)
         /\ owner = None \/ owner = call \/ Enough(cs, call, rd.freq)
  BY GroupOwns
<1> QED
  BY <1>1, <1>2, <1>3, <1>4

\* The shipped configuration: takeover_idle_s is not set, and an owner is idle for a
\* challenger when the lock is idle for himself.
TakeoverAsLock == TAKEOVER_IDLE_S = LOCK_IDLE_S

\* Then the reading as a whole takes no frequency more cheaply than its groups do.
LEMMA LockonEarned ==
  ASSUME TakeoverAsLock, NEW os \in SUBSET Owner, NEW rd \in Reading, NEW cs
  PROVE  Earned(LockonCalls(os, rd, cs), os, rd, cs)
<1> DEFINE lk0 == [owners |-> os, calls |-> <<>>]
           lk1 == ReadGroup(lk0, rd, cs, 1)
           lk2 == ReadGroup(lk1, rd, cs, 2)
           owner == OwnerOf(lk2.owners, rd.freq, rd.time, LOCK_IDLE_S)
           q == ReadSignOff(lk2, rd)
<1>1. lk0 \in Lockons /\ Earned(lk0, os, rd, cs)
  BY DEF Lockons, Earned
<1>2. lk1 \in Lockons /\ Earned(lk1, os, rd, cs)
  BY <1>1, ReadGroupTyped, ReadGroupEarned
<1>3. lk2 \in Lockons /\ Earned(lk2, os, rd, cs)
  BY <1>2, ReadGroupTyped, ReadGroupEarned
<1>4. LockonCalls(os, rd, cs) = q
  BY DEF LockonCalls
<1>5. \/ q = lk2
      \/ /\ owner \in rd.text.signs /\ q = CountsAndOwns(lk2, rd, owner)
         /\ \A j \in DOMAIN lk2.calls : lk2.calls[j] # owner
  BY DEF ReadSignOff
<1> HIDE DEF lk2, q
<1>6. CASE q = lk2
  BY <1>3, <1>4, <1>6
<1>7. CASE /\ owner \in rd.text.signs /\ q = CountsAndOwns(lk2, rd, owner)
           /\ \A j \in DOMAIN lk2.calls : lk2.calls[j] # owner
  <2>1. owner \in Calls
    <3>1. rd.text \in Texts
      BY DEF Reading
    <3> QED
      BY <1>7, <3>1, SpotRuleAssumption
  <2>2. lk2.owners = os
    <3> SUFFICES ASSUME lk2.owners # os PROVE FALSE
      OBVIOUS
    <3>1. PICK c \in Calls : /\ \E qs \in SUBSET Owner : lk2.owners = Own(qs, c, rd.freq, rd.time)
                             /\ \E j \in 1..Len(lk2.calls) : lk2.calls[j] = c
      BY <1>3 DEF Earned
    <3>2. rd.freq \in Freqs /\ rd.time \in Int /\ LOCK_IDLE_S \in Nat
      BY SpotRuleAssumption DEF Reading
    <3>3. owner = c
      BY <3>1, <3>2, OwnedNow
    <3>4. DOMAIN lk2.calls = 1..Len(lk2.calls)
      BY <1>3 DEF Lockons
    <3> QED
      BY <1>7, <3>1, <3>3, <3>4
  <2>3. Deserves(owner, os, rd, cs)
    BY <2>2 DEF Deserves, TakeoverAsLock
  <2> HIDE DEF owner
  <2> QED
    BY <1>3, <1>4, <1>7, <2>1, <2>3, OwnEarned
<1> QED
  BY <1>5, <1>6, <1>7

\* Copies of a call near a frequency were heard there, each in a reading of its own.
LEMMA HeardAsOften ==
  ASSUME TypeOK, SeenMatchesCopies, Evidence, NEW cs \in SUBSET copies,
         NEW rd \in Reading, NEW call \in Calls, NEW hs \in SUBSET HeardReading, IsFiniteSet(hs),
         heard \subseteq hs, Earshot(hs), HeardNow(hs, rd, call), Stationed(cs, hs, rd.time)
  PROVE  Count(cs, call, rd.freq) <= Cardinality({h \in hs : h.call = call /\ Near(h.bin, rd.freq)})
<1> DEFINE mine == CopiesOf(cs, call, rd.freq)
           here == {h \in hs : h.call = call /\ Near(h.bin, rd.freq)}
           of(c, h) == /\ h.call = c.call /\ h.window = c.window /\ h.nth = c.nth
                       /\ h.time = c.time /\ Near(h.bin, c.freq)
           reading == [c \in mine |-> CHOOSE h \in heard : of(c, h)]
           B == Bins(hs, call, rd.time)
<1>0. /\ rd.freq \in B
      /\ \A c \in cs : c.time <= rd.time
      /\ \A c \in cs : c.call = call => c.freq \in B
      /\ \A c \in cs, h \in hs : /\ c.call = call /\ h.call = call
                                 /\ c.time <= h.time /\ h.time <= rd.time
                                 => h.bin \in B
      /\ \A f, g, k \in B : Near(f, g) /\ Near(g, k) => Near(f, k)
  <2>1. cs \in SUBSET Copy
    BY DEF TypeOK
  <2> QED
    BY <2>1, Within
<1> HIDE DEF B
<1>1. \A c \in mine : c \in cs /\ c \in copies /\ c.call = call /\ Near(c.freq, rd.freq) /\ c.time \in Int
  BY DEF CopiesOf, TypeOK, Copy
<1>2. \A c \in mine : reading[c] \in heard /\ of(c, reading[c])
  <2> SUFFICES ASSUME NEW c \in mine PROVE reading[c] \in heard /\ of(c, reading[c])
    OBVIOUS
  <2>1. \E h \in heard : of(c, h)
    BY <1>1 DEF Evidence, Witnessed
  <2>2. reading[c] = CHOOSE h \in heard : of(c, h)
    OBVIOUS
  <2> HIDE DEF of, reading
  <2> QED
    BY <2>1, <2>2
<1> HIDE DEF mine, reading
<1>3. \A c \in mine : reading[c] \in here
  <2> SUFFICES ASSUME NEW c \in mine PROVE reading[c] \in here
    OBVIOUS
  <2>1. reading[c] \in hs /\ reading[c].call = call /\ reading[c].time = c.time
    BY <1>1, <1>2
  <2>2. c.time <= c.time /\ c.time <= rd.time
    BY <1>0, <1>1
  <2>3. reading[c].bin \in B /\ c.freq \in B
    BY <1>0, <1>1, <2>1, <2>2
  <2>4. Near(reading[c].bin, rd.freq)
    BY <1>0, <1>1, <1>2, <2>3
  <2> QED
    BY <2>1, <2>4
<1>4. \A c, d \in mine : reading[c] = reading[d] => c = d
  BY <1>1, <1>2 DEF SeenMatchesCopies
<1>5. reading \in Injection(mine, here)
  <2>1. reading \in [mine -> here]
    BY <1>3 DEF reading
  <2> HIDE DEF here
  <2> QED
    BY <1>4, <2>1, Fun_IsInj
<1>6. IsFiniteSet(here)
  <2>1. here \subseteq hs
    OBVIOUS
  <2> HIDE DEF here
  <2> QED
    BY <2>1, FS_Subset
<1>7. Cardinality(mine) <= Cardinality(here)
  <2> HIDE DEF here
  <2> QED
    BY <1>5, <1>6, FS_Injection
<1> QED
  BY <1>7 DEF mine, Count

\* A feed that gives a frequency to a new owner has heard him enough there.
LEMMA FeedEarned ==
  ASSUME InEarshot', TakeoverAsLock, TypeOK, SeenMatchesCopies, Sited, Evidence,
         NEW f \in Freqs, NEW w, NEW rd, NEW lk, NEW r, FeedOf(f, w, rd, lk, r),
         NEW o \in owners' \ owners,
         OwnerOf(owners, o.freq, now, TAKEOVER_IDLE_S) \notin {None, o.call}
  PROVE  Cardinality({h \in heard' : h.call = o.call /\ Near(h.bin, o.freq)}) >= Tier[o.call] - 1
<1>1. /\ rd \in Reading /\ rd.freq = f /\ rd.time = now /\ owners' = lk.owners
      /\ lk = LockonCalls(owners, rd, FreshCopies) /\ heard' = heard \cup HeardOf(lk.calls, rd)
  BY DEF FeedOf
<1>2. owners \in SUBSET Owner
  BY DEF TypeOK
<1>3. Earned(lk, owners, rd, FreshCopies)
  BY <1>1, <1>2, LockonEarned
<1>4. PICK call \in Calls :
        /\ lk.owners \subseteq owners \cup {[call |-> call, freq |-> rd.freq, last |-> rd.time]}
        /\ \E j \in 1..Len(lk.calls) : lk.calls[j] = call
        /\ Deserves(call, owners, rd, FreshCopies)
  BY <1>1, <1>3 DEF Earned
<1>5. o.call = call /\ o.freq = f
  BY <1>1, <1>4
<1>6. Enough(FreshCopies, call, f)
  BY <1>1, <1>4, <1>5 DEF Deserves
<1>7. IsFiniteSet(heard') /\ heard' \in SUBSET HeardReading /\ Earshot(heard')
  BY FeedSited DEF Sited, InEarshot
<1>8. FreshCopies \in SUBSET copies /\ heard \subseteq heard'
  BY <1>1 DEF FreshCopies
<1>9. Count(FreshCopies, call, f) <= Cardinality({h \in heard' : h.call = call /\ Near(h.bin, f)})
  <2>1. HeardNow(heard', rd, call)
    <3>1. lk.calls \in Seq(Calls)
      BY DEF FeedOf, Lockons
    <3> QED
      BY <1>1, <1>4, <3>1, CallsHeard DEF HeardNow
  <2>2. Stationed(FreshCopies, heard', now)
    BY <1>8, StartStationed, LoopStartIs
  <2>3. Stationed(FreshCopies, heard', rd.time)
    BY <1>1, <2>2
  <2>4. rd \in Reading /\ heard' \in SUBSET HeardReading /\ FreshCopies \in SUBSET copies
    BY <1>1, <1>7, <1>8
  <2>5. IsFiniteSet(heard') /\ Earshot(heard') /\ heard \subseteq heard'
    BY <1>7, <1>8
  <2>6. Count(FreshCopies, call, rd.freq)
        <= Cardinality({h \in heard' : h.call = call /\ Near(h.bin, rd.freq)})
    BY <2>1, <2>3, <2>4, <2>5, HeardAsOften, Zenon
  <2> QED
    BY <1>1, <2>6
<1>10. /\ Count(FreshCopies, call, f) \in Int /\ Tier[call] \in Int
       /\ Cardinality({h \in heard' : h.call = call /\ Near(h.bin, f)}) \in Int
  <2>1. IsFiniteSet(FreshCopies)
    BY <1>8, FS_Subset DEF Evidence
  <2>2. IsFiniteSet({h \in heard' : h.call = call /\ Near(h.bin, f)})
    <3>1. {h \in heard' : h.call = call /\ Near(h.bin, f)} \subseteq heard'
      OBVIOUS
    <3> QED
      BY <1>7, <3>1, FS_Subset
  <2>3. Tier[call] \in Nat
    BY SpotRuleAssumption
  <2> QED
    BY <2>1, <2>2, <2>3, CountTyped, FS_CardinalityType
<1> QED
  BY <1>5, <1>6, <1>9, <1>10 DEF Enough

\* No step takes a frequency from its owner on fewer readings.
LEMMA StepEarned ==
  ASSUME InEarshot', TakeoverAsLock, IInv, Sited, InEarshot => Evidence, [Next]_vars, ~UNCHANGED vars,
         NEW o \in owners' \ owners,
         OwnerOf(owners, o.freq, now, TAKEOVER_IDLE_S) \notin {None, o.call}
  PROVE  Cardinality({h \in heard' : h.call = o.call /\ Near(h.bin, o.freq)}) >= Tier[o.call] - 1
<1>0. Evidence \/ Stop \/ Crash
  BY StayInEarshot
<1>1. CASE Decode /\ Evidence
  <2>1. PICK f \in Freqs, text \in Texts, snr \in Snrs : Feed(f, text, snr)
    BY <1>1 DEF Decode
  <2>2. TypeOK /\ SeenMatchesCopies
    BY DEF IInv
  <2>3. PICK w, rd, lk, r : FeedOf(f, w, rd, lk, r)
    BY <2>1, <2>2, FeedIs
  <2> QED
    BY <1>1, <2>2, <2>3, FeedEarned
<1>2. CASE Tick \/ Save \/ Stop \/ Crash \/ Start
  BY <1>2 DEF Tick, Save, Stop, Crash, Start, Down, rule
<1> QED
  BY <1>0, <1>1, <1>2 DEF Next

\* On any grid of bins, and where an idle owner is idle for all: as long as no chain
\* of bins reads one call further than NEAR, no call takes a frequency from a live
\* owner on fewer readings than its tier asks for.
THEOREM TakeoversEarned ==
  ASSUME TakeoverAsLock
  PROVE  Spec => ([]InEarshot => TakeoverEarned)
<1>1. InEarshot' /\ IInv /\ Sited /\ (InEarshot => Evidence) /\ [Next]_vars =>
        [\A o \in owners' \ owners :
           LET before == OwnerOf(owners, o.freq, now, TAKEOVER_IDLE_S)
               heardHere == {h \in heard' : h.call = o.call /\ Near(h.bin, o.freq)}
           IN before \notin {None, o.call} => Cardinality(heardHere) >= Tier[o.call] - 1]_vars
  BY StepEarned
<1> QED
  BY <1>1, Sites, Evident, PTL DEF Spec, TakeoverEarned

-----------------------------------------------------------------------------
(* No reading is lost: each recent one has a copy, its own or that of the   *)
(* same transmission in another bin.                                       *)

Covers(c, h) ==
  /\ c.call = h.call /\ Near(c.freq, h.bin) /\ c.time <= h.time
  /\ (c.window = h.window /\ c.time = h.time) \/ h.time - c.time < WINDOW_S

Covered(cs, hs) == \A h \in hs : \E c \in cs : Covers(c, h)

\* For each reading of some, there is one of others by the same bin at the same time.
Echoed(hs, others) ==
  \A h \in hs : \E g \in others : g.call = h.call /\ g.bin = h.bin /\ g.time = h.time

\* A reading of a call in the window and at the time of rd.
IsReading(h, rd, call) ==
  h \in HeardReading /\ h.call = call /\ h.window = rd.window /\ h.bin = rd.freq /\ h.time = rd.time

\* Of the window of rd, everything heard was heard by its bin, at its time.
OneSitting(rd, hs) ==
  \A h \in hs : h.time <= rd.time /\ (h.window = rd.window => h.bin = rd.freq /\ h.time = rd.time)

\* Adding a copy takes none from under a reading, and puts one under its own.
LEMMA AddCopyCovers ==
  ASSUME NEW r \in LoopState, NEW rd \in Reading, NEW call \in Calls,
         NEW nth \in Nat, NEW wins, NEW hs \in SUBSET HeardReading, OneSitting(rd, hs),
         Agree(r.seen, r.copies), Witnessed(r.copies, hs),
         Earshot(hs), HeardNow(hs, rd, call), Stationed(r.copies, hs, rd.time),
         NEW old \in SUBSET HeardReading, Covered(r.copies, old), Echoed(old, hs)
  PROVE  LET q == AddCopy(r, rd, call, nth, wins)
         IN /\ Covered(q.copies, old)
            /\ \A h : IsReading(h, rd, call) => \E c \in q.copies : Covers(c, h)
<1> DEFINE q == AddCopy(r, rd, call, nth, wins)
           key == <<rd.window, call, nth>>
           same == SameAudio(r, rd, call, wins)
           d == First(same)
           moved == [d EXCEPT !.freq = rd.freq, !.snr = rd.snr]
           added == [time |-> rd.time, window |-> rd.window, call |-> call,
                     freq |-> rd.freq, snr |-> rd.snr, nth |-> nth]
           q1 == [r EXCEPT !.copies = (@ \ {d}) \cup {moved}]
           q2 == [r EXCEPT !.seen = @ \cup {key}, !.copies = @ \cup {added}]
           B == Bins(hs, call, rd.time)
<1>0. /\ B \subseteq Freqs /\ rd.freq \in B
      /\ \A c \in r.copies : c.time <= rd.time
      /\ \A c \in r.copies : c.call = call => c.freq \in B
      /\ \A c \in r.copies, h \in hs : /\ c.call = call /\ h.call = call
                                    /\ c.time <= h.time /\ h.time <= rd.time
                                    => h.bin \in B
      /\ \A f, g, k \in B : Near(f, g) /\ Near(g, k) => Near(f, k)
  <2>1. r.copies \in SUBSET Copy
    BY DEF LoopState
  <2> QED
    BY <2>1, Within
<1> HIDE DEF B
<1>1. r.copies \in SUBSET Copy /\ rd.freq \in Freqs /\ rd.time \in Int /\ rd.window \in Nat
  BY DEF LoopState, Reading
<1>2. \/ key \in r.seen /\ q = r
      \/ same # {} /\ q = q1
      \/ same # {} /\ q = r
      \/ q = q2
  BY DEF AddCopy
<1>3. q1.copies = (r.copies \ {d}) \cup {moved} /\ q2.copies = r.copies \cup {added}
  BY DEF LoopState
<1>4. same # {} => /\ d \in r.copies /\ d \in Copy /\ d.call = call /\ Near(d.freq, rd.freq)
                   /\ rd.time - d.time < WINDOW_S
  <2>1. same \in SUBSET Copy /\ same \subseteq r.copies
    BY <1>1 DEF SameAudio, CopiesOf
  <2>2. \A c \in same : c.call = call /\ Near(c.freq, rd.freq) /\ rd.time - c.time < WINDOW_S
    BY DEF SameAudio, CopiesOf
  <2> HIDE DEF same
  <2>3. same # {} => d \in same
    BY <2>1, FirstIn
  <2> HIDE DEF d
  <2> QED
    BY <2>1, <2>2, <2>3
<1>5. \A c \in r.copies : c.time <= rd.time /\ c.freq \in Freqs
  BY <1>1 DEF Witnessed, OneSitting, Copy
<1>6. same # {} => /\ moved.call = d.call /\ moved.window = d.window /\ moved.time = d.time
                   /\ moved.freq = rd.freq
  <2> HIDE DEF d, same
  <2> QED
    BY <1>4 DEF Copy
<1>7. /\ added.call = call /\ added.window = rd.window /\ added.time = rd.time
      /\ added.freq = rd.freq
  OBVIOUS
<1>8. Near(rd.freq, rd.freq)
  BY <1>1, NearSelf
<1>9. ASSUME key \in r.seen
      PROVE  \E c \in r.copies : /\ c.call = call /\ Near(c.freq, rd.freq)
                                 /\ c.window = rd.window /\ c.time = rd.time
  <2>1. PICK c \in r.copies : key = CopyKey(c)
    BY <1>9 DEF Agree
  <2>2. c.window = rd.window /\ c.call = call
    BY <2>1 DEF CopyKey
  <2>3. PICK h \in hs : h.window = c.window /\ h.time = c.time /\ Near(h.bin, c.freq)
    BY DEF Witnessed
  <2>4. h.bin = rd.freq /\ h.time = rd.time
    BY <2>2, <2>3 DEF OneSitting
  <2>5. Near(c.freq, rd.freq)
    BY <1>1, <1>5, <2>3, <2>4, NearSymmetric
  <2> QED
    BY <2>2, <2>3, <2>4, <2>5
<1> HIDE DEF q, q1, q2, key, same, d, moved, added
<1>10. Covered(q.copies, old)
  <2> SUFFICES ASSUME NEW h \in old PROVE \E c \in q.copies : Covers(c, h)
    BY DEF Covered
  <2>1. PICK c \in r.copies : Covers(c, h)
    BY DEF Covered
  <2>2. CASE c \in q.copies
    BY <2>1, <2>2
  <2>3. CASE c \notin q.copies
    <3>1. same # {} /\ q = q1 /\ c = d
      BY <1>2, <1>3, <2>3
    <3>2. Near(rd.freq, d.freq) /\ h.bin \in Freqs
      BY <1>1, <1>4, <1>5, <3>1, NearSymmetric DEF HeardReading
    <3>3. Near(rd.freq, h.bin)
      <4>1. PICK g \in hs : g.call = h.call /\ g.bin = h.bin /\ g.time = h.time
        BY DEF Echoed
      <4>2. d \in r.copies /\ d.call = call /\ h.call = call /\ d.time <= g.time /\ g.time <= rd.time
        BY <1>4, <2>1, <3>1, <4>1 DEF Covers, OneSitting
      <4>3. d.freq \in B /\ h.bin \in B
        BY <1>0, <4>1, <4>2
      <4> QED
        BY <1>0, <2>1, <3>1, <3>2, <4>3 DEF Covers
    <3>4. Covers(moved, h)
      BY <1>6, <2>1, <3>1, <3>3 DEF Covers
    <3> QED
      BY <1>3, <3>1, <3>4
  <2> QED
    BY <2>2, <2>3
<1>11. ASSUME NEW h, IsReading(h, rd, call)
       PROVE  \E c \in q.copies : Covers(c, h)
  <2>1. h.call = call /\ h.window = rd.window /\ h.bin = rd.freq /\ h.time = rd.time
    BY <1>11 DEF IsReading
  <2>2. CASE key \in r.seen /\ q = r
    BY <1>1, <1>9, <2>1, <2>2 DEF Covers
  <2>3. CASE same # {} /\ q = q1
    <3>1. Covers(moved, h)
      BY <1>4, <1>5, <1>6, <1>8, <2>1, <2>3 DEF Covers
    <3> QED
      BY <1>3, <2>3, <3>1
  <2>4. CASE same # {} /\ q = r
    <3>1. Covers(d, h)
      BY <1>4, <1>5, <2>1, <2>4 DEF Covers
    <3> QED
      BY <1>4, <2>4, <3>1
  <2>5. CASE q = q2
    <3>1. Covers(added, h)
      BY <1>1, <1>7, <1>8, <2>1 DEF Covers
    <3> QED
      BY <1>3, <2>5, <3>1
  <2> QED
    BY <1>2, <2>2, <2>3, <2>4, <2>5
<1> QED
  BY <1>10, <1>11 DEF q

\* The readings of the first i calls of a text.
ReadBy(rd, calls, i) ==
  {h \in HeardReading : \E j \in 1..Len(calls) : j <= i /\ IsReading(h, rd, calls[j])}

\* Each of them is echoed in what is heard of the text.
LEMMA ReadEchoed ==
  ASSUME NEW rd \in Reading, NEW calls \in Seq(Calls), NEW i, NEW hs,
         HeardOf(calls, rd) \subseteq hs
  PROVE  Echoed(ReadBy(rd, calls, i), hs)
<1> SUFFICES ASSUME NEW h \in ReadBy(rd, calls, i)
             PROVE  \E g \in hs : g.call = h.call /\ g.bin = h.bin /\ g.time = h.time
  BY DEF Echoed
<1>1. PICK j \in 1..Len(calls) : IsReading(h, rd, calls[j])
  BY DEF ReadBy
<1>2. \E g \in HeardOf(calls, rd) : g.call = calls[j] /\ g.bin = rd.freq /\ g.time = rd.time
  BY CallsHeard
<1> QED
  BY <1>1, <1>2 DEF IsReading

\* Counting a call takes no copy from under a reading, and puts one under its own.
LEMMA CountCallCovers ==
  ASSUME NEW r \in LoopState, NEW rd \in Reading, NEW calls \in Seq(Calls),
         NEW i \in Nat \ {0}, NEW owned, NEW wins, NEW hs \in SUBSET HeardReading,
         HeardOf(calls, rd) \subseteq hs, OneSitting(rd, hs),
         Witnessed(r.copies, hs), IsFiniteSet(r.copies), Agree(r.seen, r.copies),
         Earshot(hs), Stationed(r.copies, hs, rd.time),
         NEW old \in SUBSET HeardReading, Echoed(old, hs),
         Covered(r.copies, old \cup ReadBy(rd, calls, i - 1))
  PROVE  LET q == CountCall(r, rd, calls, i, owned, wins)
         IN Covered(q.copies, old \cup ReadBy(rd, calls, i))
<1> DEFINE q == CountCall(r, rd, calls, i, owned, wins)
           call == calls[i]
           before == old \cup ReadBy(rd, calls, i - 1)
           after == old \cup ReadBy(rd, calls, i)
<1>1. Len(calls) \in Nat /\ i \in Nat /\ i >= 1
  OBVIOUS
<1>2. \A h \in after : h \in before \/ (i \in 1..Len(calls) /\ IsReading(h, rd, call))
  <2> SUFFICES ASSUME NEW h \in ReadBy(rd, calls, i)
               PROVE  h \in before \/ (i \in 1..Len(calls) /\ IsReading(h, rd, call))
    OBVIOUS
  <2>1. PICK j \in 1..Len(calls) : j <= i /\ IsReading(h, rd, calls[j])
    BY DEF ReadBy
  <2>2. CASE j = i
    BY <2>1, <2>2
  <2>3. CASE j # i
    <3>1. j <= i - 1
      BY <1>1, <2>1, <2>3
    <3> QED
      BY <2>1, <3>1 DEF ReadBy
  <2> QED
    BY <2>2, <2>3
<1>3. CASE i > Len(calls)
  <2>1. q = r /\ i \notin 1..Len(calls)
    BY <1>1, <1>3 DEF CountCall
  <2> QED
    BY <1>2, <2>1 DEF Covered
<1>4. CASE i <= Len(calls) /\ \E j \in 1..(i - 1) : calls[j] = call
  <2>1. q = r
    BY <1>4 DEF CountCall
  <2>2. \A h \in after : h \in before
    <3> SUFFICES ASSUME NEW h, IsReading(h, rd, call) PROVE h \in ReadBy(rd, calls, i - 1)
      BY <1>2
    <3>1. PICK j \in 1..(i - 1) : calls[j] = call
      BY <1>4
    <3>2. j \in 1..Len(calls) /\ j <= i - 1
      BY <1>1, <1>4, <3>1
    <3>3. h \in HeardReading
      BY DEF IsReading
    <3> QED
      BY <3>1, <3>2, <3>3 DEF ReadBy
  <2> QED
    BY <2>1, <2>2 DEF Covered
<1>5. CASE i <= Len(calls) /\ ~\E j \in 1..(i - 1) : calls[j] = call
  <2> DEFINE once == AddCopy(r, rd, call, 0, wins)
             twice == AddCopy(once, rd, call, 1, wins)
             added == Added(r, rd, calls, i, wins)
             again == \E j \in (i + 1)..Len(calls) : calls[j] = call
             of == {h \in HeardReading : IsReading(h, rd, call)}
  <2>1. call \in Calls /\ i \in 1..Len(calls)
    BY <1>1, <1>5
  <2>2. q = Decide(added, rd, call, owned)
    BY <1>5 DEF CountCall, Added
  <2>3. PICK h0 \in HeardOf(calls, rd) : /\ h0.call = call /\ h0.window = rd.window /\ h0.nth = 0
                                         /\ h0.bin = rd.freq /\ h0.time = rd.time
    BY <1>5, <2>1, GroupsHeard
  <2>4. before \in SUBSET HeardReading /\ of \in SUBSET HeardReading
    BY DEF ReadBy
  <2>5. \A h : IsReading(h, rd, call) <=> h \in of
    BY DEF IsReading
  <2>11. HeardNow(hs, rd, call)
    BY <2>3 DEF HeardNow
  <2>12. Echoed(before, hs) /\ Echoed(before \cup of, hs)
    <3>1. Echoed(ReadBy(rd, calls, i - 1), hs)
      BY ReadEchoed
    <3>2. Echoed(of, hs)
      BY <2>11 DEF Echoed, HeardNow, IsReading
    <3> HIDE DEF of
    <3> QED
      BY <3>1, <3>2 DEF Echoed
  <2> HIDE DEF before, of, call
  <2>6. /\ once \in LoopState /\ Agree(once.seen, once.copies)
        /\ Witnessed(once.copies, hs) /\ IsFiniteSet(once.copies)
        /\ Stationed(once.copies, hs, rd.time)
        /\ Covered(once.copies, before \cup of)
    <3>1. once \in LoopState /\ Agree(once.seen, once.copies)
      BY <2>1, AddCopyEffect
    <3>2. Witnessed(once.copies, hs) /\ IsFiniteSet(once.copies)
      <4>1. \E h \in hs : /\ h.call = call /\ h.window = rd.window /\ h.nth = 0
                          /\ h.bin = rd.freq /\ h.time = rd.time
        BY <2>3
      <4> QED
        BY <2>1, <4>1, AddCopyWitnessed, Zenon
    <3>3. /\ Covered(once.copies, before)
          /\ \A h : IsReading(h, rd, call) => \E c \in once.copies : Covers(c, h)
      <4>1. Covered(r.copies, before)
        BY DEF before
      <4> QED
        BY <2>1, <2>4, <2>11, <2>12, <4>1, AddCopyCovers
    <3>4. Stationed(once.copies, hs, rd.time)
      BY <2>1, <2>11, AddCopyStationed
    <3> HIDE DEF once
    <3> QED
      BY <2>5, <3>1, <3>2, <3>3, <3>4 DEF Covered
  <2> HIDE DEF once
  <2>7. twice \in LoopState /\ Covered(twice.copies, before \cup of)
    <3>1. twice \in LoopState
      BY <2>1, <2>6, AddCopyEffect
    <3>2. (before \cup of) \in SUBSET HeardReading
      BY <2>4
    <3> DEFINE both == before \cup of
    <3> HIDE DEF both
    <3>3. Covered(twice.copies, both)
      BY <2>1, <2>6, <2>11, <2>12, <3>2, AddCopyCovers DEF both
    <3> QED
      BY <3>1, <3>3 DEF both
  <2>8. added \in {once, twice}
    BY DEF Added, once, call
  <2> HIDE DEF added, twice
  <2>9. q.copies = added.copies
    BY <2>1, <2>2, <2>6, <2>7, <2>8, DecideKeeps
  <2>10. Covered(q.copies, before \cup of)
    BY <2>6, <2>7, <2>8, <2>9
  <2> QED
    BY <1>2, <2>5, <2>10 DEF Covered
<1> QED
  BY <1>1, <1>3, <1>4, <1>5

\* A text counts three calls at most: of its two groups, and of one that signs off.
LEMMA LockonThree ==
  ASSUME NEW os \in SUBSET Owner, NEW rd \in Reading, NEW cs
  PROVE  Len(LockonCalls(os, rd, cs).calls) <= 3
<1> DEFINE lk0 == [owners |-> os, calls |-> <<>>]
           lk1 == ReadGroup(lk0, rd, cs, 1)
           lk2 == ReadGroup(lk1, rd, cs, 2)
           owner == OwnerOf(lk2.owners, rd.freq, rd.time, LOCK_IDLE_S)
           q == ReadSignOff(lk2, rd)
<1>1. lk0 \in Lockons /\ Len(lk0.calls) = 0
  BY DEF Lockons
<1>2. lk1 \in Lockons /\ Len(lk1.calls) <= 1
  <2>1. lk1 = lk0 \/ lk1.calls = Append(lk0.calls, rd.text.groups[1].call)
    BY <1>1, GroupReads
  <2>2. lk1 \in Lockons
    BY <1>1, ReadGroupTyped
  <2>3. \A c : Len(Append(lk0.calls, c)) = 1
    OBVIOUS
  <2> HIDE DEF lk0, lk1
  <2> QED
    BY <1>1, <2>1, <2>2, <2>3
<1> HIDE DEF lk1
<1>3. lk2 \in Lockons /\ Len(lk2.calls) <= 2
  <2>1. lk2 = lk1 \/ lk2.calls = Append(lk1.calls, rd.text.groups[2].call)
    BY <1>2, GroupReads
  <2>2. lk2 \in Lockons
    BY <1>2, ReadGroupTyped
  <2>3. \A c : Len(Append(lk1.calls, c)) = Len(lk1.calls) + 1 /\ Len(lk1.calls) \in Nat
    BY <1>2 DEF Lockons
  <2> HIDE DEF lk2
  <2> QED
    BY <1>2, <2>1, <2>2, <2>3
<1> HIDE DEF lk2
<1>4. Len(q.calls) <= 3
  <2>1. q = lk2 \/ \E c : q.calls = Append(lk2.calls, c)
    BY SignOffReads
  <2>2. \A c : Len(Append(lk2.calls, c)) = Len(lk2.calls) + 1 /\ Len(lk2.calls) \in Nat
    BY <1>3 DEF Lockons
  <2> HIDE DEF q
  <2> QED
    BY <1>3, <2>1, <2>2
<1> QED
  BY <1>4 DEF LockonCalls, lk1, lk2

-----------------------------------------------------------------------------
(* What is heard in a window, and how far apart the windows of a bin are.   *)

\* All that is heard in a window is heard by its bin, as it opens; and a window is
\* forgotten only when what was heard in it has expired.
Seated ==
  /\ \A h \in heard : h.window < nextWindow /\ h.time <= now
  /\ \A h \in heard, v \in windows : v.id = h.window => v.bin = h.bin /\ v.first = h.time
  /\ \A h \in heard : (\E v \in windows : v.id = h.window) \/ now - h.time > REPEAT_S
  /\ \A h, g \in heard : h.window = g.window => h.bin = g.bin /\ h.time = g.time

\* The windows of a bin are a window length apart.
Spaced ==
  /\ \A h, g \in heard : h.bin = g.bin /\ h.window # g.window => Abs(h.time - g.time) >= WINDOW_S
  /\ \A v \in windows : v.first <= now
  /\ \A v, u \in windows : v.bin = u.bin /\ v.id # u.id => Abs(v.first - u.first) >= WINDOW_S

\* What a feed leaves of the windows, and what it finds of its own.
LEMMA FeedWindows ==
  ASSUME TypeOK, Numbered, NEW f \in Freqs, NEW w \in WindowIds(f)
  PROVE  LET wins == WindowsWith(w, f)
         IN /\ \E v \in wins : v.id = w /\ v.bin = f /\ v.first = now
            /\ \A v \in windows : v \in wins \/ now - v.first > REPEAT_S
            /\ \A v \in wins : v \in windows \/ (v.id = w /\ v.bin = f /\ v.first = now)
<1> DEFINE new == [id |-> nextWindow, bin |-> f, first |-> now]
           opened == IF w = nextWindow THEN {[id |-> w, bin |-> f, first |-> now]} ELSE {}
           wins == WindowsWith(w, f)
<1>1. /\ nextWindow \in Nat /\ now \in Nat /\ REPEAT_S \in Nat /\ WINDOW_S \in Nat
      /\ \A v \in windows : v.id \in Nat /\ v.first \in Int
  BY SpotRuleAssumption DEF TypeOK, Window
<1>2. opened = (IF w = nextWindow THEN {new} ELSE {}) /\ new.id = nextWindow /\ new.bin = f /\ new.first = now
  OBVIOUS
<1>3. wins = Fresh(windows \cup opened)
  BY DEF WindowsWith
<1>4. \A v : v \in windows \cup opened /\ v.first \in Int =>
         v \in wins \/ now - v.first > REPEAT_S
  <2> HIDE DEF opened, wins
  <2> QED
    BY <1>1, <1>3 DEF Fresh
<1>5. wins \subseteq windows \cup opened
  BY <1>3 DEF Fresh
<1> HIDE DEF wins, new, opened
<1>6. \E v \in windows \cup opened : v.id = w /\ v.bin = f /\ v.first = now
  <2>1. \/ w = nextWindow
        \/ \E v \in windows : v.id = w /\ v.bin = f /\ v.first = now
    BY DEF WindowIds
  <2> QED
    BY <1>2, <2>1
<1>7. \E v \in wins : v.id = w /\ v.bin = f /\ v.first = now
  BY <1>1, <1>4, <1>6
<1>8. \A v \in wins : v \in windows \/ (v.id = w /\ v.bin = f /\ v.first = now)
  BY <1>2, <1>5
<1> QED
  BY <1>1, <1>4, <1>7, <1>8 DEF wins

\* A bin's reading has a window of its own only a window length after the last.
LEMMA FeedApart ==
  ASSUME TypeOK, Numbered, Spaced, NEW f \in Freqs, NEW w \in WindowIds(f),
         NEW v \in windows, v.bin = f, v.id # w
  PROVE  now - v.first >= WINDOW_S
<1>1. /\ nextWindow \in Nat /\ now \in Nat /\ WINDOW_S \in Nat
      /\ \A u \in windows : u.id \in Nat /\ u.first \in Int
  BY SpotRuleAssumption DEF TypeOK, Window
<1>2. CASE w = nextWindow
  <2>1. w # nextWindow - 1
    BY <1>1, <1>2
  <2>2. \A u \in windows : u.id # w
    BY <1>1, <1>2 DEF Numbered
  <2> QED
    BY <2>1, <2>2 DEF WindowIds
<1>3. CASE w # nextWindow
  <2>1. PICK u \in windows : u.id = w /\ u.bin = f /\ u.first = now
    BY <1>3 DEF WindowIds
  <2>2. Abs(v.first - now) >= WINDOW_S /\ v.first <= now
    BY <2>1 DEF Spaced
  <2> QED
    BY <1>1, <2>2 DEF Abs
<1> QED
  BY <1>2, <1>3

\* A feed keeps what is heard with its windows.
LEMMA FeedSeated ==
  ASSUME TypeOK, Numbered, Seated, Evidence,
         NEW f \in Freqs, NEW w, NEW rd, NEW lk, NEW r, FeedOf(f, w, rd, lk, r)
  PROVE  Seated'
<1> DEFINE wins == WindowsWith(w, f)
           next == IF w = nextWindow THEN w + 1 ELSE nextWindow
           said == HeardOf(lk.calls, rd)
<1>1. /\ w \in WindowIds(f) /\ rd \in Reading /\ rd.window = w /\ rd.freq = f /\ rd.time = now
      /\ windows' = wins /\ nextWindow' = next /\ heard' = heard \cup said /\ now' = now
  BY DEF FeedOf, FeedEffect
<1>2. /\ \E v \in wins : v.id = w /\ v.bin = f /\ v.first = now
      /\ \A v \in windows : v \in wins \/ now - v.first > REPEAT_S
      /\ \A v \in wins : v \in windows \/ (v.id = w /\ v.bin = f /\ v.first = now)
  BY <1>1, FeedWindows
<1>3. /\ \A v, u \in wins : v.id = u.id => v = u
      /\ \A v \in wins : v.id = w => v.bin = f /\ v.first = now
      /\ w = next - 1 /\ next \in Nat /\ next >= nextWindow
  BY <1>1, FeedNumbered
<1>4. \A h \in said : h.window = w /\ h.bin = f /\ h.time = now
  BY <1>1, HeardAt
<1>5. \A h \in heard : h.window \in Nat /\ h.time \in Int
  BY DEF Evidence, HeardReading
<1>6. now \in Nat /\ nextWindow \in Nat
  BY DEF TypeOK
<1> HIDE DEF wins, next, said
<1>7. \A h \in heard : h.window = w => h.bin = f /\ h.time = now
  <2> SUFFICES ASSUME NEW h \in heard, h.window = w PROVE h.bin = f /\ h.time = now
    OBVIOUS
  <2>1. w < nextWindow
    BY DEF Seated
  <2>2. PICK v \in windows : v.id = w /\ v.bin = f /\ v.first = now
    BY <1>1, <1>6, <2>1 DEF WindowIds
  <2> QED
    BY <2>2 DEF Seated
<1>8. \A h \in heard' : h.window < nextWindow' /\ h.time <= now'
  BY <1>1, <1>3, <1>4, <1>5, <1>6 DEF Seated
<1>9. \A h \in heard', v \in windows' : v.id = h.window => v.bin = h.bin /\ v.first = h.time
  BY <1>1, <1>2, <1>3, <1>4, <1>7 DEF Seated
<1>10. \A h \in heard' : (\E v \in windows' : v.id = h.window) \/ now' - h.time > REPEAT_S
  <2> SUFFICES ASSUME NEW h \in heard' PROVE (\E v \in wins : v.id = h.window) \/ now - h.time > REPEAT_S
    BY <1>1
  <2>1. CASE h \in said
    BY <1>2, <1>4, <2>1
  <2>2. CASE h \in heard
    BY <1>2, <2>2 DEF Seated
  <2> QED
    BY <1>1, <2>1, <2>2
<1>11. \A h, g \in heard' : h.window = g.window => h.bin = g.bin /\ h.time = g.time
  BY <1>1, <1>4, <1>7 DEF Seated
<1> QED
  BY <1>8, <1>9, <1>10, <1>11 DEF Seated

\* Every reading of every reachable state sits in its window.
LEMMA Seating == Spec => [](InEarshot => Seated)
<1>1. Init => Seated
  BY DEF Init, Seated
<1>2. /\ IInv /\ (InEarshot => Numbered /\ OneTransmissionOneCopy) /\ (InEarshot => Evidence)
      /\ (InEarshot => Seated) /\ [Next]_vars
      => (InEarshot => Seated)'
  <2> SUFFICES ASSUME IInv, InEarshot => Numbered /\ Evidence /\ Seated, [Next]_vars, InEarshot'
               PROVE  Seated'
    OBVIOUS
  <2>4. CASE Stop \/ Crash
    BY <2>4 DEF Stop, Crash, Down, Seated
  <2>0. (Numbered /\ Evidence /\ Seated) \/ Stop \/ Crash
    BY StayInEarshot
  <2> SUFFICES ASSUME Numbered, Evidence, Seated PROVE Seated'
    BY <2>0, <2>4
  <2>1. CASE Decode
    <3>1. PICK f \in Freqs, text \in Texts, snr \in Snrs : Feed(f, text, snr)
      BY <2>1 DEF Decode
    <3>2. PICK w, rd, lk, r : FeedOf(f, w, rd, lk, r)
      BY <3>1, FeedIs DEF IInv
    <3> QED
      BY <3>2, FeedSeated DEF IInv
  <2>2. CASE Tick
    <3>1. now \in Nat /\ now' = now + 1 /\ UNCHANGED <<heard, windows, nextWindow>>
      BY <2>2 DEF Tick, rule, IInv, TypeOK
    <3>2. REPEAT_S \in Nat /\ \A h \in heard : h.time \in Int
      BY SpotRuleAssumption DEF Evidence, HeardReading
    <3>3. \A h \in heard' : h.window < nextWindow' /\ h.time <= now'
      BY <3>1, <3>2 DEF Seated
    <3>4. \A h \in heard' : (\E v \in windows' : v.id = h.window) \/ now' - h.time > REPEAT_S
      BY <3>1, <3>2 DEF Seated
    <3> QED
      BY <3>1, <3>3, <3>4 DEF Seated
  <2>3. CASE Save \/ Start \/ UNCHANGED vars
    <3>1. UNCHANGED <<now, heard, windows, nextWindow>>
      BY <2>3 DEF Save, Start, vars, rule
    <3> QED
      BY <3>1 DEF Seated
  <2> QED
    BY <2>1, <2>2, <2>3, <2>4 DEF Next
<1> QED
  BY <1>1, <1>2, Sites, Singled, Evident, PTL DEF Spec

\* A feed keeps the windows of a bin apart, where a window is forgotten only after
\* its length.
LEMMA FeedSpaced ==
  ASSUME TypeOK, Numbered, Seated, Spaced, Evidence, WINDOW_S <= REPEAT_S,
         NEW f \in Freqs, NEW w, NEW rd, NEW lk, NEW r, FeedOf(f, w, rd, lk, r)
  PROVE  Spaced'
<1> DEFINE wins == WindowsWith(w, f)
           said == HeardOf(lk.calls, rd)
<1>1. /\ w \in WindowIds(f) /\ rd.window = w /\ rd.freq = f /\ rd.time = now
      /\ windows' = wins /\ heard' = heard \cup said /\ now' = now
  BY DEF FeedOf, FeedEffect
<1>2. /\ \A v \in windows : v.bin = f /\ v.id # w => now - v.first >= WINDOW_S
      /\ \A v \in wins : v \in windows \/ (v.id = w /\ v.bin = f /\ v.first = now)
  BY <1>1, FeedApart, FeedWindows
<1>3. \A h \in said : h.window = w /\ h.bin = f /\ h.time = now
  BY <1>1, HeardAt
<1>4. \A h \in heard : h.window \in Nat /\ h.time \in Int
  BY DEF Evidence, HeardReading
<1>5. /\ now \in Nat /\ REPEAT_S \in Nat /\ WINDOW_S \in Nat
      /\ \A v \in windows : v.id \in Nat /\ v.first \in Int
  BY SpotRuleAssumption DEF TypeOK, Window
<1> HIDE DEF wins, said
<1>6. \A h \in heard : h.bin = f /\ h.window # w => now - h.time >= WINDOW_S
  <2> SUFFICES ASSUME NEW h \in heard, h.bin = f, h.window # w PROVE now - h.time >= WINDOW_S
    OBVIOUS
  <2>1. CASE now - h.time > REPEAT_S
    BY <1>4, <1>5, <2>1
  <2>2. ASSUME NEW v \in windows, v.id = h.window PROVE now - h.time >= WINDOW_S
    BY <1>2, <2>2 DEF Seated
  <2> QED
    BY <2>1, <2>2 DEF Seated
<1>7. \A h, g \in heard' : h.bin = g.bin /\ h.window # g.window => Abs(h.time - g.time) >= WINDOW_S
  <2> SUFFICES ASSUME NEW h \in heard', NEW g \in heard', h.bin = g.bin, h.window # g.window
               PROVE  Abs(h.time - g.time) >= WINDOW_S
    OBVIOUS
  <2>1. CASE h \in heard /\ g \in heard
    BY <2>1 DEF Spaced
  <2>2. CASE h \in said /\ g \in heard
    <3>1. now - g.time >= WINDOW_S /\ g.time \in Int /\ h.time = now
      BY <1>3, <1>4, <1>6, <2>2
    <3> QED
      BY <1>5, <3>1 DEF Abs
  <2>3. CASE g \in said /\ h \in heard
    <3>1. now - h.time >= WINDOW_S /\ h.time \in Int /\ g.time = now
      BY <1>3, <1>4, <1>6, <2>3
    <3> QED
      BY <1>5, <3>1 DEF Abs
  <2>4. ~(h \in said /\ g \in said)
    BY <1>3
  <2> QED
    BY <1>1, <2>1, <2>2, <2>3, <2>4
<1>8. \A v \in windows' : v.first <= now'
  BY <1>1, <1>2, <1>5 DEF Spaced
<1>9. \A v, u \in windows' : v.bin = u.bin /\ v.id # u.id => Abs(v.first - u.first) >= WINDOW_S
  <2> SUFFICES ASSUME NEW v \in wins, NEW u \in wins, v.bin = u.bin, v.id # u.id
               PROVE  Abs(v.first - u.first) >= WINDOW_S
    BY <1>1
  <2>1. CASE v \in windows /\ u \in windows
    BY <2>1 DEF Spaced
  <2>2. CASE v \in windows /\ u.id = w /\ u.bin = f /\ u.first = now
    <3>1. now - v.first >= WINDOW_S /\ v.first \in Int
      BY <1>2, <1>5, <2>2
    <3> QED
      BY <1>5, <2>2, <3>1 DEF Abs
  <2>3. CASE u \in windows /\ v.id = w /\ v.bin = f /\ v.first = now
    <3>1. now - u.first >= WINDOW_S /\ u.first \in Int
      BY <1>2, <1>5, <2>3
    <3> QED
      BY <1>5, <2>3, <3>1 DEF Abs
  <2> QED
    BY <1>2, <2>1, <2>2, <2>3
<1> QED
  BY <1>7, <1>8, <1>9 DEF Spaced

-----------------------------------------------------------------------------
(* The steady runner.                                                      *)

Recent(hs, t) == {h \in hs : t - h.time <= REPEAT_S - WINDOW_S}

\* Each reading of the last REPEAT_S, less a window length, has its copy.
NoneLost == Covered(copies, Recent(heard, now))

\* A feed loses no recent reading.
LEMMA FeedCovers ==
  ASSUME InEarshot', TypeOK, SeenMatchesCopies, Sited, Numbered, Seated, Evidence, NoneLost,
         NEW f \in Freqs, NEW w, NEW rd, NEW lk, NEW r, FeedOf(f, w, rd, lk, r)
  PROVE  NoneLost'
<1> DEFINE wins == WindowsWith(w, f)
           owned == OwnedAt(f)
           calls == lk.calls
           hs == heard \cup HeardOf(calls, rd)
           old == Recent(heard, now)
           r1 == CountCall(LoopStart, rd, calls, 1, owned, wins)
           r2 == CountCall(r1, rd, calls, 2, owned, wins)
           r3 == CountCall(r2, rd, calls, 3, owned, wins)
           Good(s) == /\ s \in LoopState /\ Agree(s.seen, s.copies)
                      /\ Witnessed(s.copies, hs) /\ IsFiniteSet(s.copies)
                      /\ Stationed(s.copies, hs, rd.time)
           Done(s, i) == Covered(s.copies, old \cup ReadBy(rd, calls, i))
<1>1. /\ rd \in Reading /\ calls \in Seq(Calls) /\ rd.window = w /\ rd.freq = f /\ rd.time = now
      /\ w \in WindowIds(f)
  BY DEF FeedOf, Lockons
<1>2. /\ r = r3 /\ copies' = r.copies /\ heard' = hs /\ now' = now /\ windows' = wins
  BY DEF FeedOf, Loop, FeedEffect
<1>3. hs \in SUBSET HeardReading /\ Earshot(hs)
  <2>1. hs \in SUBSET HeardReading
    BY <1>1, HeardTyped DEF Evidence
  <2>2. Earshot(heard')
    BY DEF InEarshot
  <2> HIDE DEF hs
  <2> QED
    BY <1>2, <2>1, <2>2
<1>4. OneSitting(rd, hs)
  <2>1. Seated'
    BY FeedSeated
  <2>2. \E v \in wins : v.id = w /\ v.bin = f /\ v.first = now
    BY <1>1, FeedWindows
  <2> HIDE DEF hs, wins
  <2> QED
    BY <1>1, <1>2, <2>1, <2>2 DEF Seated, OneSitting
<1>5. /\ REPEAT_S \in Nat /\ WINDOW_S \in Nat /\ now \in Nat
      /\ \A c \in copies : c.time \in Int
      /\ \A h \in heard : h.time \in Int
  BY SpotRuleAssumption DEF TypeOK, Copy, Evidence, HeardReading
<1>6. old \in SUBSET HeardReading /\ Echoed(old, hs)
  BY DEF Recent, Evidence, Echoed
<1>7. Good(LoopStart)
  <2>1. FreshCopies \subseteq copies
    BY DEF FreshCopies
  <2>2. IsFiniteSet(FreshCopies)
    BY <2>1, FS_Subset DEF Evidence
  <2>3. Witnessed(FreshCopies, hs)
    BY <2>1 DEF Evidence, Witnessed
  <2>4. Stationed(LoopStart.copies, hs, rd.time)
    <3>1. heard \subseteq hs
      OBVIOUS
    <3> HIDE DEF hs
    <3> QED
      BY <1>1, <3>1, StartStationed
  <2> QED
    BY <2>2, <2>3, <2>4, LoopStartIs
<1>8. Done(LoopStart, 0)
  <2> SUFFICES ASSUME NEW h \in old \cup ReadBy(rd, calls, 0)
               PROVE  \E c \in LoopStart.copies : Covers(c, h)
    BY DEF Covered
  <2>1. ReadBy(rd, calls, 0) = {}
    BY DEF ReadBy
  <2>2. h \in heard /\ now - h.time <= REPEAT_S - WINDOW_S
    BY <2>1 DEF Recent
  <2>3. PICK c \in copies : Covers(c, h)
    BY <2>1 DEF NoneLost, Covered
  <2>4. c.time = h.time \/ h.time - c.time < WINDOW_S
    BY <2>3 DEF Covers
  <2>5. c.time >= now - REPEAT_S
    BY <1>5, <2>2, <2>4
  <2>6. c \in FreshCopies
    BY <2>5 DEF FreshCopies
  <2> QED
    BY <2>3, <2>6, LoopStartIs
<1>9. HeardOf(calls, rd) \subseteq hs
  OBVIOUS
<1> HIDE DEF wins, owned, calls, hs, old
<1>10. Good(r1) /\ Done(r1, 1)
  <2>1. 1 \in Nat \ {0} /\ 1 - 1 = 0
    OBVIOUS
  <2>2. Good(r1)
    BY <1>1, <1>3, <1>7, <1>9, <2>1, CountCallWitnessed, Zenon
  <2>3. Done(r1, 1)
    BY <1>1, <1>3, <1>4, <1>6, <1>7, <1>8, <1>9, <2>1, CountCallCovers
  <2> QED
    BY <2>2, <2>3
<1> HIDE DEF r1
<1>11. Good(r2) /\ Done(r2, 2)
  <2>1. 2 \in Nat \ {0} /\ 2 - 1 = 1
    OBVIOUS
  <2>2. Good(r2)
    BY <1>1, <1>3, <1>10, <1>9, <2>1, CountCallWitnessed, Zenon
  <2>3. Done(r2, 2)
    BY <1>1, <1>3, <1>4, <1>6, <1>10, <1>9, <2>1, CountCallCovers
  <2> QED
    BY <2>2, <2>3
<1> HIDE DEF r2
<1>12. Done(r3, 3)
  <2>1. 3 \in Nat \ {0} /\ 3 - 1 = 2
    OBVIOUS
  <2> QED
    BY <1>1, <1>3, <1>4, <1>6, <1>11, <1>9, <2>1, CountCallCovers
<1> HIDE DEF r3
<1>13. Recent(hs, now) \subseteq old \cup ReadBy(rd, calls, 3)
  <2> SUFFICES ASSUME NEW h \in HeardOf(calls, rd) PROVE h \in ReadBy(rd, calls, 3)
    BY DEF Recent, old, hs
  <2>1. /\ h \in HeardReading /\ h.window = rd.window /\ h.bin = rd.freq /\ h.time = rd.time
        /\ \E i \in DOMAIN calls : h.call = calls[i]
    BY <1>3, <1>9, HeardAt
  <2>2. DOMAIN calls = 1..Len(calls) /\ Len(calls) \in Nat
    BY <1>1
  <2>3. Len(calls) <= 3
    <3>1. lk = LockonCalls(owners, rd, FreshCopies) /\ owners \in SUBSET Owner
      BY DEF FeedOf, TypeOK
    <3> QED
      BY <1>1, <3>1, LockonThree DEF calls
  <2>4. PICK i \in 1..Len(calls) : h.call = calls[i]
    BY <2>1, <2>2
  <2>5. i <= 3
    BY <2>2, <2>3
  <2> QED
    BY <2>1, <2>4, <2>5 DEF ReadBy, IsReading
<1> QED
  BY <1>2, <1>12, <1>13 DEF NoneLost, Covered

\* A bin's recent windows have a copy each: windows a length apart do not share one.
LEMMA WindowsCounted ==
  ASSUME NEW cs \in SUBSET Copy, NEW hs \in SUBSET HeardReading, NEW t \in Int, IsFiniteSet(cs),
         Covered(cs, Recent(hs, t)),
         \A h, g \in hs : h.bin = g.bin /\ h.window # g.window => Abs(h.time - g.time) >= WINDOW_S,
         NEW call \in Calls, NEW f \in Freqs, \A h \in hs : h.call = call
  PROVE  Cardinality({h.window : h \in {g \in hs : g.bin = f /\ t - g.time <= REPEAT_S - WINDOW_S}})
           <= Count(cs, call, f)
<1> DEFINE mine == {g \in hs : g.bin = f /\ t - g.time <= REPEAT_S - WINDOW_S}
           wins == {h.window : h \in mine}
           of(x, c) == \E h \in mine : h.window = x /\ Covers(c, h)
           copyOf == [x \in wins |-> CHOOSE c \in cs : of(x, c)]
           held == CopiesOf(cs, call, f)
<1>1. \A x \in wins : copyOf[x] \in cs /\ of(x, copyOf[x])
  <2> SUFFICES ASSUME NEW x \in wins PROVE copyOf[x] \in cs /\ of(x, copyOf[x])
    OBVIOUS
  <2>1. PICK h \in mine : h.window = x
    OBVIOUS
  <2>2. PICK c \in cs : Covers(c, h)
    BY DEF Recent, Covered
  <2>3. \E d \in cs : of(x, d)
    BY <2>1, <2>2
  <2>4. copyOf[x] = CHOOSE d \in cs : of(x, d)
    OBVIOUS
  <2> HIDE DEF of, copyOf
  <2> QED
    BY <2>3, <2>4
<1>2. \A x \in wins : copyOf[x] \in held
  <2> SUFFICES ASSUME NEW x \in wins PROVE copyOf[x] \in held
    OBVIOUS
  <2>1. PICK h \in mine : h.window = x /\ Covers(copyOf[x], h)
    BY <1>1
  <2>2. h.call = call /\ h.bin = f /\ copyOf[x] \in cs
    BY <1>1
  <2> HIDE DEF copyOf
  <2> QED
    BY <2>1, <2>2 DEF Covers, CopiesOf
<1>3. ASSUME NEW x \in wins, NEW y \in wins, copyOf[x] = copyOf[y]
      PROVE  x = y
  <2> DEFINE c == copyOf[x]
  <2>1. PICK h \in mine : h.window = x /\ Covers(c, h)
    BY <1>1
  <2>2. PICK g \in mine : g.window = y /\ Covers(c, g)
    BY <1>1, <1>3
  <2>3. c.time \in Int /\ h.time \in Int /\ g.time \in Int /\ WINDOW_S \in Nat
    BY <1>1, SpotRuleAssumption DEF Copy, HeardReading
  <2>4. h.bin = g.bin /\ h \in hs /\ g \in hs
    OBVIOUS
  <2> HIDE DEF c, copyOf, mine
  <2>5. x # y => Abs(h.time - g.time) >= WINDOW_S
    BY <2>1, <2>2, <2>4
  <2>6. /\ c.time <= h.time /\ c.time <= g.time
        /\ (c.window = x /\ c.time = h.time) \/ h.time - c.time < WINDOW_S
        /\ (c.window = y /\ c.time = g.time) \/ g.time - c.time < WINDOW_S
    BY <2>1, <2>2 DEF Covers
  <2> QED
    BY <2>3, <2>5, <2>6 DEF Abs
<1> HIDE DEF copyOf, of, mine
<1>4. copyOf \in Injection(wins, held)
  <2>1. copyOf \in [wins -> held]
    BY <1>2 DEF copyOf
  <2> HIDE DEF wins, held
  <2> QED
    BY <1>3, <2>1, Fun_IsInj
<1>5. IsFiniteSet(held)
  <2>1. held \subseteq cs
    BY DEF CopiesOf
  <2> HIDE DEF held
  <2> QED
    BY <2>1, FS_Subset
<1>6. Cardinality(wins) <= Cardinality(held)
  <2> HIDE DEF wins, held
  <2> QED
    BY <1>4, <1>5, FS_Injection
<1> QED
  BY <1>6 DEF Count, mine

\* A decision on enough copies of a call that nobody else disputes spots it, unless
\* the table holds a spot of it already.
LEMMA DecideSpots ==
  ASSUME NEW r \in LoopState, NEW rd \in Reading, NEW call \in Calls, NEW owned \in {None, call},
         IsFiniteSet(r.copies), ~Undecided(r.copies, call, rd.freq),
         Count(r.copies, call, rd.freq) >= Tier[call]
  PROVE  \E g \in Freqs :
           /\ <<call, Band(g)>> \in Keys
           /\ \/ r.lastSpot[<<call, Band(g)>>] # None
              \/ Decide(r, rd, call, owned) = SpotOf(r, rd.time, call, g)
<1> DEFINE mine == CopiesOf(r.copies, call, rd.freq)
           g == Best(mine).freq
<1>1. Cardinality(mine) \in Nat /\ Tier[call] \in Nat \ {0} /\ Cardinality(mine) >= Tier[call]
  BY CountTyped, SpotRuleAssumption DEF Count
<1>2. mine # {}
  <2>1. mine = {} => Cardinality(mine) = 0
    BY FS_EmptySet
  <2> HIDE DEF mine
  <2> QED
    BY <1>1, <2>1
<1>3. g \in Freqs
  <2>1. mine \in SUBSET Copy
    BY DEF CopiesOf, LoopState
  <2> HIDE DEF mine
  <2>2. Best(mine) \in mine
    BY <1>2, <2>1, BestIn, SpotRuleAssumption
  <2> QED
    BY <2>1, <2>2 DEF Copy
<1>4. <<call, Band(g)>> \in Keys
  BY <1>3 DEF Keys
<1>5. ~(Cardinality(mine) < Tier[call])
  <2> HIDE DEF mine
  <2> QED
    BY <1>1
<1>6. \/ r.lastSpot[<<call, Band(g)>>] # None
      \/ Decide(r, rd, call, owned) = SpotOf(r, rd.time, call, g)
  BY <1>5, Zenon DEF Decide, SpotOf
<1> HIDE DEF g
<1> QED
  BY <1>3, <1>4, <1>6

\* Each spot of the loop stays in its table.
Tabled(r) == \A s \in r.out : r.lastSpot[<<s.call, Band(s.freq)>>] # None

\* A decision enters its spot in the table, and strikes out none.
LEMMA DecideTabled ==
  ASSUME NEW r \in LoopState, Tabled(r), NEW rd \in Reading, NEW call \in Calls, NEW owned
  PROVE  Tabled(Decide(r, rd, call, owned))
<1> DEFINE q == Decide(r, rd, call, owned)
<1>1. CASE q = r
  BY <1>1
<1>2. ASSUME NEW f \in Freqs, <<call, Band(f)>> \in Keys, q = SpotOf(r, rd.time, call, f)
      PROVE  Tabled(q)
  <2> DEFINE new == [time |-> rd.time, freq |-> f]
             k == <<call, Band(f)>>
  <2>1. new \in Spot /\ new # None
    BY SpotRuleAssumption DEF Spot, Reading
  <2>2. /\ q.lastSpot = [r.lastSpot EXCEPT ![k] = new]
        /\ q.out = r.out \cup {[call |-> call, freq |-> f]}
    BY <1>2 DEF SpotOf, LoopState
  <2>3. r.lastSpot \in [Keys -> Spot \cup {None}]
    BY DEF LoopState
  <2>4. k \in Keys
    BY <1>2
  <2> HIDE DEF new, q
  <2> SUFFICES ASSUME NEW s \in q.out PROVE q.lastSpot[<<s.call, Band(s.freq)>>] # None
    BY DEF Tabled
  <2>5. CASE <<s.call, Band(s.freq)>> = k
    <3> HIDE DEF k
    <3> QED
      BY <2>1, <2>2, <2>3, <2>4, <2>5
  <2>6. CASE <<s.call, Band(s.freq)>> # k
    <3>1. s \in r.out
      BY <2>2, <2>6
    <3>2. <<s.call, Band(s.freq)>> \in Keys
      BY <3>1 DEF LoopState, Keys
    <3> HIDE DEF k
    <3> QED
      BY <2>2, <2>3, <2>6, <3>1, <3>2 DEF Tabled
  <2> QED
    BY <2>5, <2>6
<1> HIDE DEF q
<1>3. Tabled(q)
  BY <1>1, <1>2, DecideEffect DEF q
<1> QED
  BY <1>3 DEF q

\* So does the counting of a call.
LEMMA CountCallTabled ==
  ASSUME NEW r \in LoopState, Tabled(r), Agree(r.seen, r.copies), NEW rd \in Reading,
         NEW calls \in Seq(Calls), NEW i \in Nat \ {0}, NEW owned, NEW wins
  PROVE  LET q == CountCall(r, rd, calls, i, owned, wins)
         IN q \in LoopState /\ Tabled(q) /\ Agree(q.seen, q.copies)
<1> DEFINE q == CountCall(r, rd, calls, i, owned, wins)
           added == Added(r, rd, calls, i, wins)
           Good(s) == s \in LoopState /\ Tabled(s) /\ Agree(s.seen, s.copies)
<1>1. CASE q = r
  BY <1>1
<1>2. ASSUME calls[i] \in Calls, q = Decide(added, rd, calls[i], owned)
      PROVE  Good(q)
  <2>1. /\ added \in LoopState /\ Agree(added.seen, added.copies)
        /\ added.lastSpot = r.lastSpot /\ added.out = r.out
    BY <1>2, AddedEffect
  <2>2. Tabled(added)
    BY <2>1 DEF Tabled
  <2> HIDE DEF added, q
  <2>3. Tabled(q)
    BY <1>2, <2>1, <2>2, DecideTabled
  <2>4. q \in LoopState /\ Agree(q.seen, q.copies)
    BY <1>2, <2>1, DecideKeeps
  <2> QED
    BY <2>3, <2>4
<1>3. \/ q = r
      \/ calls[i] \in Calls /\ q = Decide(added, rd, calls[i], owned)
  BY CountCallIs
<1> HIDE DEF q, added
<1>4. Good(q)
  BY <1>1, <1>2, <1>3
<1> QED
  BY <1>4 DEF q

\* So does a feed.
LEMMA FeedTabled ==
  ASSUME TypeOK, SeenMatchesCopies,
         NEW f \in Freqs, NEW w, NEW rd, NEW lk, NEW r, FeedOf(f, w, rd, lk, r)
  PROVE  Tabled(r)
<1> DEFINE wins == WindowsWith(w, f)
           owned == OwnedAt(f)
           calls == lk.calls
           r1 == CountCall(LoopStart, rd, calls, 1, owned, wins)
           r2 == CountCall(r1, rd, calls, 2, owned, wins)
           r3 == CountCall(r2, rd, calls, 3, owned, wins)
           Good(s) == s \in LoopState /\ Tabled(s) /\ Agree(s.seen, s.copies)
<1>1. rd \in Reading /\ calls \in Seq(Calls) /\ r = r3
  BY DEF FeedOf, Lockons, Loop
<1>2. Good(LoopStart)
  BY LoopStartIs DEF Tabled
<1>3. 1 \in Nat \ {0} /\ 2 \in Nat \ {0} /\ 3 \in Nat \ {0}
  OBVIOUS
<1> HIDE DEF wins, owned, calls
<1>4. Good(r1)
  BY <1>1, <1>2, <1>3, CountCallTabled, Zenon
<1> HIDE DEF r1
<1>5. Good(r2)
  BY <1>1, <1>3, <1>4, CountCallTabled, Zenon
<1> HIDE DEF r2
<1>6. Good(r3)
  BY <1>1, <1>3, <1>5, CountCallTabled, Zenon
<1> HIDE DEF r3
<1> QED
  BY <1>1, <1>6

\* What the table or the file holds was spotted.
Noted == \A k \in Keys : lastSpot[k] # None \/ memory[k] # None => spotted[k] # None

\* A feed forgets no spot, and notes those it makes.
LEMMA FeedNoted ==
  ASSUME TypeOK, SeenMatchesCopies,
         NEW f \in Freqs, NEW w, NEW rd, NEW lk, NEW r, FeedOf(f, w, rd, lk, r)
  PROVE  /\ \A k \in Keys : spotted[k] # None => spotted'[k] # None
         /\ \A s \in r.out : LET k == <<s.call, Band(s.freq)>>
                            IN k \in Keys => spotted'[k] # None
<1>1. /\ \A k \in Keys : spotted'[k] = (IF \E s \in r.out : k = <<s.call, Band(s.freq)>>
                                       THEN r.lastSpot[k] ELSE spotted[k])
  BY DEF FeedOf, FeedEffect
<1>2. \A s \in r.out : r.lastSpot[<<s.call, Band(s.freq)>>] # None
  BY FeedTabled DEF Tabled
<1> QED
  BY <1>1, <1>2

\* No step puts a spot in the table or the file that was never made.
LEMMA NextNoted ==
  ASSUME IInv, Noted, [Next]_vars
  PROVE  Noted'
<1>1. CASE Decode
  <2>1. PICK f \in Freqs, text \in Texts, snr \in Snrs : Feed(f, text, snr)
    BY <1>1 DEF Decode
  <2>2. TypeOK /\ SeenMatchesCopies /\ OwnersApart
    BY DEF IInv
  <2>3. PICK r, calls : Progress(r, FreshSpots, calls, 3, now) /\ FeedEffect(r)
    BY <2>1, <2>2, FeedRecord
  <2>4. memory' = memory /\ lastSpot' = r.lastSpot
    BY <2>3 DEF FeedEffect
  <2>5. \A k \in Keys : spotted[k] # None => spotted'[k] # None
    <3>1. PICK w, rd, lk, q : FeedOf(f, w, rd, lk, q)
      BY <2>1, <2>2, FeedIs
    <3> QED
      BY <2>2, <3>1, FeedNoted
  <2> SUFFICES ASSUME NEW k \in Keys, r.lastSpot[k] # None, spotted[k] = None
               PROVE  spotted'[k] # None
    BY <2>4, <2>5 DEF Noted
  <2>6. CASE \E s \in r.out : k = <<s.call, Band(s.freq)>>
    <3>1. spotted'[k] = r.lastSpot[k]
      BY <2>3, <2>6 DEF FeedEffect
    <3> QED
      BY <3>1
  <2>7. CASE ~ \E s \in r.out : k = <<s.call, Band(s.freq)>>
    <3>1. r.lastSpot[k] = FreshSpots[k]
      BY <2>3, <2>7 DEF Progress
    <3>2. FreshSpots[k] # None => lastSpot[k] # None
      BY <2>2, FreshSpotsKeep
    <3> QED
      BY <3>1, <3>2 DEF Noted
  <2> QED
    BY <2>6, <2>7
<1>2. CASE Tick \/ UNCHANGED vars
  <2>1. UNCHANGED <<lastSpot, memory, spotted>>
    BY <1>2 DEF Tick, vars, rule
  <2> QED
    BY <2>1 DEF Noted
<1>3. CASE Save
  BY <1>3 DEF Save, rule, Noted
<1>4. CASE Stop
  BY <1>4 DEF Stop, Down, NoSpots, Noted
<1>5. CASE Crash
  BY <1>5 DEF Crash, Down, NoSpots, Noted
<1>6. CASE Start
  <2>1. \A k \in Keys : lastSpot'[k] # None => memory[k] # None
    BY <1>6 DEF Start
  <2> QED
    BY <1>6, <2>1 DEF Start, Noted
<1> QED
  BY <1>1, <1>2, <1>3, <1>4, <1>5, <1>6 DEF Next

\* The recent windows of a bin, as SteadyRunnerSpotted counts them.
RecentWindows(hs, t, f) ==
  {h.window : h \in {g \in hs : g.bin = f /\ t - g.time <= REPEAT_S - WINDOW_S}}

\* The windows of finitely many readings are finitely many.
LEMMA RecentWindowsFinite ==
  ASSUME NEW hs, IsFiniteSet(hs), NEW t, NEW f
  PROVE  IsFiniteSet(RecentWindows(hs, t, f))
<1> DEFINE mine == {g \in hs : g.bin = f /\ t - g.time <= REPEAT_S - WINDOW_S}
           windowOf == [h \in mine |-> h.window]
<1>1. IsFiniteSet(mine)
  <2>1. mine \subseteq hs
    OBVIOUS
  <2> HIDE DEF mine
  <2> QED
    BY <2>1, FS_Subset
<1>2. windowOf \in Surjection(mine, {h.window : h \in mine})
  <2> HIDE DEF mine
  <2> QED
    BY DEF Surjection
<1> HIDE DEF windowOf, mine
<1>3. IsFiniteSet({h.window : h \in mine})
  BY <1>1, <1>2, FS_Surjection
<1> QED
  BY <1>3 DEF RecentWindows, mine

\* A window ages: what was not recent does not become so.
LEMMA RecentWindowsAge ==
  ASSUME NEW hs \in SUBSET HeardReading, IsFiniteSet(hs), NEW t \in Int, NEW f, NEW n \in Nat,
         Cardinality(RecentWindows(hs, t + 1, f)) >= n
  PROVE  Cardinality(RecentWindows(hs, t, f)) >= n
<1>1. RecentWindows(hs, t + 1, f) \subseteq RecentWindows(hs, t, f)
  <2>1. \A g \in hs : g.time \in Int
    BY DEF HeardReading
  <2>2. REPEAT_S \in Nat /\ WINDOW_S \in Nat
    BY SpotRuleAssumption
  <2> QED
    BY <2>1, <2>2 DEF RecentWindows
<1>2. IsFiniteSet(RecentWindows(hs, t, f))
  BY RecentWindowsFinite
<1>3. /\ Cardinality(RecentWindows(hs, t + 1, f)) <= Cardinality(RecentWindows(hs, t, f))
      /\ IsFiniteSet(RecentWindows(hs, t + 1, f))
  BY <1>1, <1>2, FS_Subset
<1>4. Cardinality(RecentWindows(hs, t + 1, f)) \in Nat /\ Cardinality(RecentWindows(hs, t, f)) \in Nat
  BY <1>2, <1>3, FS_CardinalityType
<1> QED
  BY <1>3, <1>4

\* A call with enough copies, and nobody else heard, is in nobody's way.
LEMMA LoneDecided ==
  ASSUME NEW cs \in SUBSET Copy, IsFiniteSet(cs), NEW hs, Witnessed(cs, hs), NEW call \in Calls,
         \A h \in hs : h.call = call, NEW f, Count(cs, call, f) >= Tier[call]
  PROVE  ~Undecided(cs, call, f)
<1> SUFFICES ASSUME NEW d \in Calls, <<d, call>> \in OneEdit, Count(cs, d, f) >= Count(cs, call, f)
             PROVE  FALSE
  BY DEF Undecided
<1>1. d # call /\ Tier[call] \in Nat \ {0}
  BY SpotRuleAssumption
<1>2. CopiesOf(cs, d, f) = {}
  BY <1>1 DEF CopiesOf, Witnessed
<1>3. Count(cs, d, f) = 0 /\ Count(cs, call, f) \in Nat
  BY <1>2, FS_EmptySet, CountTyped DEF Count
<1> QED
  BY <1>1, <1>3

\* A feed spots the runner it completes the evidence of, if nothing did before.
LEMMA FeedSteady ==
  ASSUME InEarshot', WINDOW_S <= REPEAT_S, TypeOK, SeenMatchesCopies, Sited, Numbered, Seated,
         Spaced, Evidence, NoneLost, OwnerCalledCq, Noted, SteadyRunnerSpotted,
         NEW f \in Freqs, NEW w, NEW rd, NEW lk, NEW r, FeedOf(f, w, rd, lk, r)
  PROVE  SteadyRunnerSpotted'
<1> DEFINE calls == lk.calls
<1>1. /\ rd \in Reading /\ calls \in Seq(Calls) /\ rd.freq = f /\ rd.time = now /\ now' = now
      /\ copies' = r.copies /\ out' = r.out /\ heard' = heard \cup HeardOf(calls, rd)
  BY DEF FeedOf, Lockons, FeedEffect
<1>2. Evidence' /\ Spaced' /\ NoneLost'
  BY FeedEvidence, FeedSpaced, FeedCovers
<1>3. /\ \A k \in Keys : spotted[k] # None => spotted'[k] # None
      /\ \A s \in r.out : LET k == <<s.call, Band(s.freq)>> IN k \in Keys => spotted'[k] # None
  BY FeedNoted
<1> SUFFICES ASSUME NEW call \in Calls, NEW g \in Freqs, \A h \in heard' : h.call = call,
                    Cardinality(RecentWindows(heard', now, g)) >= Tier[call]
             PROVE  \E k \in Keys : k[1] = call /\ spotted'[k] # None
  BY <1>1 DEF SteadyRunnerSpotted, RecentWindows
<1>4. \A i \in 1..Len(calls) : calls[i] = call
  BY <1>1, CallsHeard
<1>5. CASE RecentWindows(heard', now, g) = RecentWindows(heard, now, g)
  BY <1>1, <1>3, <1>5 DEF SteadyRunnerSpotted, RecentWindows
<1>6. CASE g # f \/ calls = <<>>
  <2>1. \A h \in HeardOf(calls, rd) : h.bin # g
    <3>1. calls = <<>> => HeardOf(calls, rd) = {}
      BY DEF HeardOf
    <3>2. \A h \in HeardOf(calls, rd) : h.bin = f
      BY <1>1, HeardAt
    <3> QED
      BY <1>6, <3>1, <3>2
  <2>2. RecentWindows(heard', now, g) = RecentWindows(heard, now, g)
    BY <1>1, <2>1 DEF RecentWindows
  <2> QED
    BY <1>5, <2>2
<1>7. CASE g = f /\ calls # <<>>
  <2> DEFINE owned == OwnedAt(f)
  <2>1. PICK q \in LoopState : /\ calls[1] \in Calls /\ 1 \in 1..Len(calls)
                               /\ q.lastSpot = FreshSpots
                               /\ r = Decide(q, rd, calls[1], OwnedAt(f))
    <3>1. \A i, j \in 1..Len(calls) : calls[i] = calls[j]
      BY <1>4
    <3> QED
      BY <1>7, <3>1, FeedLone
  <2>2. calls[1] = call
    BY <1>4, <2>1
  <2>3. copies' = q.copies
    BY <1>1, <2>1, DecideKeeps
  <2>4. IsFiniteSet(q.copies) /\ q.copies \in SUBSET Copy /\ Witnessed(q.copies, heard')
    BY <1>2, <2>3 DEF Evidence, LoopState
  <2>5. Count(q.copies, call, f) >= Tier[call]
    <3>1. heard' \in SUBSET HeardReading /\ now \in Int
      BY <1>2 DEF Evidence, TypeOK
    <3>2. Covered(q.copies, Recent(heard', now))
      BY <1>1, <1>2, <2>3 DEF NoneLost
    <3>3. \A h, l \in heard' : h.bin = l.bin /\ h.window # l.window => Abs(h.time - l.time) >= WINDOW_S
      BY <1>2 DEF Spaced
    <3>4. Cardinality(RecentWindows(heard', now, f)) <= Count(q.copies, call, f)
      BY <2>4, <3>1, <3>2, <3>3, WindowsCounted DEF RecentWindows
    <3>5. /\ Cardinality(RecentWindows(heard', now, f)) \in Nat /\ Count(q.copies, call, f) \in Nat
          /\ Tier[call] \in Nat
      BY <1>2, <2>4, RecentWindowsFinite, CountTyped, FS_CardinalityType, SpotRuleAssumption DEF Evidence
    <3> QED
      BY <1>7, <3>4, <3>5
  <2>6. ~Undecided(q.copies, call, f)
    BY <2>4, <2>5, LoneDecided
  <2>7. owned \in {None, call}
    <3>1. CASE OwnedAt(f) # None
      <4>1. OwnedAt(f) = OwnerOf(owners, f, now, TAKEOVER_IDLE_S)
        BY <3>1 DEF OwnedAt
      <4>2. owners \in SUBSET Owner /\ now \in Int /\ TAKEOVER_IDLE_S \in Nat
        BY SpotRuleAssumption DEF TypeOK
      <4>3. \E o \in owners : o.call = OwnedAt(f)
        BY <3>1, <4>1, <4>2, OwnerHeld
      <4> QED
        BY <1>1, <4>3 DEF OwnerCalledCq
    <3> QED
      BY <3>1
  <2>8. PICK p \in Freqs :
          /\ <<call, Band(p)>> \in Keys
          /\ \/ q.lastSpot[<<call, Band(p)>>] # None
             \/ r = SpotOf(q, now, call, p)
    <3> HIDE DEF owned
    <3>1. PICK p \in Freqs :
            /\ <<call, Band(p)>> \in Keys
            /\ \/ q.lastSpot[<<call, Band(p)>>] # None
               \/ Decide(q, rd, call, owned) = SpotOf(q, rd.time, call, p)
      BY <1>1, <2>4, <2>5, <2>6, <2>7, DecideSpots
    <3> QED
      BY <1>1, <2>1, <2>2, <3>1 DEF owned
  <2> DEFINE k == <<call, Band(p)>>
  <2>9. CASE q.lastSpot[k] # None
    <3>1. lastSpot[k] # None
      BY <2>1, <2>8, <2>9, FreshSpotsKeep
    <3>2. spotted'[k] # None
      BY <1>3, <2>8, <3>1 DEF Noted
    <3> QED
      BY <2>8, <3>2
  <2>10. CASE r = SpotOf(q, now, call, p)
    <3>1. [call |-> call, freq |-> p] \in r.out
      BY <2>10 DEF SpotOf, LoopState
    <3>2. spotted'[k] # None
      BY <1>3, <2>8, <3>1
    <3> QED
      BY <2>8, <3>2
  <2> QED
    BY <2>8, <2>9, <2>10
<1> QED
  BY <1>6, <1>7

\* What the rule keeps of a steady runner, besides the invariants already proved.
SteadyInv ==
  /\ NoneLost
  /\ WINDOW_S <= REPEAT_S => Spaced
  /\ SteadyRunnerSpotted

\* Where nothing is recent, no runner is steady.
LEMMA NoneSteady ==
  ASSUME NEW hs, NEW t, NEW call \in Calls, NEW f, RecentWindows(hs, t, f) = {}
  PROVE  ~(Cardinality(RecentWindows(hs, t, f)) >= Tier[call])
<1>1. Tier[call] \in Nat \ {0} /\ Cardinality({}) = 0
  BY SpotRuleAssumption, FS_EmptySet
<1> QED
  BY <1>1

\* At first nobody is heard.
LEMMA InitSteady ==
  ASSUME Init
  PROVE  SteadyInv
<1>1. \A f : RecentWindows(heard, now, f) = {}
  BY DEF Init, RecentWindows
<1>2. SteadyRunnerSpotted
  <2> SUFFICES ASSUME NEW call \in Calls, NEW g \in Freqs,
                      Cardinality(RecentWindows(heard, now, g)) >= Tier[call]
               PROVE  FALSE
    BY DEF SteadyRunnerSpotted, RecentWindows
  <2> QED
    BY <1>1, NoneSteady
<1> QED
  BY <1>2 DEF Init, SteadyInv, Spaced, NoneLost, Covered, Recent

\* A feed keeps the invariant, whether or not a window is shorter than REPEAT_S.
LEMMA FeedSteadyInv ==
  ASSUME InEarshot', IInv, Sited, Numbered, Evidence, Seated, OwnerCalledCq, SteadyInv, Noted,
         NEW f \in Freqs, NEW w, NEW rd, NEW lk, NEW r, FeedOf(f, w, rd, lk, r)
  PROVE  SteadyInv'
<1>1. TypeOK /\ SeenMatchesCopies /\ NoneLost /\ Noted /\ SteadyRunnerSpotted
  BY DEF IInv, SteadyInv
<1>2. NoneLost'
  BY <1>1, FeedCovers
<1>3. CASE WINDOW_S <= REPEAT_S
  <2>1. Spaced
    BY <1>3 DEF SteadyInv
  <2>2. Spaced' /\ SteadyRunnerSpotted'
    BY <1>1, <1>3, <2>1, FeedSpaced, FeedSteady
  <2> QED
    BY <1>2, <2>2 DEF SteadyInv
<1>4. CASE ~(WINDOW_S <= REPEAT_S)
  <2>1. \A g : RecentWindows(heard', now', g) = {}
    <3>1. \A h \in heard' : h.time \in Int /\ h.time <= now'
      BY <1>1, FeedSeated, FeedEvidence DEF Seated, Evidence, HeardReading
    <3>2. now' \in Int /\ WINDOW_S \in Nat /\ REPEAT_S \in Nat
      BY <1>1, SpotRuleAssumption DEF TypeOK, FeedOf, FeedEffect
    <3>3. \A h \in heard' : ~(now' - h.time <= REPEAT_S - WINDOW_S)
      BY <1>4, <3>1, <3>2
    <3> QED
      BY <3>3 DEF RecentWindows
  <2>2. SteadyRunnerSpotted'
    <3> SUFFICES ASSUME NEW call \in Calls, NEW g \in Freqs,
                        Cardinality(RecentWindows(heard', now', g)) >= Tier[call]
                 PROVE  FALSE
      BY DEF SteadyRunnerSpotted, RecentWindows
    <3> QED
      BY <2>1, NoneSteady
  <2> QED
    BY <1>2, <1>4, <2>2 DEF SteadyInv
<1> QED
  BY <1>3, <1>4

\* With time, less is recent.
LEMMA TickSteady ==
  ASSUME IInv, Evidence, SteadyInv, Tick
  PROVE  SteadyInv'
<1>1. /\ now \in Nat /\ now' = now + 1
      /\ UNCHANGED <<heard, copies, windows, nextWindow, spotted>>
  BY DEF Tick, rule, IInv, TypeOK
<1>2. /\ heard \in SUBSET HeardReading /\ IsFiniteSet(heard)
      /\ \A h \in heard : h.time \in Int
      /\ WINDOW_S \in Nat /\ REPEAT_S \in Nat
  BY SpotRuleAssumption DEF Evidence, HeardReading
<1>3. NoneLost'
  <2>1. Recent(heard', now') \subseteq Recent(heard, now)
    BY <1>1, <1>2 DEF Recent
  <2> QED
    BY <1>1, <2>1 DEF SteadyInv, NoneLost, Covered
<1>4. Spaced => Spaced'
  <2>1. \A v \in windows : v.first \in Int
    BY DEF IInv, TypeOK, Window
  <2> QED
    BY <1>1, <2>1 DEF Spaced
<1>5. SteadyRunnerSpotted'
  <2> SUFFICES ASSUME NEW call \in Calls, NEW f \in Freqs, \A h \in heard : h.call = call,
                      Cardinality(RecentWindows(heard, now + 1, f)) >= Tier[call]
               PROVE  \E k \in Keys : k[1] = call /\ spotted[k] # None
    BY <1>1 DEF SteadyRunnerSpotted, RecentWindows
  <2>1. Cardinality(RecentWindows(heard, now, f)) >= Tier[call]
    <3>1. Tier[call] \in Nat /\ now \in Int
      BY <1>1, SpotRuleAssumption
    <3> QED
      BY <1>2, <3>1, RecentWindowsAge
  <2> QED
    BY <2>1 DEF SteadyInv, SteadyRunnerSpotted, RecentWindows
<1> QED
  BY <1>3, <1>4, <1>5 DEF SteadyInv

\* Every step keeps the invariant.
LEMMA NextSteady ==
  ASSUME InEarshot', IInv, Sited, OwnerCalledCq, Noted,
         InEarshot => Numbered /\ Evidence /\ Seated /\ SteadyInv, [Next]_vars
  PROVE  SteadyInv'
<1>5. CASE Stop \/ Crash
  <2>1. heard' = {} /\ copies' = {} /\ windows' = {}
    BY <1>5 DEF Stop, Crash, Down
  <2>2. \A f : RecentWindows(heard', now', f) = {}
    BY <2>1 DEF RecentWindows
  <2>3. SteadyRunnerSpotted'
    <3> SUFFICES ASSUME NEW call \in Calls, NEW g \in Freqs,
                        Cardinality(RecentWindows(heard', now', g)) >= Tier[call]
                 PROVE  FALSE
      BY DEF SteadyRunnerSpotted, RecentWindows
    <3> QED
      BY <2>2, NoneSteady
  <2> QED
    BY <2>1, <2>3 DEF SteadyInv, Spaced, NoneLost, Covered, Recent
<1>1. (Numbered /\ Evidence /\ Seated /\ SteadyInv) \/ Stop \/ Crash
  BY StayInEarshot
<1> SUFFICES ASSUME Numbered, Evidence, Seated, SteadyInv PROVE SteadyInv'
  BY <1>1, <1>5
<1>2. CASE Decode
  <2>1. PICK f \in Freqs, text \in Texts, snr \in Snrs : Feed(f, text, snr)
    BY <1>2 DEF Decode
  <2>2. PICK w, rd, lk, r : FeedOf(f, w, rd, lk, r)
    BY <2>1, FeedIs DEF IInv
  <2> QED
    BY <2>2, FeedSteadyInv
<1>3. CASE Tick
  BY <1>3, TickSteady
<1>4. CASE Save \/ Start \/ UNCHANGED vars
  <2>1. UNCHANGED <<now, heard, copies, windows, nextWindow, spotted>>
    BY <1>4 DEF Save, Start, vars, rule
  <2> QED
    BY <2>1 DEF SteadyInv, Spaced, NoneLost, Covered, Recent, SteadyRunnerSpotted
<1> QED
  BY <1>2, <1>3, <1>4, <1>5 DEF Next

\* On any grid of bins: as long as no chain of bins reads one call further than NEAR,
\* no copy of a runner alone on the band is lost for good.  Once a bin has read him in
\* enough recent windows, he has been spotted.
THEOREM SteadyRunnersSpotted == Spec => [](InEarshot => SteadyRunnerSpotted)
<1>1. Init => Noted /\ SteadyInv
  BY InitSteady DEF Init, Noted, NoSpots
<1>2. IInv /\ Noted /\ [Next]_vars => Noted'
  BY NextNoted
<1>3. /\ IInv /\ Sited /\ OwnerCalledCq /\ Noted
      /\ (InEarshot => Numbered /\ OneTransmissionOneCopy) /\ (InEarshot => Evidence)
      /\ (InEarshot => Seated) /\ (InEarshot => SteadyInv) /\ [Next]_vars
      => (InEarshot => SteadyInv)'
  BY NextSteady
<1>4. SteadyInv => SteadyRunnerSpotted
  BY DEF SteadyInv
<1> QED
  BY <1>1, <1>2, <1>3, <1>4, Sites, Singled, Evident, Seating, OwnersCalled, PTL DEF Spec

-----------------------------------------------------------------------------
(* What a spot rests on.                                                   *)

\* A finite set has subsets of every size up to its own.
LEMMA SubsetOfSize ==
  ASSUME NEW S, IsFiniteSet(S), NEW n \in Nat, n <= Cardinality(S)
  PROVE  \E T \in SUBSET S : Cardinality(T) = n
<1> DEFINE sizes == {Cardinality(T) : T \in {U \in SUBSET S : Cardinality(U) >= n}}
<1>1. \A T \in SUBSET S : IsFiniteSet(T) /\ Cardinality(T) \in Nat
  BY FS_Subset, FS_CardinalityType
<1>2. PICK m \in sizes : \A k \in sizes : m <= k
  <2>1. sizes \in SUBSET Nat
    BY <1>1
  <2>2. Cardinality(S) \in sizes
    <3>1. S \in {U \in SUBSET S : Cardinality(U) >= n}
      BY <1>1
    <3> QED
      BY <3>1
  <2> HIDE DEF sizes
  <2> QED
    BY <2>1, <2>2, LeastNat
<1>3. PICK T \in SUBSET S : Cardinality(T) = m /\ m >= n /\ m \in Nat
  BY <1>1
<1>4. ASSUME m > n PROVE FALSE
  <2>1. T # {}
    BY <1>3, <1>4, FS_EmptySet
  <2>2. PICK x \in T : TRUE
    BY <2>1
  <2>3. Cardinality(T \ {x}) = m - 1
    BY <1>1, <1>3, <2>2, FS_RemoveElement
  <2>4. T \ {x} \in {U \in SUBSET S : Cardinality(U) >= n}
    BY <1>3, <1>4, <2>3
  <2>5. m - 1 \in sizes
    BY <2>3, <2>4
  <2> QED
    BY <1>2, <1>3, <2>5
<1> QED
  BY <1>3, <1>4

\* Readings of call, of the last REPEAT_S before t, as many as n and no two of them
\* one transmission that two bins heard.
Backs(witness, hs, t, call, n) ==
  /\ witness \subseteq {h \in hs : h.call = call /\ t - h.time <= REPEAT_S}
  /\ Cardinality(witness) = n
  /\ \A h, g \in witness : Independent(h, g)

Backed(spots, hs, t) ==
  \A s \in spots : \E witness \in SUBSET hs : Backs(witness, hs, t, s.call, Tier[s.call])

\* What is heard recently is in a window of its bin.
Placed(hs, wins, t) ==
  \A h \in hs : /\ t - h.time <= REPEAT_S => \E v \in wins : v.id = h.window
                /\ \A v \in wins : v.id = h.window => v.bin = h.bin

\* Copies of the last REPEAT_S, each counted once and no two of one transmission,
\* rest on as many readings.
LEMMA CopiesBack ==
  ASSUME NEW cs \in SUBSET Copy, IsFiniteSet(cs), NEW hs \in SUBSET HeardReading,
         NEW wins, NEW t \in Int, Witnessed(cs, hs), Single(cs, wins), Placed(hs, wins, t),
         \A c, d \in cs : CopyKey(c) = CopyKey(d) => c = d,
         \A c \in cs : t - c.time <= REPEAT_S,
         NEW call \in Calls, NEW f \in Freqs, NEW n \in Nat, Count(cs, call, f) >= n,
         \A c, d \in CopiesOf(cs, call, f) : Near(c.freq, d.freq)
  PROVE  \E witness \in SUBSET hs : Backs(witness, hs, t, call, n)
<1>1. PICK mine \in SUBSET CopiesOf(cs, call, f) : Cardinality(mine) = n
  <2>1. CopiesOf(cs, call, f) \subseteq cs
    BY DEF CopiesOf
  <2>2. IsFiniteSet(CopiesOf(cs, call, f))
    BY <2>1, FS_Subset
  <2> QED
    BY <2>2, SubsetOfSize DEF Count
<1>2. \A c \in mine : c \in cs /\ c \in Copy /\ c.call = call /\ Near(c.freq, f) /\ c.freq \in Freqs
  BY DEF CopiesOf, Copy
<1>3. IsFiniteSet(mine)
  <2>1. mine \subseteq cs
    BY <1>2
  <2> QED
    BY <2>1, FS_Subset
<1> DEFINE of(c, h) == /\ h.call = c.call /\ h.window = c.window /\ h.nth = c.nth
                       /\ h.time = c.time /\ Near(h.bin, c.freq)
           reading == [c \in mine |-> CHOOSE h \in hs : of(c, h)]
           witness == {reading[c] : c \in mine}
<1>4. \A c \in mine : reading[c] \in hs /\ of(c, reading[c])
  <2> SUFFICES ASSUME NEW c \in mine PROVE reading[c] \in hs /\ of(c, reading[c])
    OBVIOUS
  <2>1. \E h \in hs : of(c, h)
    BY <1>2 DEF Witnessed
  <2>2. reading[c] = CHOOSE h \in hs : of(c, h)
    OBVIOUS
  <2> HIDE DEF of, reading
  <2> QED
    BY <2>1, <2>2
<1>5. reading \in [mine -> witness]
  OBVIOUS
<1> HIDE DEF reading
<1>6. reading \in Surjection(mine, witness)
  BY <1>5 DEF Surjection
<1>7. \A c, d \in mine : reading[c] = reading[d] => c = d
  BY <1>2, <1>4 DEF CopyKey
<1>8. Cardinality(witness) = n
  <2> HIDE DEF witness
  <2>1. reading \in Injection(mine, witness)
    BY <1>5, <1>7, Fun_IsInj
  <2> QED
    BY <1>1, <1>3, <1>6, <2>1, FS_Surjection
<1>9. witness \subseteq {h \in hs : h.call = call /\ t - h.time <= REPEAT_S}
  BY <1>2, <1>4
<1>10. ASSUME NEW c \in mine, NEW d \in mine
       PROVE  Independent(reading[c], reading[d])
  <2> DEFINE h == reading[c]
             g == reading[d]
  <2>1. of(c, h) /\ of(d, g) /\ h \in hs /\ g \in hs
    BY <1>4
  <2>2. Near(c.freq, d.freq)
    BY DEF CopiesOf
  <2>3. t - h.time <= REPEAT_S /\ t - g.time <= REPEAT_S
    BY <1>2, <2>1
  <2> HIDE DEF h, g
  <2>4. PICK v \in wins : v.id = c.window /\ v.bin = h.bin
    BY <2>1, <2>3 DEF Placed
  <2>5. PICK u \in wins : u.id = d.window /\ u.bin = g.bin
    BY <2>1, <2>3 DEF Placed
  <2>6. c \in cs /\ d \in cs /\ c.call = d.call
    BY <1>2
  <2>7. v.bin # u.bin => Abs(c.time - d.time) >= WINDOW_S
    BY <2>2, <2>4, <2>5, <2>6 DEF Single
  <2>8. Independent(h, g)
    BY <2>1, <2>4, <2>5, <2>7 DEF Independent
  <2> QED
    BY <2>8 DEF h, g
<1>11. \A h, g \in witness : Independent(h, g)
  BY <1>10
<1> HIDE DEF witness
<1>12. witness \in SUBSET hs
  BY <1>9
<1> QED
  BY <1>8, <1>9, <1>11, <1>12 DEF Backs

\* A decision to spot a call has its tier in copies.
LEMMA DecideCounted ==
  ASSUME NEW r \in LoopState, NEW rd \in Reading, NEW call \in Calls, NEW owned, IsFiniteSet(r.copies)
  PROVE  \/ Decide(r, rd, call, owned) = r
         \/ /\ Count(r.copies, call, rd.freq) >= Tier[call]
            /\ \A s \in Decide(r, rd, call, owned).out : s \in r.out \/ s.call = call
<1> DEFINE mine == CopiesOf(r.copies, call, rd.freq)
           q == Decide(r, rd, call, owned)
<1>1. Cardinality(mine) \in Nat /\ Tier[call] \in Nat
  BY CountTyped, SpotRuleAssumption DEF Count
<1>2. CASE Cardinality(mine) < Tier[call]
  BY <1>2 DEF Decide
<1>3. CASE ~(Cardinality(mine) < Tier[call])
  <2>1. Count(r.copies, call, rd.freq) >= Tier[call]
    <3> HIDE DEF mine
    <3> QED
      BY <1>1, <1>3 DEF Count, mine
  <2>2. CASE q = r
    BY <2>2
  <2>3. ASSUME NEW f \in Freqs, q = SpotOf(r, rd.time, call, f)
        PROVE  \A s \in q.out : s \in r.out \/ s.call = call
    <3>1. q.out = r.out \cup {[call |-> call, freq |-> f]}
      BY <2>3 DEF SpotOf, LoopState
    <3> HIDE DEF q
    <3> QED
      BY <3>1
  <2>4. \/ q = r
        \/ \E f \in Freqs : q = SpotOf(r, rd.time, call, f)
    BY DecideEffect
  <2> HIDE DEF q
  <2>5. q = r \/ \A s \in q.out : s \in r.out \/ s.call = call
    BY <2>3, <2>4
  <2> QED
    BY <2>1, <2>5 DEF q
<1> QED
  BY <1>2, <1>3

\* Counting a call leaves every spot backed, its own included.
LEMMA CountCallBacked ==
  ASSUME NEW r \in LoopState, NEW rd \in Reading, NEW calls \in Seq(Calls),
         NEW i \in Nat \ {0}, NEW owned, NEW wins, NEW hs \in SUBSET HeardReading,
         HeardOf(calls, rd) \subseteq hs, Placed(hs, wins, rd.time),
         OwnWindow(rd, wins), NEW w \in Int, rd.window <= w,
         Agree(r.seen, r.copies), Witnessed(r.copies, hs), IsFiniteSet(r.copies),
         Single(r.copies, wins), Dated(r.copies, w, rd.time),
         Earshot(hs), Stationed(r.copies, hs, rd.time),
         Backed(r.out, hs, rd.time)
  PROVE  LET q == CountCall(r, rd, calls, i, owned, wins)
         IN Backed(q.out, hs, rd.time)
<1> DEFINE q == CountCall(r, rd, calls, i, owned, wins)
           added == Added(r, rd, calls, i, wins)
<1>1. CASE q = r
  BY <1>1
<1>2. /\ q \in LoopState /\ Agree(q.seen, q.copies)
      /\ Witnessed(q.copies, hs) /\ IsFiniteSet(q.copies)
      /\ Stationed(q.copies, hs, rd.time)
  BY CountCallWitnessed, Zenon
<1>3. Single(q.copies, wins)
  BY CountCallSingle, Zenon
<1>4. ASSUME i \in 1..Len(calls), calls[i] \in Calls, q = Decide(added, rd, calls[i], owned)
      PROVE  Backed(q.out, hs, rd.time)
  <2> DEFINE call == calls[i]
  <2>1. added \in LoopState /\ added.out = r.out
    BY <1>4, AddedEffect
  <2> HIDE DEF added, q
  <2>2. q.copies = added.copies
    BY <1>4, <2>1, DecideKeeps
  <2>3. CASE q = added
    BY <2>1, <2>3
  <2>4. CASE /\ Count(added.copies, call, rd.freq) >= Tier[call]
             /\ \A s \in q.out : s \in added.out \/ s.call = call
    <3>1. \E witness \in SUBSET hs : Backs(witness, hs, rd.time, call, Tier[call])
      <4>1. /\ Tier[call] \in Nat /\ call \in Calls /\ rd.freq \in Freqs /\ rd.time \in Int
            /\ q.copies \in SUBSET Copy
        BY <1>2, <1>4, SpotRuleAssumption DEF Reading, LoopState
      <4>2. /\ \A c, d \in q.copies : CopyKey(c) = CopyKey(d) => c = d
            /\ \A c \in q.copies : rd.time - c.time <= REPEAT_S
            /\ Count(q.copies, call, rd.freq) >= Tier[call]
        BY <1>2, <2>1, <2>2, <2>4 DEF Agree, Stationed, Lately
      <4>3. \A c, d \in CopiesOf(q.copies, call, rd.freq) : Near(c.freq, d.freq)
        <5> DEFINE B == Bins(hs, call, rd.time)
        <5>1. HeardNow(hs, rd, call)
          BY <1>4, CallsHeard DEF HeardNow
        <5>2. /\ B \subseteq Freqs /\ rd.freq \in B
              /\ \A c \in q.copies : c.call = call => c.freq \in B
              /\ \A f, g, k \in B : Near(f, g) /\ Near(g, k) => Near(f, k)
          BY <1>2, <4>1, <5>1, Within
        <5> HIDE DEF B
        <5>3. \A c \in CopiesOf(q.copies, call, rd.freq) : c.freq \in B /\ Near(c.freq, rd.freq)
          BY <5>2 DEF CopiesOf
        <5>4. \A f \in B : Near(f, rd.freq) => Near(rd.freq, f)
          BY <5>2, NearSymmetric
        <5> QED
          BY <5>2, <5>3, <5>4
      <4> HIDE DEF call
      <4> QED
        BY <1>2, <1>3, <4>1, <4>2, <4>3, CopiesBack
    <3>2. Backed(q.out, hs, rd.time)
      BY <2>1, <2>4, <3>1 DEF Backed
    <3> QED
      BY <2>1, <2>2, <3>2
  <2>5. IsFiniteSet(added.copies)
    BY <1>2, <2>2
  <2> QED
    BY <1>4, <2>1, <2>3, <2>4, <2>5, DecideCounted
<1>5. \/ q = r
      \/ i \in 1..Len(calls) /\ calls[i] \in Calls /\ q = Decide(added, rd, calls[i], owned)
  BY CountCallIs
<1> HIDE DEF q, added
<1>6. Backed(q.out, hs, rd.time)
  BY <1>1, <1>4, <1>5
<1> QED
  BY <1>6 DEF q

\* A feed returns no spot without its readings.
LEMMA FeedBacked ==
  ASSUME InEarshot', TypeOK, SeenMatchesCopies, Sited, Numbered, OneTransmissionOneCopy, Seated,
         Evidence, NEW f \in Freqs, NEW w, NEW rd, NEW lk, NEW r, FeedOf(f, w, rd, lk, r)
  PROVE  SpotsCorroborated'
<1> DEFINE wins == WindowsWith(w, f)
           next == IF w = nextWindow THEN w + 1 ELSE nextWindow
           last == next - 1
           owned == OwnedAt(f)
           calls == lk.calls
           hs == heard \cup HeardOf(calls, rd)
           r1 == CountCall(LoopStart, rd, calls, 1, owned, wins)
           r2 == CountCall(r1, rd, calls, 2, owned, wins)
           r3 == CountCall(r2, rd, calls, 3, owned, wins)
           Kept(s) == /\ s \in LoopState /\ Agree(s.seen, s.copies)
                      /\ Witnessed(s.copies, hs) /\ IsFiniteSet(s.copies)
                      /\ Single(s.copies, wins) /\ Dated(s.copies, last, rd.time)
                      /\ Stationed(s.copies, hs, rd.time)
           Good(s) == Kept(s) /\ Backed(s.out, hs, rd.time)
<1>1. /\ w \in WindowIds(f) /\ rd \in Reading /\ rd.window = w /\ rd.freq = f /\ rd.time = now
      /\ calls \in Seq(Calls)
  BY DEF FeedOf, Lockons
<1>2. r = r3 /\ out' = r.out /\ windows' = wins /\ heard' = hs /\ now' = now
  BY DEF FeedOf, Loop, FeedEffect
<1>3. Seated' /\ Evidence'
  BY FeedSeated, FeedEvidence
<1>4. hs \in SUBSET HeardReading /\ HeardOf(calls, rd) \subseteq hs /\ Earshot(hs)
  BY <1>2, <1>3 DEF Evidence, InEarshot
<1>5. Placed(hs, wins, rd.time)
  <2>1. REPEAT_S \in Nat /\ now \in Nat /\ \A h \in hs : h.time \in Int
    BY <1>4, SpotRuleAssumption DEF TypeOK, HeardReading
  <2> HIDE DEF hs, wins
  <2> QED
    BY <1>1, <1>2, <1>3, <2>1 DEF Seated, Placed
<1>6. /\ OwnWindow(rd, wins) /\ last \in Int /\ rd.window <= last
      /\ last >= nextWindow - 1 /\ \A v \in wins : v.id < nextWindow => v \in windows
  <2>1. /\ wins \subseteq windows \cup {[id |-> nextWindow, bin |-> f, first |-> now]}
        /\ \A v \in wins : v.id = w => v.bin = f /\ v.first = now
        /\ w = next - 1 /\ next \in Nat /\ next >= nextWindow
    BY <1>1, FeedNumbered
  <2>2. nextWindow \in Nat
    BY DEF TypeOK
  <2> DEFINE new == [id |-> nextWindow, bin |-> f, first |-> now]
  <2>3. new.id = nextWindow /\ wins \subseteq windows \cup {new}
    BY <2>1
  <2> HIDE DEF wins, next, new
  <2>4. \A v \in wins : v.id < nextWindow => v \in windows
    BY <2>2, <2>3
  <2> QED
    BY <1>1, <2>1, <2>2, <2>4 DEF OwnWindow
<1>7. Kept(LoopStart)
  <2>1. /\ LoopStart \in LoopState /\ Agree(LoopStart.seen, LoopStart.copies)
        /\ LoopStart.copies = FreshCopies
    BY LoopStartIs
  <2>2. FreshCopies \subseteq copies
    BY DEF FreshCopies
  <2>3. IsFiniteSet(FreshCopies) /\ Witnessed(FreshCopies, hs)
    BY <2>2, FS_Subset DEF Evidence, Witnessed
  <2>4. /\ \A c \in copies : /\ c.window \in Nat /\ c.window <= nextWindow - 1 /\ c.time <= now
                             /\ c.window < nextWindow /\ c.time \in Int
        /\ REPEAT_S \in Nat /\ now \in Nat /\ nextWindow \in Nat
    <3>1. REPEAT_S \in Nat /\ now \in Nat /\ nextWindow \in Nat
      BY SpotRuleAssumption DEF TypeOK
    <3>2. \A c \in copies : /\ c.window \in Nat /\ c.time \in Int
                            /\ c.window <= nextWindow - 1 /\ c.time <= now
      BY DEF Numbered, Dated, TypeOK, Copy
    <3> QED
      BY <3>1, <3>2
  <2>5. Single(FreshCopies, wins)
    <3>1. \A c \in copies, v \in wins : v.id = c.window => v \in windows
      BY <1>6, <2>4
    <3> HIDE DEF wins
    <3> QED
      BY <2>2, <3>1 DEF OneTransmissionOneCopy, Single
  <2> HIDE DEF last
  <2>6. Dated(FreshCopies, last, rd.time)
    BY <1>1, <1>6, <2>2, <2>4 DEF Dated
  <2>7. Stationed(LoopStart.copies, hs, rd.time)
    <3>1. heard \subseteq hs
      OBVIOUS
    <3> HIDE DEF hs
    <3> QED
      BY <1>1, <3>1, StartStationed
  <2> QED
    BY <2>1, <2>3, <2>5, <2>6, <2>7
<1>8. Good(LoopStart)
  BY <1>7, LoopStartIs DEF Backed
<1> HIDE DEF wins, next, last, owned, calls, hs
<1>9. 1 \in Nat \ {0} /\ 2 \in Nat \ {0} /\ 3 \in Nat \ {0}
  OBVIOUS
<1>10. ASSUME NEW q, Good(q), NEW i \in Nat \ {0}
       PROVE  Good(CountCall(q, rd, calls, i, owned, wins))
  <2> DEFINE p == CountCall(q, rd, calls, i, owned, wins)
  <2>1. /\ p \in LoopState /\ Agree(p.seen, p.copies)
        /\ Witnessed(p.copies, hs) /\ IsFiniteSet(p.copies)
        /\ Stationed(p.copies, hs, rd.time)
    BY <1>1, <1>4, <1>10, CountCallWitnessed, Zenon
  <2>2. Single(p.copies, wins) /\ Dated(p.copies, last, rd.time)
    BY <1>1, <1>4, <1>6, <1>10, CountCallSingle, Zenon
  <2>3. Backed(p.out, hs, rd.time)
    BY <1>1, <1>4, <1>5, <1>6, <1>10, CountCallBacked, Zenon
  <2> QED
    BY <2>1, <2>2, <2>3
<1>11. Good(r3)
  <2> HIDE DEF Good
  <2>1. Good(r1)
    BY <1>8, <1>9, <1>10
  <2>2. Good(r2)
    BY <1>9, <1>10, <2>1
  <2> QED
    BY <1>9, <1>10, <2>2
<1> HIDE DEF r3
<1>12. Backed(out', heard', now')
  BY <1>1, <1>2, <1>11
<1> QED
  BY <1>12 DEF SpotsCorroborated, Backed, Backs

\* On any grid of bins: as long as no chain of bins reads one call further than NEAR,
\* a call is spotted on nothing but its own repeats: as many readings as its tier
\* asks for, of the last REPEAT_S, none of them the audio of another.
THEOREM SpotsBacked == Spec => [](InEarshot => SpotsCorroborated)
<1>1. Init => SpotsCorroborated
  BY DEF Init, SpotsCorroborated
<1>2. /\ IInv /\ Sited /\ (InEarshot => Numbered /\ OneTransmissionOneCopy)
      /\ (InEarshot => Evidence) /\ (InEarshot => Seated)
      /\ (InEarshot => SpotsCorroborated) /\ [Next]_vars
      => (InEarshot => SpotsCorroborated)'
  <2> SUFFICES ASSUME IInv, Sited, InEarshot', [Next]_vars,
                      InEarshot => /\ Numbered /\ OneTransmissionOneCopy /\ Evidence /\ Seated
                                   /\ SpotsCorroborated
               PROVE  SpotsCorroborated'
    OBVIOUS
  <2>1. CASE Stop \/ Crash
    BY <2>1 DEF Stop, Crash, Down, SpotsCorroborated
  <2>2. (/\ Numbered /\ OneTransmissionOneCopy /\ Evidence /\ Seated
         /\ SpotsCorroborated) \/ Stop \/ Crash
    BY StayInEarshot
  <2> SUFFICES ASSUME Numbered, OneTransmissionOneCopy, Evidence, Seated, SpotsCorroborated
               PROVE  SpotsCorroborated'
    BY <2>1, <2>2
  <2>3. CASE Decode
    <3>1. PICK f \in Freqs, text \in Texts, snr \in Snrs : Feed(f, text, snr)
      BY <2>3 DEF Decode
    <3>2. PICK w, rd, lk, r : FeedOf(f, w, rd, lk, r)
      BY <3>1, FeedIs DEF IInv
    <3> QED
      BY <3>2, FeedBacked DEF IInv
  <2>4. CASE Tick \/ Save \/ Start
    <3>1. out' = {}
      BY <2>4 DEF Tick, Save, Start
    <3> QED
      BY <3>1 DEF SpotsCorroborated
  <2>5. CASE UNCHANGED vars
    BY <2>5 DEF vars, SpotsCorroborated
  <2> QED
    BY <2>1, <2>3, <2>4, <2>5 DEF Next
<1> QED
  BY <1>1, <1>2, Sites, Singled, Evident, Seating, PTL DEF Spec

=============================================================================
