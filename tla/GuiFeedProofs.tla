--------------------------- MODULE GuiFeedProofs ----------------------------
(***************************************************************************)
(* Proofs about GuiFeed for every set of clients and bands, every limit    *)
(* and every bound: the types with the limits of the queues and of the     *)
(* table, what is published is true to its band, nothing of an old band    *)
(* reaches a client after a new hello, and a client that stays misses      *)
(* nothing the feed keeps.                                                 *)
(***************************************************************************)
EXTENDS GuiFeed, FiniteSetTheorems, SequenceTheorems, WellFoundedInduction, TLAPS

-----------------------------------------------------------------------------
(* The inductive invariant.                                                *)

WithIq == {"window", "spot", "row"}
Dated == WithIq \cup {"status"}

\* A callback the copy may queue while it is on band b.
Fits(m, b) ==
  /\ m \in Calls /\ m.type # "bands"
  /\ m.type \in WithIq => m.iq \subseteq {m.band}
  /\ m.type \in Dated => m.band = b

\* The callbacks s lead a feed whose hello is of h to band b: each is of the band
\* that w gives to its place.
Leads(w, h, s, b) ==
  /\ w \in [0..Len(s) -> Bands] /\ w[0] = h /\ w[Len(s)] = b
  /\ \A i \in 1..Len(s) :
       \/ s[i].type = "bands" /\ s[i].band = w[i]
       \/ Fits(s[i], w[i]) /\ w[i] = w[i - 1]

Carried(h, s, b) == \E w : Leads(w, h, s, b)

\* What the loop has in its hands is of the band it names, but between a retune
\* and what follows it.
InHand ==
  /\ scanner.centre = band /\ tap.centre = band
  /\ scanner.iq \subseteq {band} /\ tap.iq \subseteq {band}
  /\ pc # "moved" => raw \subseteq {band} /\ tuned \in {None, band}
  /\ pc = "moved" => tuned = controls[1].change
  /\ pc \notin {"turn", "over"} => controls # <<>>

\* What the feed keeps is of the band of its hello.
FeedNow ==
  /\ \A k \in Kept : \A i \in 1..Len(store[k]) : store[k][i].band = hello
  /\ status \in {None, hello}

\* A message that may wait for a client of a feed whose hello is of h.
Waits(m, h) ==
  /\ m.type \in Kept \cup {"status", "hello"} => m.band = h
  /\ m.type = "snapshot" =>
       /\ \A k \in Kept : \A i \in 1..Len(m.store[k]) : m.store[k][i].band = h
       /\ m.status \in {None, h}

\* What a client has been sent is of one band.
OneBand(v) ==
  /\ v.of \subseteq {v.band}
  /\ \A k \in Kept : \A i \in 1..Len(v.kept[k]) : v.kept[k][i].band = v.band

\* What waits for a client is of the hello's band, and it knows that band or is told first.
QueueNow(c) ==
  /\ \A i \in 1..Len(text[c]) : Waits(text[c][i], hello) /\ (text[c][i].type = "hello" => i = 1)
  /\ \A i \in 1..Len(spectrum[c]) : spectrum[c][i].band = hello
  /\ view[c].band # hello => text[c] # <<>> /\ text[c][1].type = "hello"

ClientNow(c) ==
  /\ OneBand(view[c])
  /\ c \in Open => QueueNow(c)
  /\ conn[c] = "none" => spectrum[c] = <<>>

IInv ==
  /\ TypeOK /\ InHand /\ FeedNow /\ Carried(hello, calls, band)
  /\ \A c \in Clients : ClientNow(c)

-----------------------------------------------------------------------------
(* Callbacks.                                                              *)

\* The kinds of a callback.
LEMMA CallKinds ==
  ASSUME NEW m \in Calls
  PROVE  /\ m.type \in Dated \cup {"bands", "queue", "shutdown"}
         /\ m.type \in WithIq => m \in Messages(m.type)
         /\ m.type \in Kept => m \in Texts
         /\ m.type = "status" => m \in Texts /\ m.band \in Bands
         /\ m.type = "bands" => m.band \in Bands
         /\ m.type = "queue" => m.to \in Clients /\ m.msg \in Results
<1>1. \/ m \in Messages("window") \/ m \in Messages("spot") \/ m \in Messages("row")
      \/ m \in [type : {"status", "bands"}, band : Bands]
      \/ m \in [type : {"queue"}, to : Clients, msg : Results]
      \/ m \in [type : {"shutdown"}]
  BY DEF Calls
<1>2. CASE m \in Messages("window")
  BY <1>2 DEF Messages, WithIq, Dated, Kept, Texts
<1>3. CASE m \in Messages("spot")
  BY <1>3 DEF Messages, WithIq, Dated, Kept, Texts
<1>4. CASE m \in Messages("row")
  BY <1>4 DEF Messages, WithIq, Dated, Kept
<1>5. CASE m \in [type : {"status", "bands"}, band : Bands]
  <2>1. m.type = "status" => m \in [type : {"status", "hello"}, band : Bands]
    BY <1>5
  <2> QED
    BY <1>5, <2>1 DEF WithIq, Dated, Kept, Texts
<1>6. CASE m \in [type : {"queue"}, to : Clients, msg : Results]
  BY <1>6 DEF WithIq, Dated, Kept
<1>7. CASE m \in [type : {"shutdown"}]
  BY <1>7 DEF WithIq, Dated, Kept
<1> QED
  BY <1>1, <1>2, <1>3, <1>4, <1>5, <1>6, <1>7

\* More callbacks of the same band.
LEMMA Adds ==
  ASSUME NEW h, NEW b \in Bands, NEW s \in Seq(Calls), NEW x \in Seq(Calls),
         \A i \in 1..Len(x) : Fits(x[i], b), Carried(h, s, b)
  PROVE  s \o x \in Seq(Calls) /\ Carried(h, s \o x, b)
<1> DEFINE n == Len(s)
           k == Len(x)
<1>1. /\ n \in Nat /\ k \in Nat /\ s \o x \in Seq(Calls) /\ Len(s \o x) = n + k
      /\ \A i \in 1..n + k : (s \o x)[i] = IF i <= n THEN s[i] ELSE x[i - n]
  BY ConcatProperties, LenProperties
<1>2. PICK w : Leads(w, h, s, b)
  BY DEF Carried
<1> DEFINE v == [i \in 0..n + k |-> IF i <= n THEN w[i] ELSE b]
           sx == s \o x
<1>3. /\ w \in [0..n -> Bands] /\ w[0] = h /\ w[n] = b
      /\ \A i \in 1..n : \/ s[i].type = "bands" /\ s[i].band = w[i]
                         \/ Fits(s[i], w[i]) /\ w[i] = w[i - 1]
  BY <1>2 DEF Leads
<1>4. Len(sx) = n + k /\ \A i \in 1..n + k : sx[i] = IF i <= n THEN s[i] ELSE x[i - n]
  BY <1>1
<1>5. \A i \in 1..k : Fits(x[i], b)
  OBVIOUS
<1> HIDE DEF n, k, sx
<1>6. v \in [0..n + k -> Bands] /\ v[0] = h /\ v[n + k] = b
  BY <1>1, <1>3
<1>7. ASSUME NEW i \in 1..n + k
      PROVE  \/ sx[i].type = "bands" /\ sx[i].band = v[i]
             \/ Fits(sx[i], v[i]) /\ v[i] = v[i - 1]
  <2>1. CASE i <= n
    <3>1. i \in 1..n /\ i - 1 \in 0..n + k /\ i \in 0..n + k /\ i - 1 <= n
      BY <2>1, <1>1
    <3>2. v[i] = w[i] /\ v[i - 1] = w[i - 1] /\ sx[i] = s[i]
      BY <3>1, <2>1, <1>4
    <3> HIDE DEF v
    <3> QED
      BY <3>1, <3>2, <1>3
  <2>2. CASE ~(i <= n)
    <3>1. i - n \in 1..k /\ i - 1 \in 0..n + k /\ i \in 0..n + k /\ (i - 1 <= n => i - 1 = n)
      BY <2>2, <1>1
    <3>2. v[i] = b /\ v[i - 1] = b
      BY <3>1, <2>2, <1>3
    <3>3. sx[i] = x[i - n]
      BY <2>2, <1>4
    <3> HIDE DEF v
    <3> QED
      BY <3>1, <3>2, <3>3, <1>5
  <2> QED
    BY <2>1, <2>2
<1>8. Leads(v, h, sx, b)
  <2> HIDE DEF v
  <2> QED
    BY <1>4, <1>6, <1>7 DEF Leads
<1> QED
  BY <1>1, <1>8 DEF Carried, sx

\* The new bands.
LEMMA AddsBands ==
  ASSUME NEW h, NEW b \in Bands, NEW to \in Bands, NEW s \in Seq(Calls), NEW m \in Calls,
         m.type = "bands", m.band = to, Carried(h, s, b)
  PROVE  Append(s, m) \in Seq(Calls) /\ Carried(h, Append(s, m), to)
<1> DEFINE n == Len(s)
           sx == Append(s, m)
<1>1. /\ n \in Nat /\ sx \in Seq(Calls) /\ Len(sx) = n + 1
      /\ \A i \in 1..n : sx[i] = s[i]
      /\ sx[n + 1] = m
  BY AppendProperties, LenProperties
<1>2. PICK w : Leads(w, h, s, b)
  BY DEF Carried
<1> DEFINE v == [i \in 0..n + 1 |-> IF i <= n THEN w[i] ELSE to]
<1>3. /\ w \in [0..n -> Bands] /\ w[0] = h
      /\ \A i \in 1..n : \/ s[i].type = "bands" /\ s[i].band = w[i]
                         \/ Fits(s[i], w[i]) /\ w[i] = w[i - 1]
  BY <1>2 DEF Leads
<1> HIDE DEF n, sx
<1>4. v \in [0..n + 1 -> Bands] /\ v[0] = h /\ v[n + 1] = to
  BY <1>1, <1>3
<1>5. ASSUME NEW i \in 1..n + 1
      PROVE  \/ sx[i].type = "bands" /\ sx[i].band = v[i]
             \/ Fits(sx[i], v[i]) /\ v[i] = v[i - 1]
  <2>1. CASE i \in 1..n
    <3>1. v[i] = w[i] /\ v[i - 1] = w[i - 1]
      BY <2>1, <1>1
    <3> HIDE DEF v
    <3> QED
      BY <2>1, <3>1, <1>1, <1>3
  <2>2. CASE i = n + 1
    BY <2>2, <1>1, <1>4
  <2> QED
    BY <2>1, <2>2, <1>1
<1>6. Leads(v, h, sx, to)
  <2> HIDE DEF v
  <2> QED
    BY <1>1, <1>4, <1>5 DEF Leads
<1> QED
  BY <1>1, <1>6 DEF Carried, sx

\* The first is run.
LEMMA Takes ==
  ASSUME NEW h, NEW b \in Bands, NEW s \in Seq(Calls), s # <<>>, Carried(h, s, b)
  PROVE  /\ Tail(s) \in Seq(Calls) /\ Head(s) \in Calls
         /\ Head(s).type = "bands" => Carried(Head(s).band, Tail(s), b)
         /\ Head(s).type # "bands" => Fits(Head(s), h) /\ Carried(h, Tail(s), b)
<1> DEFINE n == Len(s)
           t == Tail(s)
           m == Head(s)
<1>1. /\ n \in Nat \ {0} /\ t \in Seq(Calls) /\ m \in Calls /\ Len(t) = n - 1
      /\ \A i \in 1..n - 1 : t[i] = s[i + 1]
  BY HeadTailProperties, LenProperties, EmptySeq
<1>2. m = s[1]
  OBVIOUS
<1>3. PICK w : Leads(w, h, s, b)
  BY DEF Carried
<1> DEFINE v == [i \in 0..n - 1 |-> w[i + 1]]
<1>4. /\ w \in [0..n -> Bands] /\ w[0] = h /\ w[n] = b
      /\ \A i \in 1..n : \/ s[i].type = "bands" /\ s[i].band = w[i]
                         \/ Fits(s[i], w[i]) /\ w[i] = w[i - 1]
  BY <1>3 DEF Leads
<1> HIDE DEF n, t, m
<1>5. v \in [0..n - 1 -> Bands] /\ v[0] = w[1] /\ v[n - 1] = b
  BY <1>1, <1>4
<1>6. ASSUME NEW i \in 1..n - 1
      PROVE  \/ t[i].type = "bands" /\ t[i].band = v[i]
             \/ Fits(t[i], v[i]) /\ v[i] = v[i - 1]
  <2>1. i + 1 \in 1..n /\ t[i] = s[i + 1] /\ (i + 1) - 1 = i
    BY <1>1
  <2>2. v[i] = w[i + 1] /\ v[i - 1] = w[i]
    BY <1>1
  <2> HIDE DEF v
  <2> QED
    BY <2>1, <2>2, <1>4
<1>7. Carried(w[1], t, b)
  <2> HIDE DEF v
  <2>1. Leads(v, w[1], t, b)
    BY <1>1, <1>5, <1>6 DEF Leads
  <2> QED
    BY <2>1 DEF Carried
<1>8. \/ m.type = "bands" /\ m.band = w[1]
      \/ Fits(m, h) /\ w[1] = h
  <2>1. 1 \in 1..n /\ 1 - 1 = 0
    BY <1>1
  <2> QED
    BY <2>1, <1>2, <1>4
<1>9. /\ m.type = "bands" => Carried(m.band, t, b)
      /\ m.type # "bands" => Fits(m, h) /\ Carried(h, t, b)
  BY <1>7, <1>8 DEF Fits
<1> QED
  BY <1>1, <1>9 DEF t, m

\* Nothing, or one callback that fits.
LEMMA MaybeOne ==
  ASSUME NEW b, NEW m, Fits(m, b), NEW x \in {<<>>, <<m>>}
  PROVE  x \in Seq(Calls) /\ \A i \in 1..Len(x) : Fits(x[i], b)
<1>1. m \in Calls
  BY DEF Fits
<1>2. CASE x = <<>>
  BY <1>2
<1>3. CASE x = <<m>>
  BY <1>1, <1>3
<1> QED
  BY <1>2, <1>3

-----------------------------------------------------------------------------
(* The copy.                                                               *)

\* The start.
THEOREM Initially == Init => IInv
<1> SUFFICES ASSUME Init PROVE IInv
  OBVIOUS
<1>1. TypeOK
  <2>1. Served = {}
    BY DEF Init, Served
  <2>2. Cardinality(Served) = 0
    BY <2>1, FS_EmptySet
  <2>3. Empty \in Stores /\ Empty.spot = <<>>
    BY DEF Empty, Stores, Kept
  <2>4. \A S : <<>> \in Seq(S) /\ Len(<<>>) = 0
    BY EmptySeq
  <2> QED
    BY <2>2, <2>3, <2>4, GuiFeedAssumption DEF Init, TypeOK, Nothing, Iq
<1>2. InHand /\ FeedNow
  BY DEF Init, InHand, FeedNow, Empty, Kept
<1>3. Carried(hello, calls, band)
  <2>1. Leads([i \in 0..0 |-> band], hello, calls, band)
    BY GuiFeedAssumption DEF Init, Leads
  <2> QED
    BY <2>1 DEF Carried
<1>4. \A c \in Clients : ClientNow(c)
  BY DEF Init, ClientNow, Open, OneBand, Nothing, Empty, Kept
<1> QED
  BY <1>1, <1>2, <1>3, <1>4 DEF IInv

\* What the copy and what waits for it are, apart from the rest.
CopyTypes ==
  /\ tuned \in Bands \cup {None} /\ raw \in Iq /\ band \in Bands /\ turns \in 0..MaxTurns
  /\ scanner \in [centre : Bands, iq : Iq] /\ tap \in [centre : Bands, iq : Iq]
  /\ controls \in Seq([change : Changes, by : Clients]) /\ Len(controls) <= 1
  /\ pc \in {"turn", "retune", "moved", "refused", "done", "over"}

\* A step of the copy that leaves the feed alone keeps the invariant, when it keeps
\* its own part.
LEMMA CopyKeeps ==
  ASSUME IInv, UNCHANGED <<feed, ends>>, CopyTypes', InHand', calls' \in Seq(Calls),
         Carried(hello, calls', band')
  PROVE  IInv'
<1>1. TypeOK'
  BY DEF IInv, TypeOK, CopyTypes, feed, ends, Served, Open
<1>2. FeedNow' /\ Carried(hello, calls, band)' /\ \A c \in Clients : ClientNow(c)'
  BY DEF IInv, FeedNow, feed, ends, ClientNow, Open, QueueNow
<1> QED
  BY <1>1, <1>2 DEF IInv

\* An answer to the asker.
LEMMA ReplyFits ==
  ASSUME IInv, controls # <<>>, NEW ok \in BOOLEAN, NEW b
  PROVE  Fits(Reply(ok), b)
<1>1. controls[1] \in [change : Changes, by : Clients]
  <2>1. 1 \in 1..Len(controls) /\ controls \in Seq([change : Changes, by : Clients])
    BY EmptySeq DEF IInv, TypeOK
  <2> QED
    BY <2>1, ElementOfSeq
<1>2. Reply(ok) \in [type : {"queue"}, to : Clients, msg : Results]
  BY <1>1 DEF Reply, Result, Results
<1>3. Reply(ok).type = "queue" /\ Reply(ok) \in Calls
  BY <1>2 DEF Calls, Reply
<1> QED
  BY <1>3 DEF Fits, WithIq, Dated

\* One more callback that fits.
LEMMA AddsOne ==
  ASSUME NEW h, NEW b \in Bands, NEW s \in Seq(Calls), NEW m, Fits(m, b), Carried(h, s, b)
  PROVE  /\ s \o <<m>> \in Seq(Calls) /\ Carried(h, s \o <<m>>, b)
         /\ Append(s, m) \in Seq(Calls) /\ Carried(h, Append(s, m), b)
<1>1. m \in Calls
  BY DEF Fits
<1>2. <<m>> \in Seq(Calls) /\ \A i \in 1..Len(<<m>>) : Fits(<<m>>[i], b)
  BY MaybeOne
<1>3. s \o <<m>> \in Seq(Calls) /\ Carried(h, s \o <<m>>, b)
  BY <1>2, Adds
<1>4. Append(s, m) = s \o <<m>>
  BY <1>1, AppendIsConcat
<1> QED
  BY <1>3, <1>4

\* A turn of the loop publishes of the band it is on.
LEMMA TurnStep ==
  ASSUME IInv, Turn
  PROVE  IInv'
<1>1. /\ pc = "turn" /\ band \in Bands /\ calls \in Seq(Calls) /\ turns \in 0..MaxTurns
      /\ InHand /\ CopyTypes /\ Carried(hello, calls, band)
  BY DEF Turn, IInv, TypeOK, CopyTypes
<1>2. /\ raw' = {} /\ scanner' = [scanner EXCEPT !.iq = @ \cup raw] /\ turns' = turns + 1
      /\ turns < MaxTurns /\ tap' \in {tap, [tap EXCEPT !.iq = @ \cup raw]}
      /\ UNCHANGED <<tuned, band, controls, pc, feed, ends>>
  BY DEF Turn
<1>3. /\ scanner' \in [centre : Bands, iq : Iq] /\ tap' \in [centre : Bands, iq : Iq]
      /\ scanner'.centre = band /\ scanner'.iq \subseteq {band}
      /\ tap'.centre = band /\ tap'.iq \subseteq {band}
  BY <1>1, <1>2 DEF InHand, CopyTypes, Iq
<1>4. CopyTypes' /\ InHand'
  BY <1>1, <1>2, <1>3, GuiFeedAssumption DEF CopyTypes, InHand, Iq
<1> DEFINE window == Data("window", scanner.centre, scanner'.iq)
           row == Data("row", tap.centre, tap'.iq)
           spot == Data("spot", scanner.centre, scanner'.iq)
           Some(out, k, m) == IF k \in out THEN <<m>> ELSE <<>>
<1>5. Fits(window, band) /\ Fits(row, band) /\ Fits(spot, band) /\ Fits(Status(band), band)
  <2>1. Fits(Status(band), band)
    <3>1. Status(band) \in [type : {"status", "bands"}, band : Bands]
      BY <1>1 DEF Status
    <3>2. Status(band) \in Calls
      BY <3>1 DEF Calls
    <3> QED
      BY <3>2 DEF Fits, Status, WithIq, Dated
  <2>2. ASSUME NEW j \in WithIq, NEW iq \in Iq, iq \subseteq {band}
        PROVE  Fits(Data(j, band, iq), band)
    <3>1. Data(j, band, iq) \in Messages(j)
      BY <1>1 DEF Data, Messages
    <3>2. Data(j, band, iq) \in Calls
      BY <3>1 DEF Calls, WithIq
    <3> QED
      BY <3>2, <2>2 DEF Fits, Data, WithIq, Dated
  <2>3. scanner.centre = band /\ tap.centre = band /\ scanner'.iq \in Iq /\ tap'.iq \in Iq
    BY <1>1, <1>3 DEF InHand
  <2> QED
    BY <2>1, <2>2, <2>3, <1>3 DEF WithIq
<1>6. PICK out \in Outputs :
        calls' = calls \o Some(out, "window", window) \o Some(out, "row", row)
                       \o Some(out, "spot", spot) \o Some(out, "status", Status(band))
  BY DEF Turn
<1>7. ASSUME NEW s \in Seq(Calls), Carried(hello, s, band), NEW k, NEW m, Fits(m, band)
      PROVE  s \o Some(out, k, m) \in Seq(Calls) /\ Carried(hello, s \o Some(out, k, m), band)
  <2>1. Some(out, k, m) \in {<<>>, <<m>>}
    OBVIOUS
  <2> HIDE DEF Some
  <2>2. Some(out, k, m) \in Seq(Calls) /\ \A i \in 1..Len(Some(out, k, m)) : Fits(Some(out, k, m)[i], band)
    BY <2>1, <1>7, MaybeOne
  <2> QED
    BY <2>2, <1>1, <1>7, Adds
<1>8. calls' \in Seq(Calls) /\ Carried(hello, calls', band)
  <2> HIDE DEF window, row, spot, Some
  <2> DEFINE s1 == calls \o Some(out, "window", window)
             s2 == s1 \o Some(out, "row", row)
             s3 == s2 \o Some(out, "spot", spot)
             s4 == s3 \o Some(out, "status", Status(band))
  <2>1. s1 \in Seq(Calls) /\ Carried(hello, s1, band)
    BY <1>1, <1>5, <1>7
  <2>2. s2 \in Seq(Calls) /\ Carried(hello, s2, band)
    <3> HIDE DEF s1
    <3> QED
      BY <2>1, <1>5, <1>7
  <2>3. s3 \in Seq(Calls) /\ Carried(hello, s3, band)
    <3> HIDE DEF s2
    <3> QED
      BY <2>2, <1>5, <1>7
  <2>4. s4 \in Seq(Calls) /\ Carried(hello, s4, band)
    <3> HIDE DEF s3
    <3> QED
      BY <2>3, <1>5, <1>7
  <2> QED
    BY <2>4, <1>6
<1> QED
  BY <1>2, <1>4, <1>8, CopyKeeps

\* A live change: the radio moves, and then what names its band does.
LEMMA ChangeStep ==
  ASSUME IInv, Change
  PROVE  IInv'
<1>1. /\ band \in Bands /\ calls \in Seq(Calls) /\ InHand /\ CopyTypes /\ Carried(hello, calls, band)
  BY DEF IInv, TypeOK, CopyTypes
<1>2. ASSUME controls # <<>> PROVE controls[1].change \in Bands
  <2>1. 1 \in 1..Len(controls)
    BY <1>2, <1>1, EmptySeq DEF CopyTypes
  <2>2. controls[1] \in [change : Changes, by : Clients]
    BY <2>1, <1>1, ElementOfSeq DEF CopyTypes
  <2> QED
    BY <2>2, GuiFeedAssumption
<1>3. CASE TakeChange
  <2>1. /\ controls # <<>> /\ UNCHANGED <<tuned, raw, scanner, tap, band, controls, turns, feed, ends>>
        /\ pc = "turn"
        /\ \/ calls' = calls \o <<Reply(TRUE)>> /\ pc' = "done"
           \/ calls' = calls /\ pc' = "retune"
    BY <1>3 DEF TakeChange, Done
  <2>2. calls' \in Seq(Calls) /\ Carried(hello, calls', band)
    BY <2>1, <1>1, AddsOne, ReplyFits
  <2>3. CopyTypes' /\ InHand'
    BY <2>1, <1>1 DEF CopyTypes, InHand
  <2> QED
    BY <2>1, <2>2, <2>3, CopyKeeps
<1>4. CASE Retune
  <2>1. /\ controls # <<>> /\ pc = "retune" /\ UNCHANGED <<raw, scanner, tap, band, controls, turns, calls, feed, ends>>
        /\ \/ tuned' = controls[1].change /\ pc' = "moved"
           \/ tuned' \in {tuned, None} /\ pc' = "refused"
    BY <1>4, <1>1 DEF Retune, InHand
  <2>2. CopyTypes' /\ InHand'
    BY <2>1, <1>1, <1>2 DEF CopyTypes, InHand
  <2> QED
    BY <2>1, <2>2, <1>1, CopyKeeps
<1>5. CASE Moved
  <2> DEFINE to == controls[1].change
             m == [type |-> "bands", band |-> to]
  <2>1. /\ controls # <<>> /\ pc = "moved" /\ pc' = "done" /\ UNCHANGED <<tuned, controls, turns, feed, ends>>
        /\ raw' = {} /\ scanner' = [centre |-> to, iq |-> {}] /\ tap' = [centre |-> to, iq |-> {}] /\ band' = to
        /\ calls' = calls \o <<m, Reply(TRUE)>>
    BY <1>5, <1>1 DEF Moved, NewBuffer, Done, Tells, InHand
  <2>2. to \in Bands
    BY <2>1, <1>2
  <2>3. m \in Calls /\ m.type = "bands" /\ m.band = to
    <3>1. m \in [type : {"status", "bands"}, band : Bands]
      BY <2>2
    <3> QED
      BY <3>1 DEF Calls
  <2>4. Reply(TRUE) \in Calls /\ Fits(Reply(TRUE), to)
    BY <2>1, ReplyFits DEF Fits
  <2> DEFINE r == Reply(TRUE)
             s == Append(calls, m)
  <2>5. s \in Seq(Calls) /\ Carried(hello, s, to)
    <3> HIDE DEF m, to
    <3> QED
      BY <2>2, <2>3, <1>1, AddsBands
  <2>6. Append(s, r) \in Seq(Calls) /\ Carried(hello, Append(s, r), to)
    <3> HIDE DEF m, to, s, r
    <3> QED
      BY <2>2, <2>4, <2>5, AddsOne DEF r
  <2>7. calls' = Append(s, r)
    <3> HIDE DEF m, to, r
    <3>1. m \in Calls /\ r \in Calls /\ calls' = calls \o <<m, r>>
      BY <2>1, <2>3, <2>4 DEF r
    <3> QED
      BY <3>1, <1>1
  <2>8. CopyTypes' /\ InHand'
    BY <2>1, <2>2, <1>1 DEF CopyTypes, InHand, Iq
  <2> QED
    BY <2>1, <2>6, <2>7, <2>8, CopyKeeps
<1>6. CASE Answers
  <2>1. /\ controls # <<>> /\ pc = "refused" /\ pc' = "done" /\ calls' = calls \o <<Reply(FALSE)>>
        /\ UNCHANGED <<tuned, raw, scanner, tap, band, controls, turns, feed, ends>>
    BY <1>6, <1>1 DEF Answers, Done, Refusal, InHand
  <2>2. calls' \in Seq(Calls) /\ Carried(hello, calls', band)
    BY <2>1, <1>1, AddsOne, ReplyFits
  <2>3. CopyTypes' /\ InHand'
    BY <2>1, <1>1 DEF CopyTypes, InHand
  <2> QED
    BY <2>1, <2>2, <2>3, CopyKeeps
<1>7. CASE Pop
  <2>1. /\ controls # <<>> /\ pc = "done" /\ pc' = "turn" /\ controls' = Tail(controls)
        /\ UNCHANGED <<tuned, raw, scanner, tap, band, turns, calls, feed, ends>>
    BY <1>7, <1>1 DEF Pop, InHand
  <2>2. controls' \in Seq([change : Changes, by : Clients]) /\ Len(controls') <= 1
    BY <2>1, <1>1, HeadTailProperties, LenProperties DEF CopyTypes
  <2>3. CopyTypes' /\ InHand'
    BY <2>1, <2>2, <1>1 DEF CopyTypes, InHand
  <2> QED
    BY <2>1, <2>3, <1>1, CopyKeeps
<1> QED
  BY <1>3, <1>4, <1>5, <1>6, <1>7 DEF Change

\* The copy keeps the invariant.
LEMMA CopyStep ==
  ASSUME IInv, Copy
  PROVE  IInv'
<1>1. /\ band \in Bands /\ calls \in Seq(Calls) /\ InHand /\ CopyTypes /\ Carried(hello, calls, band)
  BY DEF IInv, TypeOK, CopyTypes
<1>2. CASE Samples
  <2>1. /\ tuned # None /\ raw' = raw \cup {tuned}
        /\ UNCHANGED <<tuned, scanner, tap, band, controls, pc, turns, calls, feed, ends>>
    BY <1>2 DEF Samples
  <2>2. CopyTypes' /\ InHand'
    BY <2>1, <1>1 DEF CopyTypes, InHand, Iq
  <2> QED
    BY <2>1, <2>2, <1>1, CopyKeeps
<1>3. CASE Stop
  <2>1. /\ pc = "turn" /\ pc' = "over" /\ tuned' = None /\ scanner' = [scanner EXCEPT !.iq = {}]
        /\ calls' = Append(calls, [type |-> "shutdown"])
        /\ UNCHANGED <<raw, tap, band, controls, turns, feed, ends>>
    BY <1>3 DEF Stop
  <2>2. CopyTypes' /\ InHand'
    BY <2>1, <1>1 DEF CopyTypes, InHand, Iq
  <2>3. Fits([type |-> "shutdown"], band)
    BY DEF Fits, Calls, WithIq, Dated
  <2>4. calls' \in Seq(Calls) /\ Carried(hello, calls', band)
    BY <2>1, <2>3, <1>1, AddsOne
  <2> QED
    BY <2>1, <2>2, <2>4, CopyKeeps
<1> QED
  BY <1>2, <1>3, TurnStep, ChangeStep DEF Copy

-----------------------------------------------------------------------------
(* The feed's thread.                                                      *)

\* The types of the feed, and of its clients.
FeedTypes ==
  /\ calls \in Seq(Calls) /\ hello \in Bands /\ store \in Stores
  /\ Len(store.spot) <= SNAPSHOT_SPOTS
  /\ status \in Bands \cup {None} /\ loop \in BOOLEAN

QueueTypes ==
  /\ text \in [Clients -> Seq(Texts)] /\ spectrum \in [Clients -> Seq(Messages("row"))]
  /\ \A c \in Clients : Len(text[c]) <= CLIENT_QUEUE_MAX /\ Len(spectrum[c]) <= SPECTRUM_QUEUE_MAX

Views ==
  [band : Bands \cup {None}, kept : Stores, of : Iq, answer : BOOLEAN \cup {None}]

EndTypes ==
  /\ conn \in [Clients -> {"none", "open", "dying", "gone"}]
  /\ Cardinality(Served) <= MAX_CLIENTS
  /\ dropped \subseteq Clients
  /\ asked \in [Clients -> Changes \cup {None}]
  /\ view \in [Clients -> Views]

\* A step that leaves the copy alone keeps the invariant, when it keeps the rest.
LEMMA FeedKeeps ==
  ASSUME IInv, UNCHANGED copy, FeedTypes', QueueTypes', EndTypes', FeedNow',
         Carried(hello', calls', band), \A c \in Clients : ClientNow(c)'
  PROVE  IInv'
<1>1. TypeOK'
  BY DEF IInv, TypeOK, copy, FeedTypes, QueueTypes, EndTypes, Views
<1>2. InHand' /\ band' = band
  BY DEF IInv, InHand, copy
<1> QED
  BY <1>1, <1>2 DEF IInv

\* The kinds of a frame.
LEMMA TextKinds ==
  ASSUME NEW m \in Texts
  PROVE  /\ m.type \in Kept \cup {"result", "status", "hello", "snapshot"}
         /\ m.type \in Kept => m \in Messages(m.type) /\ m.band \in Bands
         /\ m.type = "result" => m.ok \in BOOLEAN
         /\ m.type \in {"status", "hello"} => m.band \in Bands
         /\ m.type = "snapshot" => m.store \in Stores /\ m.status \in Bands \cup {None}
<1>1. \/ m \in Messages("window") \/ m \in Messages("spot") \/ m \in Results
      \/ m \in [type : {"status", "hello"}, band : Bands]
      \/ m \in [type : {"snapshot"}, store : Stores, status : Bands \cup {None}]
  BY DEF Texts
<1>2. CASE m \in Messages("window")
  BY <1>2 DEF Messages, Kept
<1>3. CASE m \in Messages("spot")
  BY <1>3 DEF Messages, Kept
<1>4. CASE m \in Results
  BY <1>4 DEF Results, Kept
<1>5. CASE m \in [type : {"status", "hello"}, band : Bands]
  BY <1>5 DEF Kept
<1>6. CASE m \in [type : {"snapshot"}, store : Stores, status : Bands \cup {None}]
  BY <1>6 DEF Kept
<1> QED
  BY <1>1, <1>2, <1>3, <1>4, <1>5, <1>6

\* A frame queued for each of S that is not too far behind.
LEMMA QueueStep ==
  ASSUME IInv, NEW S, S \subseteq Open, NEW m \in Texts, m.type # "hello", Waits(m, hello),
         Queue(S, m), UNCHANGED <<hello, view, dropped, asked>>
  PROVE  QueueTypes' /\ EndTypes' /\ \A c \in Clients : ClientNow(c)'
<1>1. QueueTypes /\ EndTypes /\ hello \in Bands /\ \A c \in Clients : ClientNow(c)
  BY DEF IInv, TypeOK, QueueTypes, EndTypes, Views
<1>2. /\ text' = [c \in Clients |->
                   IF c \in Late(S) THEN <<>> ELSE IF c \in S THEN Append(text[c], m) ELSE text[c]]
      /\ spectrum' = [c \in Clients |-> IF c \in Late(S) THEN <<>> ELSE spectrum[c]]
      /\ conn' = [c \in Clients |-> IF c \in Late(S) THEN "dying" ELSE conn[c]]
  BY DEF Queue, Without, CutOff
<1>3. Late(S) \subseteq Open /\ Open \subseteq Clients
  BY DEF Late, Open
<1>4. EndTypes'
  <2>1. Served' = Served
    BY <1>2, <1>3 DEF Served, Open
  <2> QED
    BY <2>1, <1>1, <1>2 DEF EndTypes
<1>5. ASSUME NEW c \in Clients
      PROVE  /\ text'[c] \in Seq(Texts) /\ Len(text'[c]) <= CLIENT_QUEUE_MAX
             /\ spectrum'[c] \in Seq(Messages("row")) /\ Len(spectrum'[c]) <= SPECTRUM_QUEUE_MAX
             /\ ClientNow(c)'
  <2>1. /\ text[c] \in Seq(Texts) /\ Len(text[c]) \in Nat /\ Len(text[c]) <= CLIENT_QUEUE_MAX
        /\ spectrum[c] \in Seq(Messages("row")) /\ Len(spectrum[c]) <= SPECTRUM_QUEUE_MAX
        /\ ClientNow(c)
    BY <1>1, LenProperties DEF QueueTypes
  <2>2. OneBand(view[c])'
    BY <2>1 DEF ClientNow, OneBand
  <2>3. CASE c \in Late(S)
    <3>1. text'[c] = <<>> /\ spectrum'[c] = <<>> /\ c \notin Open' /\ conn'[c] = "dying"
      BY <2>3, <1>2 DEF Open
    <3> QED
      BY <3>1, <2>2, EmptySeq, GuiFeedAssumption DEF ClientNow
  <2>4. CASE c \in S \ Late(S)
    <3> DEFINE n == Len(text[c])
               t == text'[c]
    <3>1. c \in Open /\ n \in Nat /\ ~(n >= CLIENT_QUEUE_MAX)
      BY <2>1, <2>4 DEF Late
    <3>2. t = Append(text[c], m) /\ spectrum'[c] = spectrum[c] /\ conn'[c] = conn[c]
      BY <2>4, <1>2
    <3>3. t \in Seq(Texts) /\ Len(t) = n + 1 /\ (\A i \in 1..n : t[i] = text[c][i]) /\ t[n + 1] = m
      BY <2>1, <3>2, AppendProperties
    <3>4. QueueNow(c)
      BY <2>1, <3>1 DEF ClientNow
    <3>5. (\A i \in 1..n : Waits(text[c][i], hello) /\ (text[c][i].type = "hello" => i = 1))
          /\ (view[c].band # hello => n # 0 /\ text[c][1].type = "hello")
      BY <3>4, <2>1, EmptySeq DEF QueueNow
    <3>6. Len(t) <= CLIENT_QUEUE_MAX
      <4> HIDE DEF n, t
      <4> QED
        BY <3>1, <3>3, GuiFeedAssumption
    <3>7. \A i \in 1..Len(t) : Waits(t[i], hello) /\ (t[i].type = "hello" => i = 1)
      <4> HIDE DEF n, t
      <4> QED
        BY <3>1, <3>3, <3>5
    <3>8. view[c].band # hello => t # <<>> /\ t[1].type = "hello"
      <4> HIDE DEF n
      <4>1. n + 1 # 0 /\ (n # 0 => 1 \in 1..n)
        BY <3>1
      <4> HIDE DEF t
      <4> QED
        BY <4>1, <3>3, <3>5, EmptySeq
    <3>9. \A i \in 1..Len(spectrum[c]) : spectrum[c][i].band = hello
      BY <3>4 DEF QueueNow
    <3>10. QueueNow(c)'
      BY <3>2, <3>7, <3>8, <3>9 DEF QueueNow
    <3> QED
      BY <3>2, <3>3, <3>6, <3>10, <2>1, <2>2 DEF ClientNow
  <2>5. CASE c \notin S /\ c \notin Late(S)
    <3>1. text'[c] = text[c] /\ spectrum'[c] = spectrum[c] /\ (c \in Open' => c \in Open)
          /\ conn'[c] = conn[c]
      BY <2>5, <1>2 DEF Open
    <3>2. QueueNow(c) => QueueNow(c)'
      BY <3>1 DEF QueueNow
    <3> QED
      BY <2>1, <2>2, <3>1, <3>2 DEF ClientNow
  <2> QED
    BY <2>3, <2>4, <2>5
<1>6. QueueTypes'
  BY <1>2, <1>5 DEF QueueTypes
<1> QED
  BY <1>4, <1>5, <1>6

\* A window or a spot, of the band of the hello.
LEMMA PublishStep ==
  ASSUME IInv, NEW m \in Calls, m.type \in Kept, Fits(m, hello), Publish(m), UNCHANGED <<asked>>
  PROVE  /\ store' \in Stores /\ Len(store'.spot) <= SNAPSHOT_SPOTS /\ FeedNow'
         /\ QueueTypes' /\ EndTypes' /\ \A c \in Clients : ClientNow(c)'
<1>1. m \in Messages(m.type) /\ m \in Texts
  BY CallKinds DEF Kept, WithIq
<1>2. m.band = hello /\ m.type \notin {"hello", "snapshot", "status"}
  BY DEF Fits, Kept, Dated, WithIq
<1>3. QueueTypes' /\ EndTypes' /\ \A c \in Clients : ClientNow(c)'
  <2>1. Waits(m, hello)
    BY <1>2 DEF Waits
  <2>2. Queue(Open, m) /\ UNCHANGED <<hello, view, dropped, asked>>
    BY DEF Publish
  <2> QED
    BY <2>1, <2>2, <1>1, <1>2, QueueStep
<1> DEFINE k == m.type
           q == store[k]
           n == Len(q)
<1>4. /\ store \in Stores /\ FeedNow /\ Len(store.spot) <= SNAPSHOT_SPOTS /\ SNAPSHOT_SPOTS \in Nat \ {0}
      /\ store.spot \in Seq(Messages("spot"))
  BY GuiFeedAssumption DEF IInv, TypeOK, Stores
<1>5. q \in Seq(Messages(k)) /\ n \in Nat /\ \A i \in 1..n : q[i].band = hello
  <2>1. q \in Seq(Messages(k))
    BY <1>4 DEF Stores, Kept
  <2> QED
    BY <2>1, <1>4, LenProperties DEF FeedNow
<1>6. PICK gone \in 0..n :
        /\ k = "spot" => gone = (IF Len(store.spot) = SNAPSHOT_SPOTS THEN 1 ELSE 0)
        /\ store' = [store EXCEPT ![k] = Append(SubSeq(@, gone + 1, Len(@)), m)]
  BY DEF Publish
<1> DEFINE r == SubSeq(q, gone + 1, n)
           z == Append(r, m)
<1>7. r \in Seq(Messages(k)) /\ Len(r) = n - gone /\ \A i \in 1..n - gone : r[i] = q[gone + i]
  <2>1. gone + 1 \in 1..n + 1 /\ (gone + 1 <= n + 1)
    <3> HIDE DEF n
    <3> QED
      BY <1>5
  <2>2. \A i \in gone + 1..n : q[i] \in Messages(k)
    <3> HIDE DEF q
    <3> QED
      BY <1>5, ElementOfSeq DEF n
  <2>3. /\ r \in Seq(Messages(k))
        /\ Len(r) = IF gone + 1 <= n THEN n - (gone + 1) + 1 ELSE 0
        /\ \A i \in 1..n - (gone + 1) + 1 : r[i] = q[gone + 1 + i - 1]
    BY <2>1, <2>2, <1>5, SubSeqProperties
  <2> HIDE DEF n, q, r
  <2> QED
    BY <2>3, <1>5
<1>8. z \in Seq(Messages(k)) /\ Len(z) = n - gone + 1 /\ \A i \in 1..Len(z) : z[i].band = hello
  <2>1. z \in Seq(Messages(k)) /\ Len(z) = Len(r) + 1 /\ (\A i \in 1..Len(r) : z[i] = r[i]) /\ z[Len(r) + 1] = m
    <3>1. r \in Seq(Messages(k)) /\ m \in Messages(k)
      BY <1>1, <1>7
    <3> HIDE DEF r, k, n, q
    <3> QED
      BY <3>1, AppendProperties
  <2> HIDE DEF n, q, r, z, k
  <2>2. ASSUME NEW i \in 1..Len(z) PROVE z[i].band = hello
    <3>1. CASE i \in 1..n - gone
      <4>1. gone + i \in 1..n /\ z[i] = q[gone + i]
        BY <3>1, <2>1, <1>5, <1>7
      <4> QED
        BY <4>1, <1>5
    <3>2. CASE i = n - gone + 1
      BY <3>2, <2>1, <1>7, <1>2
    <3> QED
      BY <3>1, <3>2, <2>1, <1>5, <1>7
  <2> QED
    BY <2>1, <2>2, <1>7
<1>9. store' = [store EXCEPT ![k] = z]
  BY <1>6
<1>10. store' \in Stores /\ store'[k] = z /\ \A j \in Kept \ {k} : store'[j] = store[j]
  <2> HIDE DEF z
  <2> QED
    BY <1>4, <1>8, <1>9 DEF Stores, Kept
<1>11. Len(store'.spot) <= SNAPSHOT_SPOTS
  <2>1. CASE k = "spot"
    <3>1. n = Len(store.spot) /\ store'.spot = z
      BY <2>1, <1>10
    <3> HIDE DEF n, z
    <3> QED
      BY <3>1, <2>1, <1>4, <1>5, <1>6, <1>8
  <2>2. CASE k # "spot"
    BY <2>2, <1>10, <1>4 DEF Kept
  <2> QED
    BY <2>1, <2>2
<1>12. FeedNow'
  <2>1. hello' = hello /\ status' = status
    BY DEF Publish
  <2> HIDE DEF z
  <2> QED
    BY <2>1, <1>4, <1>8, <1>10 DEF FeedNow
<1> QED
  BY <1>3, <1>10, <1>11, <1>12

\* A row for every client, the oldest making place.
LEMMA RowStep ==
  ASSUME IInv, NEW m \in Calls, m.type = "row", Fits(m, hello), OnSpectrum(m), UNCHANGED <<asked>>
  PROVE  QueueTypes' /\ EndTypes' /\ \A c \in Clients : ClientNow(c)'
<1>1. m \in Messages("row") /\ m.band = hello
  BY CallKinds DEF Fits, WithIq, Dated
<1>2. QueueTypes /\ EndTypes /\ \A c \in Clients : ClientNow(c)
  BY DEF IInv, TypeOK, QueueTypes, EndTypes, Views
<1>3. /\ UNCHANGED <<text, conn, view, hello, dropped, asked>>
      /\ spectrum' = [c \in Clients |->
           IF conn[c] # "open" THEN spectrum[c]
           ELSE IF Len(spectrum[c]) < SPECTRUM_QUEUE_MAX THEN Append(spectrum[c], m)
           ELSE Append(Tail(spectrum[c]), m)]
  BY DEF OnSpectrum
<1>4. EndTypes'
  BY <1>2, <1>3 DEF EndTypes, Served
<1>5. ASSUME NEW c \in Clients
      PROVE  /\ spectrum'[c] \in Seq(Messages("row")) /\ Len(spectrum'[c]) <= SPECTRUM_QUEUE_MAX
             /\ ClientNow(c)'
  <2> DEFINE q == spectrum[c]
             n == Len(q)
  <2>1. /\ q \in Seq(Messages("row")) /\ n \in Nat /\ n <= SPECTRUM_QUEUE_MAX /\ ClientNow(c)
    BY <1>2, LenProperties DEF QueueTypes
  <2>2. OneBand(view[c])'
    BY <2>1, <1>3 DEF ClientNow, OneBand
  <2>3. CASE conn[c] # "open"
    <3>1. spectrum'[c] = q /\ c \notin Open' /\ conn'[c] = conn[c]
      BY <2>3, <1>3 DEF Open
    <3> QED
      BY <3>1, <2>1, <2>2 DEF ClientNow
  <2>4. CASE conn[c] = "open"
    <3>1. QueueNow(c)
      BY <2>1, <2>4 DEF ClientNow, Open
    <3>2. \A i \in 1..n : q[i].band = hello
      BY <3>1 DEF QueueNow
    <3>3. PICK r : /\ spectrum'[c] = Append(r, m) /\ r \in Seq(Messages("row")) /\ Len(r) \in Nat
                   /\ Len(r) < SPECTRUM_QUEUE_MAX /\ \A i \in 1..Len(r) : r[i].band = hello
      <4>1. CASE n < SPECTRUM_QUEUE_MAX
        <5>1. spectrum'[c] = Append(q, m)
          BY <4>1, <2>4, <1>3
        <5> QED
          BY <5>1, <4>1, <3>2, <2>1
      <4>2. CASE ~(n < SPECTRUM_QUEUE_MAX)
        <5>1. spectrum'[c] = Append(Tail(q), m)
          BY <4>2, <2>4, <1>3
        <5>2. n = SPECTRUM_QUEUE_MAX /\ n # 0
          <6> HIDE DEF n
          <6> QED
            BY <4>2, <2>1, GuiFeedAssumption
        <5>3. Tail(q) \in Seq(Messages("row")) /\ Len(Tail(q)) = n - 1 /\ \A i \in 1..n - 1 : Tail(q)[i] = q[i + 1]
          <6>1. q # <<>>
            BY <5>2, EmptySeq
          <6> QED
            BY <6>1, <2>1, HeadTailProperties
        <5> DEFINE t == Tail(q)
        <5>4. Len(t) < SPECTRUM_QUEUE_MAX /\ Len(t) \in Nat /\ \A i \in 1..Len(t) : t[i].band = hello
          <6> HIDE DEF t, n, q
          <6>1. Len(t) = n - 1 /\ \A i \in 1..n - 1 : t[i] = q[i + 1] /\ i + 1 \in 1..n
            BY <5>3, <2>1 DEF t
          <6> QED
            BY <6>1, <5>2, <3>2, <2>1
        <5> QED
          BY <5>1, <5>3, <5>4
      <4> QED
        BY <4>1, <4>2
    <3> DEFINE z == Append(r, m)
    <3>4. z \in Seq(Messages("row")) /\ Len(z) = Len(r) + 1 /\ (\A i \in 1..Len(r) : z[i] = r[i]) /\ z[Len(r) + 1] = m
      BY <3>3, <1>1, AppendProperties
    <3>5. Len(z) <= SPECTRUM_QUEUE_MAX /\ \A i \in 1..Len(z) : z[i].band = hello
      <4> HIDE DEF z
      <4> QED
        BY <3>3, <3>4, <1>1, GuiFeedAssumption
    <3>6. spectrum'[c] = z /\ text'[c] = text[c] /\ view' = view /\ hello' = hello /\ conn'[c] = "open"
      BY <3>3, <2>4, <1>3
    <3>7. QueueNow(c)'
      <4> HIDE DEF z
      <4> QED
        BY <3>1, <3>5, <3>6 DEF QueueNow
    <3> QED
      BY <2>2, <3>4, <3>5, <3>6, <3>7 DEF ClientNow
  <2> QED
    BY <2>3, <2>4
<1>6. QueueTypes'
  BY <1>2, <1>3, <1>5 DEF QueueTypes
<1> QED
  BY <1>4, <1>5, <1>6

\* The new bands: a new hello, and nothing of the old.
LEMMA BandsStep ==
  ASSUME IInv, NEW b \in Bands, OnBands(b), UNCHANGED <<asked>>
  PROVE  /\ hello' = b /\ store' \in Stores /\ Len(store'.spot) <= SNAPSHOT_SPOTS /\ status' = None
         /\ FeedNow' /\ QueueTypes' /\ EndTypes' /\ \A c \in Clients : ClientNow(c)'
<1>1. QueueTypes /\ EndTypes /\ \A c \in Clients : ClientNow(c)
  BY DEF IInv, TypeOK, QueueTypes, EndTypes, Views
<1>2. /\ hello' = b /\ store' = Empty /\ status' = None /\ UNCHANGED <<conn, view, asked>>
      /\ text' = [c \in Clients |-> IF c \in Open THEN Greeting(b, Empty, None) ELSE text[c]]
      /\ spectrum' = [c \in Clients |-> IF c \in Open THEN <<>> ELSE spectrum[c]]
      /\ dropped' \subseteq dropped \cup Open
  BY DEF OnBands, NewHello, RowsGo, Without
<1>3. Empty \in Stores /\ Empty.spot = <<>> /\ \A k \in Kept : Empty[k] = <<>>
  BY DEF Empty, Stores, Kept
<1>4. store' \in Stores /\ Len(store'.spot) <= SNAPSHOT_SPOTS /\ FeedNow'
  BY <1>2, <1>3, GuiFeedAssumption, EmptySeq DEF FeedNow
<1>5. EndTypes'
  BY <1>1, <1>2 DEF EndTypes, Served, Open
<1> DEFINE g == Greeting(b, Empty, None)
<1>6. /\ g \in Seq(Texts) /\ Len(g) = 2 /\ g # <<>> /\ g[1].type = "hello"
      /\ \A i \in 1..Len(g) : Waits(g[i], b) /\ (g[i].type = "hello" => i = 1)
  <2> DEFINE h == [type |-> "hello", band |-> b]
             s == [type |-> "snapshot", store |-> Empty, status |-> None]
  <2>1. h \in Texts /\ s \in Texts
    BY <1>3 DEF Texts
  <2>2. h.type = "hello" /\ s.type = "snapshot" /\ Waits(h, b) /\ Waits(s, b)
    BY <1>3 DEF Waits, Kept
  <2>3. g = <<h, s>>
    BY DEF Greeting
  <2> HIDE DEF g, h, s
  <2> QED
    BY <2>1, <2>2, <2>3
<1>7. ASSUME NEW c \in Clients
      PROVE  /\ text'[c] \in Seq(Texts) /\ Len(text'[c]) <= CLIENT_QUEUE_MAX
             /\ spectrum'[c] \in Seq(Messages("row")) /\ Len(spectrum'[c]) <= SPECTRUM_QUEUE_MAX
             /\ ClientNow(c)'
  <2>1. /\ text[c] \in Seq(Texts) /\ Len(text[c]) <= CLIENT_QUEUE_MAX
        /\ spectrum[c] \in Seq(Messages("row")) /\ Len(spectrum[c]) <= SPECTRUM_QUEUE_MAX
        /\ OneBand(view[c])'
    BY <1>1, <1>2 DEF QueueTypes, ClientNow, OneBand
  <2>2. CASE c \in Open
    <3>1. text'[c] = g /\ spectrum'[c] = <<>> /\ Len(<<>>) = 0
      BY <2>2, <1>2, EmptySeq
    <3> HIDE DEF g
    <3>2. QueueNow(c)'
      BY <3>1, <1>2, <1>6 DEF QueueNow
    <3> QED
      BY <3>1, <3>2, <2>1, <1>6, GuiFeedAssumption DEF ClientNow
  <2>3. CASE c \notin Open
    <3>1. text'[c] = text[c] /\ spectrum'[c] = spectrum[c] /\ conn'[c] = conn[c] /\ c \notin Open'
      BY <2>3, <1>2 DEF Open
    <3> QED
      BY <3>1, <2>1, <1>1 DEF ClientNow
  <2> QED
    BY <2>2, <2>3
<1>8. QueueTypes'
  BY <1>2, <1>7 DEF QueueTypes
<1> QED
  BY <1>2, <1>4, <1>5, <1>7, <1>8

\* A callback runs.
LEMMA RunStep ==
  ASSUME IInv, RunCall
  PROVE  IInv'
<1> DEFINE m == Head(calls)
<1>1. /\ calls \in Seq(Calls) /\ band \in Bands /\ FeedTypes /\ QueueTypes /\ EndTypes /\ FeedNow
      /\ Carried(hello, calls, band) /\ \A c \in Clients : ClientNow(c)
  BY DEF IInv, TypeOK, FeedTypes, QueueTypes, EndTypes, Views
<1>2. calls # <<>> /\ calls' = Tail(calls) /\ UNCHANGED copy /\ UNCHANGED <<asked>> /\ band' = band
  BY DEF RunCall, copy
<1>3. /\ calls' \in Seq(Calls) /\ m \in Calls
      /\ m.type = "bands" => Carried(m.band, calls', band)
      /\ m.type # "bands" => Fits(m, hello) /\ Carried(hello, calls', band)
  BY <1>1, <1>2, Takes
<1> HIDE DEF m
<1>4. CASE m.type \in Kept /\ Publish(m)
  <2>1. m.type # "bands" /\ UNCHANGED <<hello, status, loop>>
    BY <1>4 DEF Kept, Publish
  <2>2. /\ store' \in Stores /\ Len(store'.spot) <= SNAPSHOT_SPOTS /\ FeedNow'
        /\ QueueTypes' /\ EndTypes' /\ \A c \in Clients : ClientNow(c)'
    BY <1>2, <1>3, <1>4, <2>1, PublishStep
  <2>3. FeedTypes'
    BY <1>1, <1>3, <2>1, <2>2 DEF FeedTypes
  <2> QED
    BY <1>2, <1>3, <2>1, <2>2, <2>3, FeedKeeps
<1>5. CASE m.type = "status" /\ OnStatus(m)
  <2>1. UNCHANGED <<store, hello, loop, view, dropped>> /\ status' = m.band /\ Queue(Open, m)
    BY <1>5 DEF OnStatus
  <2>2. m \in Texts /\ m.band \in Bands /\ m.band = hello /\ Waits(m, hello)
    BY <1>3, <1>5, CallKinds DEF Fits, Dated, Waits, Kept
  <2>3. QueueTypes' /\ EndTypes' /\ \A c \in Clients : ClientNow(c)'
    BY <1>2, <1>5, <2>1, <2>2, QueueStep
  <2>4. FeedTypes' /\ FeedNow'
    BY <1>1, <1>3, <2>1, <2>2 DEF FeedTypes, FeedNow
  <2> QED
    BY <1>2, <1>3, <1>5, <2>1, <2>3, <2>4, FeedKeeps
<1>6. CASE m.type = "row" /\ OnSpectrum(m)
  <2>1. UNCHANGED <<store, status, hello, loop>>
    BY <1>6 DEF OnSpectrum
  <2>2. QueueTypes' /\ EndTypes' /\ \A c \in Clients : ClientNow(c)'
    BY <1>2, <1>3, <1>6, RowStep
  <2>3. FeedTypes' /\ FeedNow'
    BY <1>1, <1>3, <2>1 DEF FeedTypes, FeedNow
  <2> QED
    BY <1>2, <1>3, <1>6, <2>1, <2>2, <2>3, FeedKeeps
<1>7. CASE m.type = "bands" /\ OnBands(m.band)
  <2>1. m.band \in Bands /\ loop' = loop
    BY <1>3, <1>7, CallKinds DEF OnBands
  <2>2. /\ hello' = m.band /\ store' \in Stores /\ Len(store'.spot) <= SNAPSHOT_SPOTS /\ status' = None
        /\ FeedNow' /\ QueueTypes' /\ EndTypes' /\ \A c \in Clients : ClientNow(c)'
    BY <1>2, <1>7, <2>1, BandsStep
  <2>3. FeedTypes'
    BY <1>1, <1>3, <2>1, <2>2 DEF FeedTypes
  <2> QED
    BY <1>2, <1>3, <1>7, <2>2, <2>3, FeedKeeps
<1>8. CASE m.type = "queue" /\ OnReply(m.to, m.msg)
  <2>1. m.to \in Clients /\ m.msg \in Results
    BY <1>3, <1>8, CallKinds
  <2>2. UNCHANGED <<store, status, hello, loop, view, dropped>>
    BY <1>8 DEF OnReply
  <2>3. FeedTypes' /\ FeedNow'
    BY <1>1, <1>3, <2>2 DEF FeedTypes, FeedNow
  <2>4. QueueTypes' /\ EndTypes' /\ \A c \in Clients : ClientNow(c)'
    <3>1. CASE conn[m.to] = "open"
      <4>1. {m.to} \subseteq Open /\ Queue({m.to}, m.msg)
        BY <1>8, <2>1, <3>1 DEF Open, OnReply
      <4>2. m.msg \in Texts /\ m.msg.type = "result"
        BY <2>1 DEF Texts, Results
      <4>3. Waits(m.msg, hello)
        BY <4>2 DEF Waits, Kept
      <4> QED
        BY <1>2, <2>2, <4>1, <4>2, <4>3, QueueStep
    <3>2. CASE conn[m.to] # "open"
      <4>1. UNCHANGED <<text, spectrum, conn>>
        BY <1>8, <3>2 DEF OnReply
      <4>2. QueueTypes' /\ EndTypes'
        BY <4>1, <1>1, <1>2, <2>2 DEF QueueTypes, EndTypes, Served
      <4>3. \A c \in Clients : ClientNow(c)'
        BY <4>1, <1>1, <2>2 DEF ClientNow, QueueNow, OneBand, Open
      <4> QED
        BY <4>2, <4>3
    <3> QED
      BY <3>1, <3>2
  <2> QED
    BY <1>2, <1>3, <1>8, <2>2, <2>3, <2>4, FeedKeeps
<1>9. CASE m.type = "shutdown" /\ Shutdown
  <2>1. /\ UNCHANGED <<store, status, hello, dropped>> /\ loop' = FALSE
        /\ conn' = [c \in Clients |-> IF c \in Served THEN "gone" ELSE conn[c]]
        /\ view' = [c \in Clients |-> Nothing]
        /\ text' = [c \in Clients |-> <<>>] /\ spectrum' = [c \in Clients |-> <<>>]
    BY <1>9 DEF Shutdown, Without
  <2>2. FeedTypes' /\ FeedNow'
    BY <1>1, <1>3, <2>1 DEF FeedTypes, FeedNow
  <2>3. QueueTypes'
    <3>1. \A S : <<>> \in Seq(S) /\ Len(<<>>) = 0
      BY EmptySeq
    <3> QED
      BY <2>1, <3>1, GuiFeedAssumption DEF QueueTypes
  <2>4. Nothing \in Views /\ OneBand(Nothing)
    BY DEF Nothing, Views, Empty, Stores, OneBand, Kept, Iq
  <2>5. EndTypes'
    <3>1. Served' = {}
      BY <1>1, <2>1 DEF Served, EndTypes
    <3>2. Cardinality(Served') <= MAX_CLIENTS
      BY <3>1, FS_EmptySet, GuiFeedAssumption
    <3> QED
      BY <3>2, <1>1, <1>2, <2>1, <2>4 DEF EndTypes
  <2>6. \A c \in Clients : ClientNow(c)'
    <3>1. Open' = {}
      BY <2>1 DEF Open, Served
    <3>2. \A c \in Clients : OneBand(view'[c]) /\ spectrum'[c] = <<>>
      BY <2>1, <2>4
    <3> QED
      BY <3>1, <3>2 DEF ClientNow, OneBand
  <2> QED
    BY <1>2, <1>3, <1>9, <2>1, <2>2, <2>3, <2>5, <2>6, FeedKeeps
<1> QED
  BY <1>4, <1>5, <1>6, <1>7, <1>8, <1>9 DEF RunCall, m

-----------------------------------------------------------------------------
(* The clients.                                                            *)

\* What waits, and what a client has, when a client is told nothing new.
LEMMA Same ==
  ASSUME IInv, NEW c \in Clients, text'[c] = text[c], spectrum'[c] = spectrum[c], view'[c] = view[c],
         hello' = hello, conn'[c] = conn[c]
  PROVE  ClientNow(c)'
  BY DEF IInv, ClientNow, Open, QueueNow, OneBand

\* A client that is not, or no longer, served.
LEMMA Apart ==
  ASSUME IInv, NEW c \in Clients, view'[c] \in {view[c], Nothing}, conn'[c] \notin {"open", "none"}
  PROVE  ClientNow(c)'
<1>1. OneBand(view[c]) /\ OneBand(Nothing)
  BY DEF IInv, ClientNow, OneBand, Nothing, Empty, Kept
<1>2. OneBand(view'[c])
  BY <1>1
<1> QED
  BY <1>2 DEF ClientNow, Open, OneBand

\* What a client makes of a frame that may wait for it.
LEMMA Shows ==
  ASSUME NEW h \in Bands, NEW v \in Views, OneBand(v), NEW m,
         \/ m \in Texts /\ Waits(m, h)
         \/ m \in Messages("row") /\ m.band = h,
         m.type = "hello" \/ v.band = h
  PROVE  /\ Shown(v, m) \in Views /\ OneBand(Shown(v, m)) /\ Shown(v, m).band = h
<1>1. \A k \in Kept : v.kept[k] \in Seq(Messages(k)) /\ v.kept \in Stores /\ v.of \subseteq Bands
  BY DEF Views, Stores, Kept, Iq
<1>2. CASE m \in Messages("row") /\ m.band = h
  <2>1. m.type = "row" /\ Shown(v, m) = [v EXCEPT !.of = @ \cup {m.band}]
    BY <1>2 DEF Messages, Shown, Kept
  <2> QED
    BY <1>1, <1>2, <2>1 DEF Views, OneBand, Iq
<1>3. CASE m \in Texts /\ Waits(m, h)
  <2>1. m.type \in Kept \cup {"result", "status", "hello", "snapshot"}
    BY <1>3, TextKinds
  <2>2. CASE m.type = "hello"
    <3>1. Shown(v, m) = [v EXCEPT !.band = m.band, !.of = {}, !.kept = Empty] /\ m.band = h
      BY <1>3, <2>2 DEF Shown, Waits, Kept
    <3>2. Empty \in Stores /\ \A k \in Kept : Empty[k] = <<>>
      BY DEF Empty, Stores, Kept
    <3> DEFINE w == Shown(v, m)
    <3>3. w.band = h /\ w.of = {} /\ w.kept = Empty /\ w.answer = v.answer
          /\ w = [band |-> h, kept |-> Empty, of |-> {}, answer |-> v.answer]
      BY <3>1 DEF Views
    <3>4. w \in Views
      BY <3>2, <3>3 DEF Views, Iq
    <3> HIDE DEF w
    <3>5. OneBand(w)
      BY <3>2, <3>3, EmptySeq DEF OneBand
    <3> QED
      BY <3>3, <3>4, <3>5 DEF w
  <2>3. CASE m.type = "snapshot"
    <3>1. Shown(v, m) = [v EXCEPT !.kept = m.store, !.of = {m.status} \ {None}]
      BY <2>3 DEF Shown, Kept
    <3>2. m.store \in Stores /\ m.status \in {None, h} /\ v.band = h
          /\ \A k \in Kept : \A i \in 1..Len(m.store[k]) : m.store[k][i].band = h
      BY <1>3, <2>3, TextKinds DEF Waits
    <3> DEFINE w == Shown(v, m)
    <3>3. w.band = h /\ w.kept = m.store /\ w.of \subseteq {h}
          /\ w = [band |-> v.band, kept |-> m.store, of |-> {m.status} \ {None}, answer |-> v.answer]
      BY <3>1, <3>2 DEF Views
    <3>4. w \in Views
      BY <3>2, <3>3 DEF Views, Iq
    <3> HIDE DEF w
    <3>5. OneBand(w)
      BY <3>2, <3>3 DEF OneBand
    <3> QED
      BY <3>3, <3>4, <3>5 DEF w
  <2>4. CASE m.type \in Kept
    <3> DEFINE k == m.type
               z == Append(v.kept[k], m)
    <3>1. m \in Messages(k) /\ m.band = h /\ v.band = h
      BY <1>3, <2>4, TextKinds DEF Waits, Kept
    <3>2. Shown(v, m) = [v EXCEPT !.kept[k] = z]
      BY <2>4 DEF Shown, Kept
    <3>3. z \in Seq(Messages(k)) /\ \A i \in 1..Len(z) : z[i].band = h
      <4> DEFINE q == v.kept[k]
      <4>1. q \in Seq(Messages(k)) /\ \A i \in 1..Len(q) : q[i].band = h
        BY <1>1, <2>4, <3>1 DEF OneBand
      <4> HIDE DEF q, k
      <4>2. /\ Len(q) \in Nat /\ z \in Seq(Messages(k)) /\ Len(z) = Len(q) + 1
            /\ \A i \in 1..Len(q) : z[i] = q[i]
            /\ z[Len(q) + 1] = m
        BY <3>1, <4>1, AppendProperties, LenProperties DEF q
      <4> QED
        BY <3>1, <4>1, <4>2
    <3>4. DEFINE w == [v EXCEPT !.kept[k] = z]
    <3>5. w.kept \in Stores /\ w.kept[k] = z /\ \A j \in Kept \ {k} : w.kept[j] = v.kept[j]
      <4> HIDE DEF z
      <4> QED
        BY <1>1, <2>4, <3>3 DEF Views, Stores, Kept
    <3>6. w \in Views /\ w.band = h /\ w.of = v.of
      <4> HIDE DEF z
      <4> QED
        BY <3>1, <3>5 DEF Views
    <3> HIDE DEF z, w
    <3> QED
      BY <3>1, <3>2, <3>3, <3>5, <3>6 DEF OneBand, w
  <2>5. CASE m.type = "status"
    <3>1. Shown(v, m) = [v EXCEPT !.of = @ \cup {m.band}] /\ m.band = h /\ v.band = h
      BY <1>3, <2>5 DEF Shown, Waits, Kept
    <3> QED
      BY <3>1, <1>1 DEF Views, OneBand, Iq
  <2>6. CASE m.type = "result"
    <3>1. Shown(v, m) = [v EXCEPT !.answer = m.ok] /\ m.ok \in BOOLEAN /\ v.band = h
      BY <1>3, <2>6, TextKinds DEF Shown, Kept
    <3> QED
      BY <3>1 DEF Views, OneBand
  <2> QED
    BY <2>1, <2>2, <2>3, <2>4, <2>5, <2>6
<1> QED
  BY <1>2, <1>3

\* A client keeps the invariant.
LEMMA ClientStep ==
  ASSUME IInv, NEW c \in Clients, Client(c)
  PROVE  IInv'
<1>1. /\ calls \in Seq(Calls) /\ band \in Bands /\ hello \in Bands
      /\ FeedTypes /\ QueueTypes /\ EndTypes /\ FeedNow /\ InHand /\ CopyTypes
      /\ Carried(hello, calls, band) /\ \A d \in Clients : ClientNow(d)
  BY DEF IInv, TypeOK, FeedTypes, QueueTypes, EndTypes, Views, CopyTypes
<1>2. ASSUME UNCHANGED feed, UNCHANGED calls
      PROVE  FeedTypes' /\ FeedNow' /\ Carried(hello', calls', band) /\ hello' = hello
  BY <1>1, <1>2 DEF feed, FeedTypes, FeedNow
<1>3. \A S : <<>> \in Seq(S) /\ Len(<<>>) = 0
  BY EmptySeq
<1>4. CASE Join(c)
  <2>1. /\ UNCHANGED <<copy, calls, feed, spectrum, asked, view, dropped>> /\ conn[c] = "none"
        /\ \/ conn' = [conn EXCEPT ![c] = "gone"] /\ UNCHANGED text
           \/ /\ Cardinality(Served) < MAX_CLIENTS /\ conn' = [conn EXCEPT ![c] = "open"]
              /\ text' = [text EXCEPT ![c] = Greeting(hello, store, status)]
    BY <1>4 DEF Join
  <2> DEFINE g == Greeting(hello, store, status)
  <2>2. /\ g \in Seq(Texts) /\ Len(g) = 2 /\ g # <<>> /\ g[1].type = "hello"
        /\ \A i \in 1..Len(g) : Waits(g[i], hello) /\ (g[i].type = "hello" => i = 1)
    <3> DEFINE h == [type |-> "hello", band |-> hello]
               s == [type |-> "snapshot", store |-> store, status |-> status]
    <3>1. h \in Texts /\ s \in Texts
      BY <1>1 DEF Texts, FeedTypes
    <3>2. h.type = "hello" /\ s.type = "snapshot" /\ Waits(h, hello) /\ Waits(s, hello)
      BY <1>1 DEF Waits, Kept, FeedNow
    <3>3. g = <<h, s>>
      BY DEF Greeting
    <3> HIDE DEF g, h, s
    <3> QED
      BY <3>1, <3>2, <3>3
  <2> HIDE DEF g
  <2>3. QueueTypes'
    <3>1. \/ text' = text
          \/ text' = [text EXCEPT ![c] = g]
      BY <2>1 DEF g
    <3>2. ASSUME NEW d \in Clients
          PROVE  text'[d] \in Seq(Texts) /\ Len(text'[d]) <= CLIENT_QUEUE_MAX
      BY <1>1, <2>2, <3>1, GuiFeedAssumption DEF QueueTypes
    <3>3. text' \in [Clients -> Seq(Texts)]
      BY <1>1, <2>2, <3>1 DEF QueueTypes
    <3> QED
      BY <1>1, <2>1, <3>2, <3>3 DEF QueueTypes
  <2>4. EndTypes'
    <3>1. IsFiniteSet(Served)
      BY FS_Subset, GuiFeedAssumption DEF Served
    <3>2. Cardinality(Served') <= MAX_CLIENTS
      <4>1. CASE conn' = [conn EXCEPT ![c] = "gone"]
        <5>1. Served' = Served
          BY <4>1, <2>1, <1>1 DEF Served, EndTypes
        <5> QED
          BY <5>1, <1>1 DEF EndTypes
      <4>2. CASE conn' = [conn EXCEPT ![c] = "open"] /\ Cardinality(Served) < MAX_CLIENTS
        <5>1. Served' = Served \cup {c} /\ c \notin Served
          BY <4>2, <2>1, <1>1 DEF Served, EndTypes
        <5>2. Cardinality(Served \cup {c}) = Cardinality(Served) + 1 /\ Cardinality(Served) \in Nat
          BY <3>1, <5>1, FS_AddElement, FS_CardinalityType
        <5> QED
          BY <5>1, <5>2, <4>2, GuiFeedAssumption
      <4> QED
        BY <4>1, <4>2, <2>1
    <3> QED
      BY <3>2, <1>1, <2>1 DEF EndTypes
  <2>5. ASSUME NEW d \in Clients PROVE ClientNow(d)'
    <3>1. spectrum'[d] = spectrum[d] /\ view'[d] = view[d] /\ hello' = hello
      BY <2>1 DEF feed
    <3>2. CASE d # c
      <4>1. text'[d] = text[d] /\ conn'[d] = conn[d]
        BY <3>2, <1>1, <2>1 DEF QueueTypes, EndTypes
      <4> QED
        BY <3>1, <4>1, Same
    <3>3. CASE d = c /\ conn' = [conn EXCEPT ![c] = "gone"]
      <4>1. conn'[d] = "gone"
        BY <3>3, <1>1 DEF EndTypes
      <4> QED
        BY <3>1, <4>1, Apart
    <3>4. CASE d = c /\ text' = [text EXCEPT ![c] = g]
      <4>1. text'[d] = g
        BY <3>4, <1>1 DEF QueueTypes
      <4>2. OneBand(view[d])
        BY <1>1 DEF ClientNow
      <4>3. spectrum[d] = <<>> /\ Len(<<>>) = 0
        BY <1>1, <1>3, <2>1, <3>4 DEF ClientNow
      <4>4. QueueNow(d)'
        BY <2>2, <3>1, <4>1, <4>3 DEF QueueNow
      <4> QED
        BY <3>1, <4>2, <4>3, <4>4 DEF ClientNow, OneBand
    <3> QED
      BY <2>1, <3>2, <3>3, <3>4 DEF g
  <2>6. UNCHANGED copy /\ FeedTypes' /\ FeedNow' /\ Carried(hello', calls', band)
    BY <1>2, <2>1 DEF copy
  <2> QED
    BY <2>3, <2>4, <2>5, <2>6, FeedKeeps
<1>5. CASE Sends(c)
  <2>1. /\ UNCHANGED <<copy, calls, feed, conn, asked, dropped>> /\ c \in Open
        /\ \/ /\ text[c] # <<>> /\ UNCHANGED spectrum
              /\ view' = [view EXCEPT ![c] = Shown(@, Head(text[c]))]
              /\ text' = [text EXCEPT ![c] = Tail(@)]
           \/ /\ text[c] = <<>> /\ spectrum[c] # <<>> /\ UNCHANGED text
              /\ view' = [view EXCEPT ![c] = Shown(@, Head(spectrum[c]))]
              /\ spectrum' = [spectrum EXCEPT ![c] = Tail(@)]
    BY <1>5 DEF Sends, Open
  <2>2. /\ text[c] \in Seq(Texts) /\ Len(text[c]) <= CLIENT_QUEUE_MAX
        /\ spectrum[c] \in Seq(Messages("row")) /\ Len(spectrum[c]) <= SPECTRUM_QUEUE_MAX
        /\ view[c] \in Views /\ OneBand(view[c]) /\ QueueNow(c) /\ hello' = hello
    BY <1>1, <2>1 DEF QueueTypes, EndTypes, ClientNow, feed
  <2>3. /\ text'[c] \in Seq(Texts) /\ Len(text'[c]) <= CLIENT_QUEUE_MAX
        /\ spectrum'[c] \in Seq(Messages("row")) /\ Len(spectrum'[c]) <= SPECTRUM_QUEUE_MAX
        /\ view'[c] \in Views /\ OneBand(view'[c]) /\ QueueNow(c)'
    <3>1. CASE text[c] # <<>>
      <4> DEFINE q == text[c]
                 n == Len(q)
                 m == Head(q)
                 t == Tail(q)
      <4>1. text'[c] = t /\ spectrum'[c] = spectrum[c] /\ view'[c] = Shown(view[c], m)
        BY <3>1, <2>1, <1>1 DEF QueueTypes, EndTypes
      <4>2. /\ n \in Nat \ {0} /\ t \in Seq(Texts) /\ m \in Texts /\ m = q[1] /\ Len(t) = n - 1
            /\ \A i \in 1..n - 1 : t[i] = q[i + 1]
        BY <3>1, <2>2, HeadTailProperties, LenProperties, EmptySeq
      <4>3. /\ \A i \in 1..n : Waits(q[i], hello) /\ (q[i].type = "hello" => i = 1)
            /\ view[c].band # hello => q[1].type = "hello"
            /\ \A i \in 1..Len(spectrum[c]) : spectrum[c][i].band = hello
            /\ n <= CLIENT_QUEUE_MAX
        BY <2>2 DEF QueueNow
      <4> HIDE DEF q, n, m, t
      <4>4. Waits(m, hello) /\ (m.type = "hello" \/ view[c].band = hello)
        BY <4>2, <4>3
      <4>5. Shown(view[c], m) \in Views /\ OneBand(Shown(view[c], m)) /\ Shown(view[c], m).band = hello
        BY <4>2, <4>4, <2>2, <1>1, Shows
      <4>6. \A i \in 1..Len(t) : Waits(t[i], hello) /\ (t[i].type = "hello" => i = 1)
        <5>1. \A i \in 1..Len(t) : i + 1 \in 1..n /\ i + 1 # 1 /\ t[i] = q[i + 1]
          BY <4>2
        <5> QED
          BY <5>1, <4>3
      <4>7. Len(t) <= CLIENT_QUEUE_MAX
        BY <4>2, <4>3, GuiFeedAssumption
      <4>8. QueueNow(c)'
        BY <4>1, <4>3, <4>5, <4>6, <2>2 DEF QueueNow
      <4> QED
        BY <4>1, <4>2, <4>5, <4>7, <4>8, <2>2
    <3>2. CASE text[c] = <<>> /\ spectrum[c] # <<>>
      <4> DEFINE q == spectrum[c]
                 n == Len(q)
                 m == Head(q)
                 t == Tail(q)
      <4>1. spectrum'[c] = t /\ text'[c] = text[c] /\ view'[c] = Shown(view[c], m)
        BY <3>2, <2>1, <1>1 DEF QueueTypes, EndTypes
      <4>2. /\ n \in Nat \ {0} /\ t \in Seq(Messages("row")) /\ m \in Messages("row") /\ m = q[1] /\ Len(t) = n - 1
            /\ \A i \in 1..n - 1 : t[i] = q[i + 1]
        BY <3>2, <2>2, HeadTailProperties, LenProperties, EmptySeq
      <4>3. /\ view[c].band = hello
            /\ \A i \in 1..n : q[i].band = hello
            /\ n <= SPECTRUM_QUEUE_MAX
        BY <2>2, <3>2 DEF QueueNow
      <4> HIDE DEF q, n, m, t
      <4>4. m.band = hello
        BY <4>2, <4>3
      <4>5. Shown(view[c], m) \in Views /\ OneBand(Shown(view[c], m)) /\ Shown(view[c], m).band = hello
        BY <4>2, <4>3, <4>4, <2>2, <1>1, Shows
      <4>6. (\A i \in 1..Len(t) : t[i].band = hello) /\ Len(t) <= SPECTRUM_QUEUE_MAX
        <5>1. \A i \in 1..Len(t) : i + 1 \in 1..n /\ t[i] = q[i + 1]
          BY <4>2
        <5>2. Len(t) <= SPECTRUM_QUEUE_MAX
          BY <4>2, <4>3, GuiFeedAssumption
        <5> QED
          BY <5>1, <5>2, <4>3
      <4>7. QueueNow(c)'
        BY <4>1, <4>5, <4>6, <2>2 DEF QueueNow
      <4> QED
        BY <4>1, <4>2, <4>5, <4>6, <4>7, <2>2
    <3> QED
      BY <2>1, <3>1, <3>2
  <2>4. \A d \in Clients \ {c} : text'[d] = text[d] /\ spectrum'[d] = spectrum[d] /\ view'[d] = view[d]
    BY <2>1, <1>1 DEF QueueTypes, EndTypes
  <2>5. /\ text' = [text EXCEPT ![c] = text'[c]] /\ spectrum' = [spectrum EXCEPT ![c] = spectrum'[c]]
        /\ view' = [view EXCEPT ![c] = view'[c]]
    BY <2>1, <1>1 DEF QueueTypes, EndTypes
  <2>6. QueueTypes'
    BY <2>3, <2>4, <2>5, <1>1 DEF QueueTypes
  <2>7. EndTypes'
    BY <2>1, <2>3, <2>5, <1>1 DEF EndTypes, Served
  <2>8. ASSUME NEW d \in Clients PROVE ClientNow(d)'
    <3>1. CASE d = c
      <4>1. conn'[c] = conn[c] /\ conn[c] = "open"
        BY <2>1 DEF Open
      <4> QED
        BY <3>1, <4>1, <2>3 DEF ClientNow, OneBand
    <3>2. CASE d # c
      <4>1. conn'[d] = conn[d] /\ hello' = hello
        BY <2>1, <2>2
      <4> QED
        BY <3>2, <4>1, <2>4, Same
    <3> QED
      BY <3>1, <3>2
  <2>9. UNCHANGED copy /\ FeedTypes' /\ FeedNow' /\ Carried(hello', calls', band)
    BY <1>2, <2>1 DEF copy
  <2> QED
    BY <2>6, <2>7, <2>8, <2>9, FeedKeeps
<1>6. ASSUME conn[c] \in {"open", "dying"}, UNCHANGED <<copy, calls, feed>>,
             \/ conn' = [conn EXCEPT ![c] = "dying"]
             \/ conn' = [conn EXCEPT ![c] = "gone"],
             \/ view' = view
             \/ view' = [view EXCEPT ![c] = Nothing],
             text' = Without(text, {c}), spectrum' = Without(spectrum, {c}),
             dropped' \subseteq Clients, asked' \in [Clients -> Changes \cup {None}]
      PROVE  IInv'
  <2>1. QueueTypes'
    BY <1>1, <1>3, <1>6, GuiFeedAssumption DEF QueueTypes, Without
  <2>2. Nothing \in Views
    BY DEF Nothing, Views, Empty, Stores, Iq
  <2>3. EndTypes'
    <3>1. Served' \subseteq Served /\ IsFiniteSet(Served)
      BY <1>1, <1>6, FS_Subset, GuiFeedAssumption DEF Served, EndTypes
    <3>2. Cardinality(Served') <= Cardinality(Served) /\ Cardinality(Served) \in Nat /\ Cardinality(Served') \in Nat
      BY <3>1, FS_Subset, FS_CardinalityType
    <3>3. Cardinality(Served') <= MAX_CLIENTS
      BY <3>2, <1>1, GuiFeedAssumption DEF EndTypes
    <3> QED
      BY <3>3, <1>1, <1>6, <2>2 DEF EndTypes
  <2>4. ASSUME NEW d \in Clients PROVE ClientNow(d)'
    <3>1. CASE d = c
      <4>1. conn'[d] \in {"dying", "gone"} /\ view'[d] \in {view[d], Nothing}
        BY <3>1, <1>1, <1>6 DEF EndTypes
      <4> QED
        BY <4>1, Apart
    <3>2. CASE d # c
      <4>1. text'[d] = text[d] /\ spectrum'[d] = spectrum[d] /\ view'[d] = view[d] /\ conn'[d] = conn[d]
            /\ hello' = hello
        BY <3>2, <1>1, <1>6 DEF QueueTypes, EndTypes, Without, feed
      <4> QED
        BY <4>1, Same
    <3> QED
      BY <3>1, <3>2
  <2>5. UNCHANGED copy /\ FeedTypes' /\ FeedNow' /\ Carried(hello', calls', band)
    BY <1>2, <1>6 DEF copy
  <2> QED
    BY <2>1, <2>3, <2>4, <2>5, FeedKeeps
<1>7. CASE Idle(c)
  <2>1. /\ conn[c] = "open" /\ UNCHANGED <<copy, calls, feed, asked, view, dropped>>
        /\ conn' = CutOff({c}) /\ text' = Without(text, {c}) /\ spectrum' = Without(spectrum, {c})
    BY <1>7 DEF Idle
  <2>2. conn' = [conn EXCEPT ![c] = "dying"] /\ dropped' \subseteq Clients /\ asked' \in [Clients -> Changes \cup {None}]
    BY <2>1, <1>1 DEF CutOff, EndTypes
  <2> QED
    BY <2>1, <2>2, <1>6
<1>8. CASE Leaves(c)
  <2>1. /\ conn[c] \in {"open", "dying"} /\ UNCHANGED <<copy, calls, feed>>
        /\ conn' = [conn EXCEPT ![c] = "gone"] /\ view' = [view EXCEPT ![c] = Nothing]
        /\ text' = Without(text, {c}) /\ spectrum' = Without(spectrum, {c})
        /\ asked' = [asked EXCEPT ![c] = None] /\ dropped' = dropped \ {c}
    BY <1>8 DEF Leaves
  <2>2. dropped' \subseteq Clients /\ asked' \in [Clients -> Changes \cup {None}]
    BY <2>1, <1>1 DEF EndTypes
  <2> QED
    BY <2>1, <2>2, <1>6
<1>9. ASSUME NEW change \in Changes, Asks(c, change)
      PROVE  IInv'
  <2> DEFINE m == [type |-> "queue", to |-> c, msg |-> Result(FALSE)]
  <2>1. /\ asked' = [asked EXCEPT ![c] = change]
        /\ UNCHANGED <<tuned, raw, scanner, tap, band, pc, turns, feed, conn, text, spectrum, view, dropped>>
        /\ \/ controls = <<>> /\ controls' = <<[change |-> change, by |-> c]>> /\ calls' = calls
           \/ controls' = controls /\ calls' = Append(calls, m)
    BY <1>9 DEF Asks
  <2>2. Fits(m, band)
    <3>1. m \in [type : {"queue"}, to : Clients, msg : Results]
      BY DEF Result, Results
    <3>2. m \in Calls
      BY <3>1 DEF Calls
    <3> QED
      BY <3>2 DEF Fits, WithIq, Dated
  <2>3. calls' \in Seq(Calls) /\ Carried(hello, calls', band)
    <3> HIDE DEF m
    <3> QED
      BY <2>1, <2>2, <1>1, AddsOne
  <2>4. CopyTypes' /\ InHand'
    <3>1. controls' \in Seq([change : Changes, by : Clients]) /\ Len(controls') <= 1
      <4> DEFINE one == <<[change |-> change, by |-> c]>>
      <4>1. one \in Seq([change : Changes, by : Clients]) /\ Len(one) = 1
        OBVIOUS
      <4>2. controls' \in {one, controls}
        BY <2>1
      <4>3. controls \in Seq([change : Changes, by : Clients]) /\ Len(controls) <= 1
        BY <1>1 DEF CopyTypes
      <4>4. CASE controls' = one
        BY <4>1, <4>4
      <4>5. CASE controls' = controls
        BY <4>3, <4>5
      <4> QED
        BY <4>2, <4>4, <4>5
    <3>2. controls # <<>> => controls' = controls
      BY <2>1
    <3>3. pc = "moved" => controls # <<>>
      BY <1>1 DEF InHand
    <3>4. pc \notin {"turn", "over"} => controls' # <<>>
      BY <3>2, <1>1 DEF InHand
    <3> QED
      BY <2>1, <3>1, <3>2, <3>3, <3>4, <1>1 DEF CopyTypes, InHand
  <2>5. TypeOK'
    <3>1. asked' \in [Clients -> Changes \cup {None}]
      BY <2>1, <1>1 DEF EndTypes
    <3> QED
      BY <2>1, <2>3, <2>4, <3>1, <1>1 DEF TypeOK, CopyTypes, FeedTypes, QueueTypes, EndTypes, Views, feed, Served
  <2>6. FeedNow' /\ \A d \in Clients : ClientNow(d)'
    BY <2>1, <1>1, Same DEF FeedNow, feed
  <2>7. hello' = hello /\ band' = band
    BY <2>1 DEF feed
  <2> QED
    BY <2>3, <2>4, <2>5, <2>6, <2>7 DEF IInv
<1> QED
  BY <1>4, <1>5, <1>7, <1>8, <1>9 DEF Client

-----------------------------------------------------------------------------
(* What a client shows after the frames that wait for it.                *)

\* A set of numbers has a least one.
LEMMA LeastOf ==
  ASSUME NEW T, T \subseteq Nat, T # {}
  PROVE  \E x \in T : \A y \in T : x <= y
<1>1. PICK x \in T : \A y \in T : ~ (<<y, x>> \in OpToRel(<, Nat))
  BY WFMin, NatLessThanWellFounded, Zenon
<1>2. \A y \in T : ~ (y < x)
  BY <1>1 DEF OpToRel
<1> QED
  BY <1>2

\* f gives what a client shows after each of the first n frames.
IsRun(f, v, frames, n) ==
  f = [i \in 0..n |-> IF i = 0 THEN v ELSE Shown(f[i - 1], frames[i])]

\* One frame more.
LEMMA RunsOn ==
  ASSUME NEW v, NEW frames, NEW n \in Nat, NEW f, IsRun(f, v, frames, n)
  PROVE  LET g == [i \in 0..(n + 1) |-> IF i = n + 1 THEN Shown(f[n], frames[n + 1]) ELSE f[i]]
         IN IsRun(g, v, frames, n + 1)
<1> DEFINE g == [i \in 0..(n + 1) |-> IF i = n + 1 THEN Shown(f[n], frames[n + 1]) ELSE f[i]]
           h == [i \in 0..(n + 1) |-> IF i = 0 THEN v ELSE Shown(g[i - 1], frames[i])]
<1>1. \A i \in 0..n : f[i] = IF i = 0 THEN v ELSE Shown(f[i - 1], frames[i])
  BY DEF IsRun
<1>2. \A i \in 0..n : g[i] = f[i] /\ i \in 0..(n + 1) /\ i # n + 1
  OBVIOUS
<1>3. g[n + 1] = Shown(f[n], frames[n + 1])
  OBVIOUS
<1>4. ASSUME NEW i \in 0..(n + 1) PROVE g[i] = h[i]
  <2>1. CASE i = 0
    <3>1. g[i] = f[0] /\ f[0] = v
      BY <1>1, <1>2, <2>1
    <3> QED
      BY <2>1, <3>1
  <2>2. CASE i # 0 /\ i # n + 1
    <3>1. i \in 0..n /\ i - 1 \in 0..n
      BY <2>2
    <3> HIDE DEF g
    <3>2. g[i] = Shown(f[i - 1], frames[i]) /\ g[i - 1] = f[i - 1]
      BY <1>1, <1>2, <2>2, <3>1
    <3> QED
      BY <2>2, <3>2
  <2>3. CASE i = n + 1
    <3>1. n \in 0..n /\ i - 1 = n /\ i # 0
      BY <2>3
    <3>2. g[i - 1] = f[n]
      BY <1>2, <3>1
    <3> QED
      BY <1>3, <2>3, <3>1, <3>2
  <2> QED
    BY <2>1, <2>2, <2>3
<1> QED
  BY <1>4 DEF IsRun

\* There is one for any number of frames: else there were a least number without.
LEMMA RunExists ==
  ASSUME NEW v, NEW frames, NEW n \in Nat
  PROVE  \E f : IsRun(f, v, frames, n)
<1> DEFINE T == {k \in Nat : ~ \E f : IsRun(f, v, frames, k)}
<1> SUFFICES ASSUME T # {} PROVE FALSE
  OBVIOUS
<1>1. PICK k \in T : \A j \in T : k <= j
  BY LeastOf
<1>2. IsRun([i \in 0..0 |-> v], v, frames, 0)
  BY DEF IsRun
<1>3. k # 0 /\ k - 1 \in Nat /\ k - 1 + 1 = k
  BY <1>1, <1>2
<1>4. k - 1 \notin T
  BY <1>1, <1>3
<1>5. PICK f : IsRun(f, v, frames, k - 1)
  BY <1>3, <1>4
<1>6. \E g : IsRun(g, v, frames, k - 1 + 1)
  BY <1>3, <1>5, RunsOn
<1> QED
  BY <1>1, <1>3, <1>6

\* f goes on frame by frame from what it gives at 0.
Follows(f, frames, n) == \A i \in 1..n : f[i] = Shown(f[i - 1], frames[i])

\* Two that start from the same agree: else there were a first place where they part.
LEMMA RunsAgree ==
  ASSUME NEW n \in Nat, NEW f, NEW g, f[0] = g[0], NEW frames, Follows(f, frames, n), Follows(g, frames, n)
  PROVE  f[n] = g[n]
<1> DEFINE T == {k \in 0..n : f[k] # g[k]}
<1> SUFFICES ASSUME T # {} PROVE FALSE
  OBVIOUS
<1>0. T \subseteq Nat
  OBVIOUS
<1>1. PICK k \in T : \A j \in T : k <= j
  BY <1>0, LeastOf
<1>2. k \in 1..n /\ k - 1 \in 0..n /\ ~(k <= k - 1)
  BY <1>1
<1>3. f[k - 1] = g[k - 1]
  BY <1>1, <1>2
<1> QED
  BY <1>1, <1>2, <1>3 DEF Follows

\* What a client shows after the frames is the end of such a function.
LEMMA AfterRuns ==
  ASSUME NEW v, NEW frames, NEW n \in Nat, Len(frames) = n
  PROVE  \E f : f[0] = v /\ Follows(f, frames, n) /\ After(v, frames) = f[n]
<1> DEFINE shown == CHOOSE f : IsRun(f, v, frames, n)
<1>1. IsRun(shown, v, frames, n)
  BY RunExists
<1>2. After(v, frames) = shown[n]
  BY DEF After, IsRun
<1> HIDE DEF shown
<1>3. \A i \in 0..n : shown[i] = IF i = 0 THEN v ELSE Shown(shown[i - 1], frames[i])
  BY <1>1 DEF IsRun
<1>4. 0 \in 0..n /\ \A i \in 1..n : i \in 0..n /\ i # 0
  OBVIOUS
<1>5. shown[0] = v /\ Follows(shown, frames, n)
  BY <1>3, <1>4 DEF Follows
<1> QED
  BY <1>2, <1>5

\* No frame, one frame more at the end, and the first one sent.
LEMMA AfterNone ==
  ASSUME NEW v
  PROVE  After(v, <<>>) = v
<1>1. Len(<<>>) = 0 /\ 0 \in Nat
  BY EmptySeq
<1>2. PICK f : f[0] = v /\ After(v, <<>>) = f[0]
  BY <1>1, AfterRuns
<1> QED
  BY <1>2

\* One more frame is shown after all the others.
LEMMA AfterMore ==
  ASSUME NEW v, NEW S, NEW frames \in Seq(S), NEW m \in S
  PROVE  After(v, Append(frames, m)) = Shown(After(v, frames), m)
<1> DEFINE n == Len(frames)
           more == Append(frames, m)
<1>1. n \in Nat /\ n + 1 \in Nat /\ Len(more) = n + 1 /\ more[n + 1] = m /\ \A i \in 1..n : more[i] = frames[i]
  BY AppendProperties, LenProperties
<1>0. Len(frames) = n /\ n \in Nat /\ n + 1 \in Nat
  BY <1>1
<1> HIDE DEF n, more
<1>2. PICK f : f[0] = v /\ Follows(f, frames, n) /\ After(v, frames) = f[n]
  BY <1>0, AfterRuns
<1>3. PICK g : g[0] = v /\ Follows(g, more, n + 1) /\ After(v, more) = g[n + 1]
  BY <1>0, <1>1, AfterRuns
<1>4. \A i \in 1..n : i \in 1..(n + 1)
  BY <1>1
<1>5. Follows(g, frames, n)
  BY <1>1, <1>3, <1>4 DEF Follows
<1>6. f[n] = g[n]
  BY <1>0, <1>2, <1>3, <1>5, RunsAgree
<1>7. n + 1 \in 1..(n + 1) /\ n + 1 - 1 = n
  BY <1>1
<1>8. g[n + 1] = Shown(g[n], m)
  BY <1>1, <1>3, <1>7 DEF Follows
<1> QED
  BY <1>2, <1>3, <1>6, <1>8 DEF more

\* A frame read first is shown before the rest.
LEMMA AfterHead ==
  ASSUME NEW v, NEW S, NEW frames \in Seq(S), frames # <<>>
  PROVE  After(Shown(v, Head(frames)), Tail(frames)) = After(v, frames)
<1> DEFINE n == Len(frames) - 1
           rest == Tail(frames)
           w == Shown(v, Head(frames))
<1>1. /\ n \in Nat /\ n + 1 \in Nat /\ Len(frames) = n + 1 /\ Len(rest) = n /\ Head(frames) = frames[1]
      /\ \A i \in 1..n : rest[i] = frames[i + 1]
  BY HeadTailProperties, LenProperties, EmptySeq
<1>0. w = Shown(v, frames[1]) /\ n \in Nat
  BY <1>1
<1>10. Len(frames) = n + 1 /\ n + 1 \in Nat
  BY <1>1
<1> HIDE DEF n, rest, w
<1>2. PICK f : f[0] = v /\ Follows(f, frames, n + 1) /\ After(v, frames) = f[n + 1]
  BY <1>10, AfterRuns
<1>3. PICK g : g[0] = w /\ Follows(g, rest, n) /\ After(w, rest) = g[n]
  BY <1>1, AfterRuns
<1> DEFINE h == [i \in 0..n |-> f[i + 1]]
<1>4. \A i \in 0..n : h[i] = f[i + 1] /\ i + 1 \in 1..(n + 1) /\ i + 1 - 1 = i
  BY <1>1
<1>5. \A i \in 1..n : i \in 0..n /\ i - 1 \in 0..n /\ i - 1 + 1 = i
  BY <1>1
<1> HIDE DEF h
<1>6. h[0] = g[0]
  <2>1. 0 \in 0..n /\ 0 + 1 = 1 /\ 1 - 1 = 0
    BY <1>1
  <2>2. h[0] = f[1] /\ 1 \in 1..(n + 1)
    BY <1>4, <2>1
  <2>3. f[1] = Shown(f[1 - 1], frames[1])
    BY <1>2, <2>2 DEF Follows
  <2> QED
    BY <1>0, <1>2, <1>3, <2>1, <2>2, <2>3
<1>7. Follows(h, rest, n)
  <2> SUFFICES ASSUME NEW i \in 1..n PROVE h[i] = Shown(h[i - 1], rest[i])
    BY DEF Follows
  <2>1. h[i] = f[i + 1] /\ h[i - 1] = f[i] /\ i + 1 \in 1..(n + 1) /\ i + 1 - 1 = i
    BY <1>4, <1>5
  <2>2. f[i + 1] = Shown(f[i + 1 - 1], frames[i + 1])
    BY <1>2, <2>1 DEF Follows
  <2> QED
    BY <1>1, <2>1, <2>2
<1>8. h[n] = g[n]
  BY <1>0, <1>3, <1>6, <1>7, RunsAgree
<1>9. h[n] = f[n + 1]
  BY <1>1, <1>4
<1> QED
  BY <1>2, <1>3, <1>8, <1>9 DEF rest, w

-----------------------------------------------------------------------------
(* The ends of sequences.                                                *)

\* The last elements of a sequence.
Ends(s, t) ==
  /\ Len(s) <= Len(t)
  /\ \A i \in 1..Len(s) : s[i] = t[Len(t) - Len(s) + i]

\* The end of a sequence by its places.
LEMMA SuffixIs ==
  ASSUME NEW S, NEW s \in Seq(S), NEW t \in Seq(S), Ends(s, t)
  PROVE  IsSuffix(s, t)
<1> DEFINE n == Len(s)
           m == Len(t)
           rs == Reverse(s)
           rt == Reverse(t)
<1>1. n \in Nat /\ m \in Nat /\ n <= m /\ \A i \in 1..n : s[i] = t[m - n + i]
  BY LenProperties DEF Ends
<1>2. /\ rs = [i \in 1..n |-> s[(n - i) + 1]] /\ rt = [i \in 1..m |-> t[(m - i) + 1]]
      /\ \A i \in 1..n : s[i] \in S
      /\ \A i \in 1..m : t[i] \in S
  BY ElementOfSeq DEF Reverse
<1>3. rs \in Seq(S) /\ rt \in Seq(S) /\ Len(rs) = n /\ Len(rt) = m
      /\ (\A i \in 1..n : rs[i] = s[(n - i) + 1]) /\ \A i \in 1..m : rt[i] = t[(m - i) + 1]
  <2> HIDE DEF n, m, rs, rt
  <2>1. (\A i \in 1..n : rs[i] \in S) /\ (\A i \in 1..m : rt[i] \in S)
    BY <1>1, <1>2
  <2>2. rs \in [1..n -> S] /\ rt \in [1..m -> S]
    BY <1>2, <2>1
  <2>3. rs \in Seq(S) /\ rt \in Seq(S)
    BY <1>1, <2>2, IsASeq
  <2>4. Len(rs) = n /\ Len(rt) = m
    BY <1>1, <2>2, <2>3, LenProperties
  <2> QED
    BY <1>2, <2>3, <2>4
<1>4. IsSuffix(s, t) <=> Len(rs) <= Len(rt) /\ SubSeq(rs, 1, Len(rs)) = SubSeq(rt, 1, Len(rs))
  BY DEF IsSuffix, IsPrefix
<1> HIDE DEF n, m, rs, rt
<1> DEFINE a == SubSeq(rs, 1, n)
           b == SubSeq(rt, 1, n)
<1>5. a \in Seq(S) /\ Len(a) = n /\ \A i \in 1..n : a[i] = rs[i]
  <2>1. \A i \in 1..n : rs[i] \in S
    BY <1>1, <1>2, <1>3
  <2>2. /\ a \in Seq(S) /\ Len(a) = IF 1 <= n THEN n - 1 + 1 ELSE 0
        /\ \A i \in 1..n - 1 + 1 : a[i] = rs[1 + i - 1]
    BY <1>1, <2>1, SubSeqProperties
  <2> HIDE DEF a
  <2> QED
    BY <1>1, <2>2
<1>6. b \in Seq(S) /\ Len(b) = n /\ \A i \in 1..n : b[i] = rt[i]
  <2>1. \A i \in 1..n : rt[i] \in S
    BY <1>1, <1>2, <1>3
  <2>2. /\ b \in Seq(S) /\ Len(b) = IF 1 <= n THEN n - 1 + 1 ELSE 0
        /\ \A i \in 1..n - 1 + 1 : b[i] = rt[1 + i - 1]
    BY <1>1, <2>1, SubSeqProperties
  <2> HIDE DEF b
  <2> QED
    BY <1>1, <2>2
<1> HIDE DEF a, b
<1>7. ASSUME NEW i \in 1..n PROVE a[i] = b[i]
  <2>1. (n - i) + 1 \in 1..n /\ i \in 1..m /\ m - n + ((n - i) + 1) = (m - i) + 1
    BY <1>1
  <2>2. a[i] = s[(n - i) + 1] /\ b[i] = t[(m - i) + 1]
    BY <1>3, <1>5, <1>6, <2>1
  <2>3. s[(n - i) + 1] = t[m - n + ((n - i) + 1)]
    BY <1>1, <2>1
  <2> QED
    BY <2>1, <2>2, <2>3
<1>8. a = b
  BY <1>5, <1>6, <1>7, SeqEqual
<1> QED
  BY <1>1, <1>3, <1>4, <1>8 DEF a, b


\* A sequence ends in all of it.
LEMMA EndsSame ==
  ASSUME NEW S, NEW s \in Seq(S)
  PROVE  Ends(s, s)
<1> DEFINE n == Len(s)
<1>1. n \in Nat
  BY LenProperties
<1>2. \A i \in 1..n : n - n + i = i
  BY <1>1
<1> QED
  BY <1>1, <1>2 DEF Ends

\* What goes from the front of the one and comes to the end of both.
LEMMA EndsMore ==
  ASSUME NEW S, NEW s \in Seq(S), NEW t \in Seq(S), NEW m \in S, Ends(s, t), NEW gone \in 0..Len(s)
  PROVE  LET r == SubSeq(s, gone + 1, Len(s))
         IN /\ r \in Seq(S) /\ Len(r) = Len(s) - gone
            /\ \A i \in 1..Len(s) - gone : r[i] = s[gone + i]
            /\ Append(r, m) \in Seq(S) /\ Ends(Append(r, m), Append(t, m))
<1> DEFINE n == Len(s)
           l == Len(t)
           r == SubSeq(s, gone + 1, n)
           z == Append(r, m)
           u == Append(t, m)
<1>1. n \in Nat /\ l \in Nat /\ n <= l /\ gone \in 0..n /\ \A i \in 1..n : s[i] = t[l - n + i]
  BY LenProperties DEF Ends
<1>2. r \in Seq(S) /\ Len(r) = n - gone /\ \A i \in 1..n - gone : r[i] = s[gone + i]
  <2>1. \A i \in gone + 1..n : s[i] \in S
    <3>1. \A i \in gone + 1..n : i \in 1..n
      <4> HIDE DEF n
      <4> QED
        BY <1>1
    <3> QED
      BY <3>1, ElementOfSeq
  <2>2. /\ r \in Seq(S) /\ Len(r) = IF gone + 1 <= n THEN n - (gone + 1) + 1 ELSE 0
        /\ \A i \in 1..n - (gone + 1) + 1 : r[i] = s[gone + 1 + i - 1]
    BY <1>1, <2>1, SubSeqProperties
  <2> HIDE DEF n, r
  <2> QED
    BY <1>1, <2>2
<1> HIDE DEF r
<1>3. /\ z \in Seq(S) /\ Len(z) = n - gone + 1 /\ z[n - gone + 1] = m
      /\ \A i \in 1..n - gone : z[i] = s[gone + i]
  <2>1. z \in Seq(S) /\ Len(z) = Len(r) + 1 /\ (\A i \in 1..Len(r) : z[i] = r[i]) /\ z[Len(r) + 1] = m
    BY <1>2, AppendProperties
  <2> HIDE DEF z, n
  <2> QED
    BY <1>2, <2>1
<1>4. u \in Seq(S) /\ Len(u) = l + 1 /\ u[l + 1] = m /\ \A i \in 1..l : u[i] = t[i]
  BY AppendProperties
<1> HIDE DEF n, l, z, u
<1>5. ASSUME NEW i \in 1..n - gone + 1
      PROVE  z[i] = u[(l + 1) - (n - gone + 1) + i]
  <2>1. CASE i \in 1..n - gone
    <3>1. gone + i \in 1..n /\ l - n + (gone + i) \in 1..l
          /\ l - n + (gone + i) = (l + 1) - (n - gone + 1) + i
      BY <1>1, <2>1
    <3> QED
      BY <1>1, <1>3, <1>4, <2>1, <3>1
  <2>2. CASE i = n - gone + 1
    <3>1. (l + 1) - (n - gone + 1) + i = l + 1
      BY <1>1, <2>2
    <3> QED
      BY <1>3, <1>4, <2>2, <3>1
  <2> QED
    BY <1>1, <2>1, <2>2
<1>6. Ends(z, u)
  BY <1>1, <1>3, <1>4, <1>5 DEF Ends
<1> QED
  BY <1>2, <1>3, <1>6 DEF r, z, u, n


-----------------------------------------------------------------------------
(* Nothing missed: what is kept and what is shown are in order.          *)

\* Nothing of q, of kind k, is newer than t or than a callback of s.
Before(q, k, s, t) ==
  /\ q \in Seq(Messages(k))
  /\ \A i, j \in 1..Len(q) : i < j => q[i].n < q[j].n
  /\ \A i \in 1..Len(q) : q[i].n < t
  /\ \A i \in 1..Len(q) : \A j \in 1..Len(s) : s[j].type = k => q[i].n < s[j].n

\* The windows of s are in the order they were made in, before t, and so are its spots.
Made(s, t) ==
  /\ \A i \in 1..Len(s) : s[i].type \in Kept => s[i].n < t
  /\ \A i, j \in 1..Len(s) :
       i < j /\ s[i].type \in Kept /\ s[j].type = s[i].type => s[i].n < s[j].n

\* What is before s and t is before s1 and t1.
StillBefore(s, t, s1, t1) ==
  \A k \in Kept : \A q : Before(q, k, s, t) => Before(q, k, s1, t1)

\* What a client will show ends in what the feed keeps, and nothing of it is out of order.
ShowsKept(v) ==
  /\ v \in Views
  /\ \A k \in Kept : Ends(store[k], v.kept[k]) /\ Before(v.kept[k], k, calls, turns)

Order ==
  /\ Made(calls, turns)
  /\ \A k \in Kept : Before(store[k], k, calls, turns)
  /\ \A c \in Open : ShowsKept(WillShow(c))

\* The callback that runs.
LEMMA TakesFirst ==
  ASSUME NEW s \in Seq(Calls), s # <<>>, NEW t, Made(s, t)
  PROVE  /\ Made(Tail(s), t) /\ StillBefore(s, t, Tail(s), t)
         /\ Head(s).type \in Kept =>
              \A q : Before(q, Head(s).type, s, t) =>
                      Before(Append(q, Head(s)), Head(s).type, Tail(s), t)
<1> DEFINE n == Len(s)
           r == Tail(s)
           m == Head(s)
           k == m.type
<1>1. /\ n \in Nat \ {0} /\ Len(r) = n - 1 /\ m = s[1] /\ m \in Calls
      /\ \A i \in 1..n - 1 : r[i] = s[i + 1]
  BY HeadTailProperties, LenProperties, EmptySeq
<1>2. 1 \in 1..n /\ \A i \in 1..n - 1 : i + 1 \in 1..n /\ 1 < i + 1
  <2> HIDE DEF n
  <2> QED
    BY <1>1
<1>3. k \in Kept => m \in Messages(k)
  BY <1>1, CallKinds DEF Kept, WithIq
<1> HIDE DEF n, r, m
<1>4. \A i \in 1..n - 1 : \A j \in 1..n - 1 : i < j => i + 1 < j + 1
  BY <1>1
<1>5. Made(r, t)
  BY <1>1, <1>2, <1>4 DEF Made, n
<1>6. StillBefore(s, t, r, t)
  BY <1>1, <1>2 DEF StillBefore, Before, n
<1>7. ASSUME k \in Kept, NEW q, Before(q, k, s, t)
      PROVE  Before(Append(q, m), k, r, t)
  <2> DEFINE z == Append(q, m)
             l == Len(q)
  <2>1. q \in Seq(Messages(k)) /\ l \in Nat
    BY <1>7, LenProperties DEF Before
  <2>2. z \in Seq(Messages(k)) /\ Len(z) = l + 1 /\ z[l + 1] = m /\ \A i \in 1..l : z[i] = q[i]
    BY <1>3, <1>7, <2>1, AppendProperties
  <2>3. m.n < t /\ \A j \in 1..n - 1 : r[j].type = k => m.n < r[j].n
    BY <1>1, <1>2, <1>7 DEF Made, n
  <2>4. \A i \in 1..l : q[i].n < m.n
    BY <1>1, <1>2, <1>7 DEF Before, n
  <2>5. /\ \A i, j \in 1..l : i < j => q[i].n < q[j].n
        /\ \A i \in 1..l : q[i].n < t
        /\ \A i \in 1..l : \A j \in 1..n - 1 : r[j].type = k => q[i].n < r[j].n
    BY <1>1, <1>2, <1>7 DEF Before, n
  <2> HIDE DEF l, z, k
  <2>6. \A i \in 1..l + 1 : i \in 1..l \/ i = l + 1
    BY <2>1
  <2>7. \A i, j \in 1..l + 1 : i < j => i \in 1..l
    BY <2>1
  <2>8. \A i, j \in 1..l + 1 : i < j => z[i].n < z[j].n
    BY <2>2, <2>4, <2>5, <2>6, <2>7
  <2> QED
    BY <1>1, <2>2, <2>3, <2>5, <2>6, <2>8 DEF Before, z
<1> QED
  BY <1>5, <1>6, <1>7 DEF r, m

\* A callback more.
LEMMA OneMore ==
  ASSUME NEW s \in Seq(Calls), NEW t, Made(s, t), NEW m \in Calls, NEW u,
         m.type \in Kept => m.n < u /\ \A i \in 1..Len(s) : s[i].type = m.type => s[i].n < m.n,
         \A i \in 1..Len(s) : s[i].type \in Kept => s[i].n < u
  PROVE  Made(Append(s, m), u)
<1> DEFINE n == Len(s)
           z == Append(s, m)
<1>1. n \in Nat /\ Len(z) = n + 1 /\ z[n + 1] = m /\ \A i \in 1..n : z[i] = s[i]
  BY AppendProperties, LenProperties
<1>2. /\ m.type \in Kept => m.n < u /\ \A i \in 1..n : s[i].type = m.type => s[i].n < m.n
      /\ \A i \in 1..n : s[i].type \in Kept => s[i].n < u
      /\ \A i, j \in 1..n :
           i < j /\ s[i].type \in Kept /\ s[j].type = s[i].type => s[i].n < s[j].n
  BY DEF Made
<1> HIDE DEF n, z
<1>3. (\A i \in 1..n + 1 : i \in 1..n \/ i = n + 1) /\ \A i, j \in 1..n + 1 : i < j => i \in 1..n
  BY <1>1
<1>4. \A i \in 1..n + 1 : z[i].type \in Kept => z[i].n < u
  BY <1>1, <1>2, <1>3
<1>5. \A i, j \in 1..n + 1 :
        i < j /\ z[i].type \in Kept /\ z[j].type = z[i].type => z[i].n < z[j].n
  BY <1>1, <1>2, <1>3
<1> QED
  BY <1>1, <1>4, <1>5 DEF Made, z

\* What was made before it is before it.
LEMMA BeforeMore ==
  ASSUME NEW s \in Seq(Calls), NEW t, NEW m \in Calls, m.type \in Kept => m.n = t
  PROVE  StillBefore(s, t, Append(s, m), t)
<1> DEFINE n == Len(s)
           z == Append(s, m)
<1>1. n \in Nat /\ Len(z) = n + 1 /\ z[n + 1] = m /\ \A i \in 1..n : z[i] = s[i]
  BY AppendProperties, LenProperties
<1>2. \A i \in 1..n + 1 : i \in 1..n \/ i = n + 1
  <2> HIDE DEF n
  <2> QED
    BY <1>1
<1> SUFFICES ASSUME NEW k \in Kept, NEW q, Before(q, k, s, t)
             PROVE  Before(q, k, z, t)
  BY DEF StillBefore
<1>3. /\ \A i \in 1..Len(q) : q[i].n < t
      /\ \A i \in 1..Len(q) : \A j \in 1..n : s[j].type = k => q[i].n < s[j].n
  BY DEF Before
<1> HIDE DEF n, z
<1>4. \A i \in 1..Len(q) : \A j \in 1..n + 1 : z[j].type = k => q[i].n < z[j].n
  BY <1>1, <1>2, <1>3
<1> QED
  BY <1>1, <1>4 DEF Before

\* What a client makes of a frame.
LEMMA ShownIs ==
  ASSUME NEW v \in Views, NEW m \in Texts
  PROVE  /\ Shown(v, m) \in Views
         /\ m.type = "hello" => Shown(v, m).kept = Empty
         /\ m.type = "snapshot" => Shown(v, m).kept = m.store
         /\ m.type \in Kept =>
              /\ Shown(v, m).kept[m.type] = Append(v.kept[m.type], m)
              /\ \A k \in Kept \ {m.type} : Shown(v, m).kept[k] = v.kept[k]
         /\ m.type \in {"result", "status"} => Shown(v, m).kept = v.kept
<1>1. v.kept \in Stores /\ v.of \subseteq Bands /\ \A k \in Kept : v.kept[k] \in Seq(Messages(k))
  BY DEF Views, Stores, Kept, Iq
<1>2. m.type \in Kept \cup {"result", "status", "hello", "snapshot"}
  BY TextKinds
<1>3. CASE m.type = "hello"
  <2>1. Shown(v, m) = [v EXCEPT !.band = m.band, !.of = {}, !.kept = Empty] /\ m.band \in Bands
    BY <1>3, TextKinds DEF Shown, Kept
  <2>2. Empty \in Stores
    BY DEF Empty, Stores, Kept
  <2>3. Shown(v, m) = [band |-> m.band, kept |-> Empty, of |-> {}, answer |-> v.answer]
    BY <2>1 DEF Views
  <2> QED
    BY <1>3, <2>1, <2>2, <2>3 DEF Views, Iq, Kept
<1>4. CASE m.type = "snapshot"
  <2>1. Shown(v, m) = [v EXCEPT !.kept = m.store, !.of = {m.status} \ {None}]
        /\ m.store \in Stores /\ m.status \in Bands \cup {None}
    BY <1>4, TextKinds DEF Shown, Kept
  <2> DEFINE of == {m.status} \ {None}
  <2>2. of \in Iq
    BY <2>1 DEF Iq
  <2> HIDE DEF of
  <2>3. Shown(v, m) = [v EXCEPT !.kept = m.store, !.of = of]
    BY <2>1 DEF of
  <2>4. Shown(v, m) \in Views /\ Shown(v, m).kept = m.store
    BY <2>1, <2>2, <2>3 DEF Views
  <2> QED
    BY <1>4, <2>4 DEF Kept
<1>5. CASE m.type \in Kept
  <2> DEFINE k == m.type
             z == Append(v.kept[k], m)
  <2>1. m \in Messages(k)
    BY <1>5, TextKinds
  <2>2. Shown(v, m) = [v EXCEPT !.kept[k] = z]
    BY <1>5 DEF Shown, Kept
  <2>3. z \in Seq(Messages(k))
    BY <1>1, <1>5, <2>1, AppendProperties
  <2> HIDE DEF z
  <2> DEFINE w == [v EXCEPT !.kept[k] = z]
  <2>4. w.kept \in Stores /\ w.kept[k] = z /\ \A j \in Kept \ {k} : w.kept[j] = v.kept[j]
    BY <1>1, <1>5, <2>3 DEF Views, Stores, Kept
  <2>5. w \in Views
    BY <2>4 DEF Views
  <2> HIDE DEF w
  <2> QED
    BY <1>5, <2>2, <2>4, <2>5 DEF w, z, Kept
<1>6. CASE m.type = "status"
  <2>1. Shown(v, m) = [v EXCEPT !.of = @ \cup {m.band}] /\ m.band \in Bands
    BY <1>6, TextKinds DEF Shown, Kept
  <2> QED
    BY <1>1, <1>6, <2>1 DEF Views, Iq, Kept
<1>7. CASE m.type = "result"
  <2>1. Shown(v, m) = [v EXCEPT !.answer = m.ok] /\ m.ok \in BOOLEAN
    BY <1>7, TextKinds DEF Shown, Kept
  <2> QED
    BY <1>7, <2>1 DEF Views, Kept
<1> QED
  BY <1>2, <1>3, <1>4, <1>5, <1>6, <1>7

\* A row leaves the windows and the spots of a view.
LEMMA RowShown ==
  ASSUME NEW v \in Views, NEW m \in Messages("row")
  PROVE  Shown(v, m) \in Views /\ Shown(v, m).kept = v.kept
<1>1. m.type = "row" /\ m.band \in Bands /\ Shown(v, m) = [v EXCEPT !.of = @ \cup {m.band}]
  BY DEF Messages, Shown, Kept
<1> QED
  BY <1>1 DEF Views, Iq

\* What a client shows after a hello and a snapshot.
LEMMA AfterGreeting ==
  ASSUME NEW v \in Views, NEW b \in Bands, NEW kept \in Stores, NEW s \in Bands \cup {None}
  PROVE  After(v, Greeting(b, kept, s)) \in Views /\ After(v, Greeting(b, kept, s)).kept = kept
<1> DEFINE h == [type |-> "hello", band |-> b]
           m == [type |-> "snapshot", store |-> kept, status |-> s]
<1>1. h \in Texts /\ m \in Texts /\ h.type = "hello" /\ m.type = "snapshot" /\ m.store = kept
  BY DEF Texts
<1>2. Greeting(b, kept, s) = <<h, m>>
  BY DEF Greeting
<1> HIDE DEF h, m
<1>3. <<>> \in Seq(Texts)
  OBVIOUS
<1>4. <<h, m>> = Append(Append(<<>>, h), m) /\ Append(<<>>, h) \in Seq(Texts)
  BY <1>1
<1>5. After(v, Append(<<>>, h)) = Shown(After(v, <<>>), h)
  BY <1>1, <1>3, AfterMore
<1>6. After(v, Append(Append(<<>>, h), m)) = Shown(After(v, Append(<<>>, h)), m)
  BY <1>1, <1>4, AfterMore
<1>7. Shown(v, h) \in Views
  BY <1>1, ShownIs
<1>8. Shown(Shown(v, h), m) \in Views /\ Shown(Shown(v, h), m).kept = kept
  BY <1>1, <1>7, ShownIs
<1> QED
  BY <1>2, <1>4, <1>5, <1>6, <1>8, AfterNone

\* A step of the copy.
LEMMA CopyOrder ==
  ASSUME Order, UNCHANGED <<store, conn, text, view>>, Made(calls', turns'),
         StillBefore(calls, turns, calls', turns')
  PROVE  Order'
<1>1. /\ \A k \in Kept : Before(store[k], k, calls, turns)
      /\ \A c \in Open : ShowsKept(WillShow(c))
      /\ store' = store /\ Open' = Open /\ \A c \in Clients : WillShow(c)' = WillShow(c)
  BY DEF Order, WillShow, Open
<1>2. \A k \in Kept : Before(store'[k], k, calls', turns')
  BY <1>1 DEF StillBefore
<1>3. ASSUME NEW v, ShowsKept(v)
      PROVE  v \in Views /\ \A k \in Kept : Ends(store'[k], v.kept[k]) /\ Before(v.kept[k], k, calls', turns')
  BY <1>1, <1>3 DEF StillBefore, ShowsKept
<1>4. \A c \in Open : ShowsKept(WillShow(c))'
  <2> SUFFICES ASSUME NEW c \in Open PROVE ShowsKept(WillShow(c))'
    BY <1>1
  <2>1. c \in Clients /\ ShowsKept(WillShow(c)) /\ WillShow(c)' = WillShow(c)
    BY <1>1 DEF Open
  <2> DEFINE v == WillShow(c)
  <2>2. v \in Views /\ \A k \in Kept : Ends(store'[k], v.kept[k]) /\ Before(v.kept[k], k, calls', turns')
    BY <1>3, <2>1
  <2> QED
    BY <2>1, <2>2 DEF ShowsKept
<1> QED
  BY <1>1, <1>2, <1>4 DEF Order

\* Callbacks that no client keeps.
LEMMA PlainMore ==
  ASSUME NEW s \in Seq(Calls), NEW t, Made(s, t), NEW m \in Calls, m.type \notin Kept
  PROVE  Made(Append(s, m), t) /\ StillBefore(s, t, Append(s, m), t)
<1>1. \A i \in 1..Len(s) : s[i].type \in Kept => s[i].n < t
  BY DEF Made
<1> QED
  BY <1>1, OneMore, BeforeMore

\* A turn publishes a window and a spot at most, newer than all before.
LEMMA TurnOrder ==
  ASSUME IInv, Order, Turn
  PROVE  Order'
<1>1. calls \in Seq(Calls) /\ turns \in Nat /\ Made(calls, turns)
  BY GuiFeedAssumption DEF IInv, TypeOK, Order
<1>2. turns' = turns + 1 /\ UNCHANGED <<feed, ends>>
  BY DEF Turn
<1> DEFINE Fresh(s, X) ==
             /\ s \in Seq(Calls) /\ Made(s, turns + 1) /\ StillBefore(calls, turns, s, turns)
             /\ \A i \in 1..Len(s) : s[i].type \in Kept \ X => s[i].n < turns
           Some(out, k, m) == IF k \in out THEN <<m>> ELSE <<>>
           window == Data("window", scanner.centre, scanner'.iq)
           row == Data("row", tap.centre, tap'.iq)
           spot == Data("spot", scanner.centre, scanner'.iq)
<1>3. window \in Calls /\ row \in Calls /\ spot \in Calls /\ Status(band) \in Calls
  <2>1. scanner.centre \in Bands /\ scanner'.iq \in Iq /\ tap.centre \in Bands /\ tap'.iq \in Iq
        /\ band \in Bands /\ turns \in 0..MaxTurns
    <3>1. /\ {scanner, tap} \subseteq [centre : Bands, iq : Iq] /\ band \in Bands /\ turns \in 0..MaxTurns
          /\ raw \in Iq /\ scanner' = [scanner EXCEPT !.iq = @ \cup raw]
          /\ tap' \in {tap, [tap EXCEPT !.iq = @ \cup raw]}
      BY DEF IInv, TypeOK, Turn
    <3>2. scanner \in [centre : Bands, iq : Iq] /\ tap \in [centre : Bands, iq : Iq]
      BY <3>1
    <3> QED
      BY <3>1, <3>2 DEF Iq
  <2>2. Status(band) \in [type : {"status", "bands"}, band : Bands]
    BY <2>1 DEF Status
  <2>3. window \in Messages("window") /\ row \in Messages("row") /\ spot \in Messages("spot")
    BY <2>1 DEF Data, Messages
  <2> HIDE DEF window, row, spot
  <2> QED
    BY <2>2, <2>3 DEF Calls
<1>4. /\ window.type = "window" /\ row.type = "row" /\ spot.type = "spot" /\ Status(band).type = "status"
      /\ window.n = turns /\ spot.n = turns
  BY DEF Data, Status
<1>5. PICK out \in Outputs :
        calls' = calls \o Some(out, "window", window) \o Some(out, "row", row)
                       \o Some(out, "spot", spot) \o Some(out, "status", Status(band))
  BY DEF Turn
<1> HIDE DEF window, row, spot
<1>6. Fresh(calls, {})
  <2>1. \A i \in 1..Len(calls) : calls[i].type \in Kept => calls[i].n < turns + 1 /\ calls[i].n < turns
    <3> SUFFICES ASSUME NEW i \in 1..Len(calls), calls[i].type \in Kept
                 PROVE  calls[i].n < turns + 1 /\ calls[i].n < turns
      OBVIOUS
    <3>1. calls[i] \in Calls
      BY <1>1, ElementOfSeq
    <3>2. calls[i] \in Messages(calls[i].type)
      BY <3>1, CallKinds DEF Kept, WithIq
    <3>3. calls[i].n \in Nat /\ calls[i].n < turns
      BY <1>1, <3>2, GuiFeedAssumption DEF Messages, Made
    <3> QED
      BY <1>1, <3>3
  <2>2. Made(calls, turns + 1) /\ StillBefore(calls, turns, calls, turns)
    BY <1>1, <2>1 DEF Made, StillBefore
  <2> QED
    BY <1>1, <2>1, <2>2
<1>7. ASSUME NEW s, NEW X, Fresh(s, X), NEW m \in Calls,
             m.type \in Kept => m.n = turns /\ m.type \notin X, NEW k
      PROVE  Fresh(s \o Some(out, k, m), X \cup {m.type})
  <2>1. CASE k \notin out
    <3>1. s \o Some(out, k, m) = s
      BY <1>7, <2>1, ConcatEmptySeq
    <3> HIDE DEF Some
    <3> QED
      BY <1>7, <3>1
  <2>2. CASE k \in out
    <3> DEFINE z == Append(s, m)
    <3>1. s \o Some(out, k, m) = z
      BY <1>7, <2>2, AppendIsConcat
    <3>2. /\ s \in Seq(Calls) /\ Made(s, turns + 1) /\ StillBefore(calls, turns, s, turns)
          /\ \A i \in 1..Len(s) : s[i].type \in Kept \ X => s[i].n < turns
      BY <1>7
    <3>3. z \in Seq(Calls) /\ Len(s) \in Nat /\ Len(z) = Len(s) + 1 /\ z[Len(s) + 1] = m
          /\ \A i \in 1..Len(s) : z[i] = s[i]
      BY <3>2, AppendProperties, LenProperties
    <3>4. turns < turns + 1 /\ \A i \in 1..Len(s) : s[i].type \in Kept => s[i].n < turns + 1
      BY <1>1, <3>2 DEF Made
    <3>5. Made(z, turns + 1)
      <4>1. m.type \in Kept => m.n < turns + 1 /\ \A i \in 1..Len(s) : s[i].type = m.type => s[i].n < m.n
        BY <1>7, <3>2, <3>4
      <4> HIDE DEF z
      <4> QED
        BY <3>2, <3>4, <4>1, OneMore DEF z
    <3>6. StillBefore(s, turns, z, turns)
      BY <1>7, <3>2, BeforeMore
    <3>7. StillBefore(calls, turns, z, turns)
      <4> HIDE DEF z
      <4> QED
        BY <3>2, <3>6 DEF StillBefore
    <3>8. \A i \in 1..Len(z) : z[i].type \in Kept \ (X \cup {m.type}) => z[i].n < turns
      <4> HIDE DEF z
      <4>1. \A i \in 1..Len(s) + 1 : i \in 1..Len(s) \/ i = Len(s) + 1
        BY <3>3
      <4> QED
        BY <3>2, <3>3, <4>1
    <3> HIDE DEF z, Some
    <3> QED
      BY <3>1, <3>3, <3>5, <3>7, <3>8
  <2> QED
    BY <2>1, <2>2
<1>8. \E X : Fresh(calls', X)
  <2> DEFINE s1 == calls \o Some(out, "window", window)
             s2 == s1 \o Some(out, "row", row)
             s3 == s2 \o Some(out, "spot", spot)
             s4 == s3 \o Some(out, "status", Status(band))
  <2> HIDE DEF Fresh, Some
  <2>1. Fresh(s1, {} \cup {"window"})
    BY <1>3, <1>4, <1>6, <1>7 DEF Kept
  <2> HIDE DEF s1
  <2>2. Fresh(s2, {} \cup {"window"} \cup {"row"})
    BY <1>3, <1>4, <1>7, <2>1 DEF Kept
  <2> HIDE DEF s2
  <2>3. Fresh(s3, {} \cup {"window"} \cup {"row"} \cup {"spot"})
    BY <1>3, <1>4, <1>7, <2>2 DEF Kept
  <2> HIDE DEF s3
  <2>4. Fresh(s4, {} \cup {"window"} \cup {"row"} \cup {"spot"} \cup {"status"})
    BY <1>3, <1>4, <1>7, <2>3 DEF Kept
  <2> QED
    BY <1>5, <2>4 DEF s1, s2, s3
<1>9. Made(calls', turns') /\ StillBefore(calls, turns, calls', turns)
  BY <1>2, <1>8
<1>10. StillBefore(calls, turns, calls', turns')
  <2> SUFFICES ASSUME NEW k \in Kept, NEW q, Before(q, k, calls, turns)
               PROVE  Before(q, k, calls', turns + 1)
    BY <1>2 DEF StillBefore
  <2>1. Before(q, k, calls', turns)
    BY <1>9 DEF StillBefore
  <2>2. ASSUME NEW i \in 1..Len(q) PROVE q[i].n < turns + 1
    <3>1. q[i] \in Messages(k) /\ q[i].n < turns
      BY <2>1, ElementOfSeq DEF Before
    <3>2. q[i].n \in Nat
      BY <3>1, GuiFeedAssumption DEF Messages
    <3> QED
      BY <1>1, <3>1, <3>2
  <2> QED
    BY <2>1, <2>2 DEF Before
<1> QED
  BY <1>2, <1>9, <1>10, CopyOrder DEF feed, ends

\* A step of the copy publishes in order.
LEMMA CopyStepOrder ==
  ASSUME IInv, Order, Copy
  PROVE  Order'
<1>1. calls \in Seq(Calls) /\ Made(calls, turns)
  BY DEF IInv, TypeOK, Order
<1>2. ASSUME NEW m \in Calls, m.type \notin Kept, NEW s \in Seq(Calls), Made(s, turns),
             StillBefore(calls, turns, s, turns)
      PROVE  /\ Append(s, m) \in Seq(Calls) /\ Made(Append(s, m), turns)
             /\ StillBefore(calls, turns, Append(s, m), turns)
  <2>1. Made(Append(s, m), turns) /\ StillBefore(s, turns, Append(s, m), turns)
    BY <1>2, PlainMore
  <2>2. Append(s, m) \in Seq(Calls)
    BY <1>2, AppendProperties
  <2> DEFINE z == Append(s, m)
  <2> HIDE DEF z
  <2>3. StillBefore(calls, turns, s, turns) /\ StillBefore(s, turns, z, turns)
    BY <1>2, <2>1 DEF z
  <2>4. StillBefore(calls, turns, z, turns)
    BY <2>3 DEF StillBefore
  <2> QED
    BY <2>1, <2>2, <2>4 DEF z
<1>3. StillBefore(calls, turns, calls, turns)
  BY DEF StillBefore
<1>4. ASSUME UNCHANGED <<turns, feed, ends>>, NEW m \in Calls, m.type \notin Kept,
             calls' \in {calls, Append(calls, m)}
      PROVE  Order'
  BY <1>1, <1>2, <1>3, <1>4, CopyOrder DEF feed, ends
<1>5. ASSUME controls # <<>>, NEW ok \in BOOLEAN
      PROVE  Reply(ok) \in Calls /\ Reply(ok).type \notin Kept /\ calls \o <<Reply(ok)>> = Append(calls, Reply(ok))
  <2>1. Reply(ok) \in Calls
    BY <1>5, ReplyFits DEF Fits
  <2> QED
    BY <1>1, <2>1, AppendIsConcat DEF Reply, Kept
<1>6. CASE Samples \/ Retune \/ Pop
  <2>1. calls' = calls /\ UNCHANGED <<turns, feed, ends>>
    BY <1>6 DEF Samples, Retune, Pop
  <2> QED
    BY <1>1, <1>3, <2>1, CopyOrder DEF feed, ends
<1>7. CASE TakeChange
  <2>1. /\ controls # <<>> /\ UNCHANGED <<turns, feed, ends>>
        /\ calls' \in {calls, calls \o <<Reply(TRUE)>>}
    BY <1>7 DEF TakeChange, Done
  <2> QED
    BY <1>4, <1>5, <2>1
<1>8. CASE Answers
  <2>1. controls # <<>> /\ UNCHANGED <<turns, feed, ends>> /\ calls' = calls \o <<Reply(FALSE)>>
    BY <1>8 DEF Answers, Done, Refusal, IInv, InHand
  <2> QED
    BY <1>4, <1>5, <2>1
<1>9. CASE Stop
  <2> DEFINE m == [type |-> "shutdown"]
  <2>1. UNCHANGED <<turns, feed, ends>> /\ calls' = Append(calls, m)
    BY <1>9 DEF Stop
  <2>2. m \in Calls /\ m.type \notin Kept
    BY DEF Calls, Kept
  <2> HIDE DEF m
  <2> QED
    BY <1>4, <2>1, <2>2
<1>10. CASE Moved
  <2> DEFINE to == controls[1].change
             m == [type |-> "bands", band |-> to]
             r == Reply(TRUE)
  <2>1. controls # <<>> /\ UNCHANGED <<turns, feed, ends>> /\ calls' = calls \o <<m, r>>
    BY <1>10 DEF Moved, Done, Tells, IInv, InHand
  <2>2. to \in Bands
    <3>1. 1 \in 1..Len(controls) /\ controls \in Seq([change : Changes, by : Clients])
      BY <2>1, EmptySeq DEF IInv, TypeOK
    <3>2. controls[1] \in [change : Changes, by : Clients]
      BY <3>1, ElementOfSeq
    <3> QED
      BY <3>2, GuiFeedAssumption
  <2>3. m \in Calls /\ m.type \notin Kept
    <3>1. m \in [type : {"status", "bands"}, band : Bands]
      BY <2>2
    <3> QED
      BY <3>1 DEF Calls, Kept
  <2>4. r \in Calls /\ r.type \notin Kept
    BY <1>5, <2>1
  <2> HIDE DEF to, m, r
  <2>5. calls' = Append(Append(calls, m), r)
    BY <1>1, <2>1, <2>3, <2>4
  <2> DEFINE s == Append(calls, m)
  <2>6. s \in Seq(Calls) /\ Made(s, turns) /\ StillBefore(calls, turns, s, turns)
    BY <1>1, <1>2, <1>3, <2>3
  <2> HIDE DEF s
  <2>7. Made(Append(s, r), turns) /\ StillBefore(calls, turns, Append(s, r), turns)
    BY <1>2, <2>4, <2>6
  <2> QED
    BY <2>1, <2>5, <2>7, CopyOrder DEF s, feed, ends
<1> QED
  BY <1>6, <1>7, <1>8, <1>9, <1>10, TurnOrder DEF Copy, Change

\* A frame that no client keeps.
LEMMA PlainShown ==
  ASSUME NEW v, ShowsKept(v), NEW m \in Texts, m.type \in {"result", "status"}
  PROVE  ShowsKept(Shown(v, m))
<1>1. v \in Views /\ Shown(v, m) \in Views /\ Shown(v, m).kept = v.kept
  BY ShownIs DEF ShowsKept
<1> QED
  BY <1>1 DEF ShowsKept

\* A callback of the copy leaves the feed's part in order.
LEMMA RunOrder ==
  ASSUME IInv, IInv', Order, RunCall
  PROVE  Order'
<1> DEFINE m == Head(calls)
<1>1. /\ calls \in Seq(Calls) /\ calls # <<>> /\ calls' = Tail(calls) /\ turns' = turns
      /\ Made(calls, turns)
  BY DEF IInv, TypeOK, Order, RunCall, copy
<1>2. /\ m \in Calls /\ Made(calls', turns') /\ StillBefore(calls, turns, calls', turns')
      /\ m.type \in Kept =>
           \A q : Before(q, m.type, calls, turns) => Before(Append(q, m), m.type, calls', turns')
  BY <1>1, TakesFirst, HeadTailProperties
<1>3. /\ store \in Stores /\ \A k \in Kept : store[k] \in Seq(Messages(k)) /\ Before(store[k], k, calls, turns)
      /\ text \in [Clients -> Seq(Texts)] /\ view \in [Clients -> Views] /\ hello \in Bands
      /\ conn \in [Clients -> {"none", "open", "dying", "gone"}] /\ Open \subseteq Clients
      /\ \A c \in Open : ShowsKept(WillShow(c))
  BY DEF IInv, TypeOK, Order, Stores, Kept, Views, Open
<1> HIDE DEF m
<1>4. ASSUME NEW v, ShowsKept(v), store' = store
      PROVE  ShowsKept(v)'
  BY <1>2, <1>4 DEF ShowsKept, StillBefore
<1>5. ASSUME NEW k \in Kept, store' = store
      PROVE  Before(store'[k], k, calls', turns')
  BY <1>2, <1>3, <1>5 DEF StillBefore
<1>6. ASSUME NEW S, S \subseteq Open, NEW f \in Texts, Queue(S, f), UNCHANGED view, NEW c \in Open'
      PROVE  /\ c \in Open /\ c \notin Late(S)
             /\ c \in S => WillShow(c)' = Shown(WillShow(c), f)
             /\ c \notin S => WillShow(c)' = WillShow(c)
  <2>1. /\ c \in Clients /\ c \in Open /\ c \notin Late(S) /\ view' = view
        /\ text'[c] = IF c \in S THEN Append(text[c], f) ELSE text[c]
    BY <1>3, <1>6 DEF Queue, CutOff, Open, Late
  <2>2. text[c] \in Seq(Texts)
    BY <1>3, <2>1
  <2>3. After(view[c], Append(text[c], f)) = Shown(After(view[c], text[c]), f)
    BY <1>6, <2>2, AfterMore
  <2> QED
    BY <2>1, <2>3 DEF WillShow
<1>7. ASSUME NEW S, S \subseteq Open, NEW f \in Texts, f.type \in {"result", "status"}, Queue(S, f),
             UNCHANGED <<view, store>>
      PROVE  Order'
  <2>1. ASSUME NEW c \in Open' PROVE ShowsKept(WillShow(c))'
    <3>1. c \in Open /\ ShowsKept(WillShow(c)) /\ WillShow(c)' \in {WillShow(c), Shown(WillShow(c), f)}
      BY <1>3, <1>6, <1>7
    <3>2. ShowsKept(WillShow(c)')
      BY <1>7, <3>1, PlainShown
    <3> DEFINE v == WillShow(c)'
    <3>3. ShowsKept(v)
      BY <3>2
    <3> HIDE DEF v
    <3> QED
      BY <1>2, <1>7, <3>3 DEF ShowsKept, StillBefore, v
  <2> QED
    BY <1>2, <1>5, <1>7, <2>1 DEF Order
<1>8. CASE m.type \in Kept /\ Publish(m)
  <2> DEFINE k == m.type
  <2>1. k \in Kept /\ m \in Messages(k) /\ m \in Texts
    BY <1>2, <1>8, CallKinds DEF Kept, WithIq
  <2>2. PICK gone \in 0..Len(store[k]) :
          store' = [store EXCEPT ![k] = Append(SubSeq(@, gone + 1, Len(@)), m)]
    BY <1>8 DEF Publish
  <2>3. Queue(Open, m) /\ UNCHANGED view
    BY <1>8 DEF Publish
  <2> DEFINE q == store[k]
             r == SubSeq(q, gone + 1, Len(q))
             z == Append(r, m)
  <2>4. /\ store'[k] = z /\ \A j \in Kept \ {k} : store'[j] = store[j]
    BY <1>3, <2>1, <2>2 DEF Stores, Kept
  <2>5. q \in Seq(Messages(k)) /\ Before(q, k, calls, turns) /\ Ends(q, q)
    BY <1>3, <2>1, EndsSame
  <2>6. /\ r \in Seq(Messages(k)) /\ Len(r) = Len(q) - gone /\ Len(q) \in Nat /\ gone \in 0..Len(q)
        /\ \A i \in 1..Len(q) - gone : r[i] = q[gone + i]
    BY <2>1, <2>2, <2>5, EndsMore, LenProperties
  <2> HIDE DEF q, r, z, k
  <2>7. Before(r, k, calls, turns)
    <3>1. \A i \in 1..Len(r) : gone + i \in 1..Len(q) /\ r[i] = q[gone + i]
      BY <2>6
    <3>2. \A i, j \in 1..Len(r) : i < j => gone + i < gone + j
      BY <2>6
    <3> QED
      BY <2>5, <2>6, <3>1, <3>2 DEF Before
  <2>8. Before(z, k, calls', turns')
    BY <1>2, <2>1, <2>7 DEF z, k
  <2>9. ASSUME NEW j \in Kept PROVE Before(store'[j], j, calls', turns')
    BY <1>2, <1>3, <2>4, <2>8 DEF StillBefore
  <2>10. ASSUME NEW c \in Open' PROVE ShowsKept(WillShow(c))'
    <3> DEFINE v == WillShow(c)
               w == WillShow(c)'
    <3>1. c \in Open /\ ShowsKept(v) /\ w = Shown(v, m)
      BY <1>3, <1>6, <2>1, <2>3
    <3> HIDE DEF v, w
    <3>2. v \in Views /\ \A j \in Kept : Ends(store[j], v.kept[j]) /\ Before(v.kept[j], j, calls, turns)
      BY <3>1 DEF ShowsKept
    <3>3. /\ w \in Views /\ w.kept[k] = Append(v.kept[k], m)
          /\ \A j \in Kept \ {k} : w.kept[j] = v.kept[j]
      BY <2>1, <3>1, <3>2, ShownIs DEF k
    <3>4. Ends(z, Append(v.kept[k], m))
      <4>1. v.kept[k] \in Seq(Messages(k)) /\ Ends(q, v.kept[k])
        BY <2>1, <3>2 DEF Before, q
      <4> DEFINE t == v.kept[k]
      <4> HIDE DEF t
      <4>2. t \in Seq(Messages(k)) /\ Ends(q, t)
        BY <4>1 DEF t
      <4> QED
        BY <2>1, <2>5, <2>6, <4>2, EndsMore DEF r, z, t
    <3>5. Before(Append(v.kept[k], m), k, calls', turns')
      BY <1>2, <2>1, <3>2 DEF k
    <3>6. \A j \in Kept \ {k} : Before(v.kept[j], j, calls', turns')
      BY <1>2, <3>2 DEF StillBefore
    <3>7. \A j \in Kept : Ends(store'[j], w.kept[j]) /\ Before(w.kept[j], j, calls', turns')
      BY <2>4, <3>2, <3>3, <3>4, <3>5, <3>6
    <3> QED
      BY <3>3, <3>7 DEF ShowsKept, w
  <2> QED
    BY <1>2, <2>9, <2>10 DEF Order
<1>9. CASE m.type = "status" /\ OnStatus(m)
  <2>1. m \in Texts /\ Queue(Open, m) /\ UNCHANGED <<view, store>>
    BY <1>2, <1>9, CallKinds DEF OnStatus
  <2> QED
    BY <1>7, <1>9, <2>1
<1>10. ASSUME UNCHANGED <<view, store, text, conn>>
       PROVE  Order'
  <2>1. Open' = Open /\ \A c \in Open : WillShow(c)' = WillShow(c)
    BY <1>10 DEF Open, WillShow
  <2>2. ASSUME NEW c \in Open' PROVE ShowsKept(WillShow(c))'
    <3> DEFINE v == WillShow(c)'
    <3>1. ShowsKept(v)
      BY <1>3, <2>1
    <3> HIDE DEF v
    <3> QED
      BY <1>2, <1>10, <3>1 DEF ShowsKept, StillBefore, v
  <2> QED
    BY <1>2, <1>5, <1>10, <2>2 DEF Order
<1>11. CASE m.type = "row" /\ OnSpectrum(m)
  BY <1>10, <1>11 DEF OnSpectrum
<1>12. CASE m.type = "queue" /\ OnReply(m.to, m.msg)
  <2>1. m.to \in Clients /\ m.msg \in Results
    BY <1>2, <1>12, CallKinds
  <2>2. m.msg \in Texts /\ m.msg.type = "result"
    BY <2>1 DEF Texts, Results
  <2>3. CASE conn[m.to] = "open"
    <3>1. {m.to} \subseteq Open /\ Queue({m.to}, m.msg) /\ UNCHANGED <<view, store>>
      BY <1>12, <2>1, <2>3 DEF Open, OnReply
    <3> QED
      BY <1>7, <2>2, <3>1
  <2>4. CASE conn[m.to] # "open"
    BY <1>10, <1>12, <2>4 DEF OnReply
  <2> QED
    BY <2>3, <2>4
<1>13. CASE m.type = "bands" /\ OnBands(m.band)
  <2>1. /\ m.band \in Bands /\ store' = Empty /\ UNCHANGED <<conn, view>>
        /\ text' = [c \in Clients |-> IF c \in Open THEN Greeting(m.band, Empty, None) ELSE text[c]]
    BY <1>2, <1>13, CallKinds DEF OnBands, NewHello
  <2>2. Empty \in Stores /\ \A k \in Kept : Empty[k] = <<>>
    BY DEF Empty, Stores, Kept
  <2>3. \A k \in Kept : Before(<<>>, k, calls', turns') /\ Ends(<<>>, <<>>)
    BY EmptySeq DEF Before, Ends
  <2>4. ASSUME NEW c \in Open' PROVE ShowsKept(WillShow(c))'
    <3>1. c \in Open /\ c \in Clients /\ text'[c] = Greeting(m.band, Empty, None) /\ view' = view
      BY <1>3, <2>1 DEF Open
    <3> DEFINE w == WillShow(c)'
    <3>2. w = After(view[c], Greeting(m.band, Empty, None)) /\ view[c] \in Views
      BY <1>3, <3>1 DEF WillShow
    <3> HIDE DEF w
    <3>3. w \in Views /\ w.kept = Empty
      BY <2>1, <2>2, <3>2, AfterGreeting
    <3> QED
      BY <2>1, <2>2, <2>3, <3>3 DEF ShowsKept, w
  <2> QED
    BY <1>2, <2>1, <2>2, <2>3, <2>4 DEF Order
<1>14. CASE m.type = "shutdown" /\ Shutdown
  <2>1. Open' = {} /\ store' = store
    BY <1>14 DEF Shutdown, Open, Served
  <2> QED
    BY <1>2, <1>5, <2>1 DEF Order
<1> QED
  BY <1>8, <1>9, <1>11, <1>12, <1>13, <1>14 DEF RunCall, m

\* A client that comes, is sent to, asks, is cut off or goes.
LEMMA ClientOrder ==
  ASSUME IInv, IInv', Order, NEW c \in Clients, Client(c)
  PROVE  Order'
<1>1. /\ calls \in Seq(Calls) /\ Made(calls, turns) /\ hello \in Bands /\ store \in Stores
      /\ status \in Bands \cup {None}
      /\ text \in [Clients -> Seq(Texts)] /\ view \in [Clients -> Views]
      /\ spectrum \in [Clients -> Seq(Messages("row"))]
      /\ conn \in [Clients -> {"none", "open", "dying", "gone"}]
      /\ \A k \in Kept : store[k] \in Seq(Messages(k)) /\ Before(store[k], k, calls, turns)
      /\ \A d \in Open : ShowsKept(WillShow(d))
  BY DEF IInv, TypeOK, Order, Stores, Kept, Views
<1>2. ASSUME UNCHANGED <<store, calls, turns>>,
             \A d \in Clients : conn'[d] = "open" => ShowsKept(WillShow(d)')
      PROVE  Order'
  <2>1. Made(calls, turns)' /\ \A k \in Kept : Before(store[k], k, calls, turns)'
    BY <1>1, <1>2
  <2>2. ASSUME NEW d \in Open' PROVE ShowsKept(WillShow(d))'
    <3> DEFINE v == WillShow(d)'
    <3>1. ShowsKept(v)
      BY <1>2 DEF Open
    <3> HIDE DEF v
    <3> QED
      BY <1>2, <3>1 DEF ShowsKept, v
  <2> QED
    BY <2>1, <2>2 DEF Order
<1>3. ASSUME NEW d \in Clients, conn[d] = "open"
      PROVE  ShowsKept(WillShow(d))
  BY <1>1, <1>3 DEF Open
<1>4. CASE Join(c)
  <2>1. /\ UNCHANGED <<store, calls, turns, view>>
        /\ \/ conn' = [conn EXCEPT ![c] = "gone"] /\ text' = text
           \/ conn' = [conn EXCEPT ![c] = "open"]
              /\ text' = [text EXCEPT ![c] = Greeting(hello, store, status)]
    BY <1>4 DEF Join, feed, copy
  <2>2. ASSUME NEW d \in Clients, conn'[d] = "open" PROVE ShowsKept(WillShow(d)')
    <3>1. CASE text'[d] = text[d] /\ conn[d] = "open"
      <4>1. WillShow(d)' = WillShow(d)
        BY <2>1, <3>1 DEF WillShow
      <4> QED
        BY <1>3, <3>1, <4>1
    <3>2. CASE d = c /\ text'[d] = Greeting(hello, store, status)
      <4> DEFINE w == WillShow(d)'
      <4>1. w = After(view[d], Greeting(hello, store, status)) /\ view[d] \in Views
        BY <1>1, <2>1, <3>2 DEF WillShow
      <4> HIDE DEF w
      <4>2. w \in Views /\ w.kept = store
        BY <1>1, <4>1, AfterGreeting
      <4>3. \A k \in Kept : Ends(store[k], store[k])
        BY <1>1, EndsSame
      <4>4. ShowsKept(w)
        BY <1>1, <4>2, <4>3 DEF ShowsKept
      <4> QED
        BY <4>4 DEF w
    <3> QED
      BY <1>1, <2>1, <2>2, <3>1, <3>2
  <2> QED
    BY <1>2, <2>1, <2>2
<1>5. CASE Sends(c)
  <2>1. /\ conn[c] = "open" /\ UNCHANGED <<store, calls, turns, conn>>
        /\ \/ /\ text[c] # <<>> /\ view' = [view EXCEPT ![c] = Shown(view[c], Head(text[c]))]
              /\ text' = [text EXCEPT ![c] = Tail(text[c])]
           \/ /\ text[c] = <<>> /\ spectrum[c] # <<>> /\ text' = text
              /\ view' = [view EXCEPT ![c] = Shown(view[c], Head(spectrum[c]))]
    BY <1>5 DEF Sends, feed, copy
  <2>2. ASSUME NEW d \in Clients, conn'[d] = "open" PROVE ShowsKept(WillShow(d)')
    <3>1. CASE d # c
      <4>1. WillShow(d)' = WillShow(d) /\ conn[d] = "open"
        BY <1>1, <2>1, <2>2, <3>1 DEF WillShow
      <4> QED
        BY <1>3, <4>1
    <3>2. CASE d = c /\ text[c] # <<>>
      <4>1. text[c] \in Seq(Texts) /\ text'[c] = Tail(text[c]) /\ view'[c] = Shown(view[c], Head(text[c]))
        BY <1>1, <2>1, <3>2
      <4>2. After(view'[c], text'[c]) = After(view[c], text[c])
        BY <3>2, <4>1, AfterHead
      <4> QED
        BY <1>3, <2>1, <3>2, <4>2 DEF WillShow
    <3>3. CASE d = c /\ text[c] = <<>>
      <4>1. /\ spectrum[c] # <<>> /\ text'[c] = <<>> /\ view[c] \in Views
            /\ view'[c] = Shown(view[c], Head(spectrum[c]))
        BY <1>1, <2>1, <3>3
      <4>2. Head(spectrum[c]) \in Messages("row")
        BY <1>1, <4>1, HeadTailProperties
      <4>3. WillShow(c) = view[c] /\ WillShow(c)' = Shown(view[c], Head(spectrum[c]))
        BY <3>3, <4>1, AfterNone DEF WillShow
      <4> DEFINE w == Shown(view[c], Head(spectrum[c]))
      <4>4. w \in Views /\ w.kept = view[c].kept
        BY <4>1, <4>2, RowShown
      <4>5. ShowsKept(view[c])
        BY <1>3, <2>1, <4>3
      <4> HIDE DEF w
      <4>6. ShowsKept(w)
        BY <4>4, <4>5 DEF ShowsKept
      <4> QED
        BY <3>3, <4>3, <4>6 DEF w
    <3> QED
      BY <3>1, <3>2, <3>3
  <2> QED
    BY <1>2, <2>1, <2>2
<1>6. ASSUME UNCHANGED <<store, calls, turns>>, conn'[c] # "open",
             \A d \in Clients \ {c} : conn'[d] = conn[d] /\ text'[d] = text[d] /\ view'[d] = view[d]
      PROVE  Order'
  <2>1. ASSUME NEW d \in Clients, conn'[d] = "open" PROVE ShowsKept(WillShow(d)')
    <3>1. conn[d] = "open" /\ WillShow(d)' = WillShow(d)
      BY <1>6, <2>1 DEF WillShow
    <3> QED
      BY <1>3, <3>1
  <2> QED
    BY <1>2, <1>6, <2>1
<1>7. CASE Idle(c)
  <2>1. /\ UNCHANGED <<store, calls, turns>> /\ conn'[c] # "open"
        /\ \A d \in Clients \ {c} : conn'[d] = conn[d] /\ text'[d] = text[d] /\ view'[d] = view[d]
    BY <1>1, <1>7 DEF Idle, CutOff, Without, feed, copy
  <2> QED
    BY <1>6, <2>1
<1>8. CASE Leaves(c)
  <2>1. /\ UNCHANGED <<store, calls, turns>> /\ conn'[c] # "open"
        /\ \A d \in Clients \ {c} : conn'[d] = conn[d] /\ text'[d] = text[d] /\ view'[d] = view[d]
    BY <1>1, <1>8 DEF Leaves, Without, feed, copy
  <2> QED
    BY <1>6, <2>1
<1>9. ASSUME NEW change \in Changes, Asks(c, change)
      PROVE  Order'
  <2> DEFINE m == [type |-> "queue", to |-> c, msg |-> Result(FALSE)]
  <2>2. /\ UNCHANGED <<turns, store, conn, text, view>> /\ calls' \in {calls, Append(calls, m)}
    BY <1>9 DEF Asks, feed
  <2>3. m \in Calls /\ m.type \notin Kept
    <3>1. m \in [type : {"queue"}, to : Clients, msg : Results]
      BY DEF Result, Results
    <3> QED
      BY <3>1 DEF Calls, Kept
  <2> HIDE DEF m
  <2>4. Made(calls', turns') /\ StillBefore(calls, turns, calls', turns')
    <3>1. Made(Append(calls, m), turns) /\ StillBefore(calls, turns, Append(calls, m), turns)
      BY <1>1, <2>3, PlainMore
    <3>2. StillBefore(calls, turns, calls, turns)
      BY DEF StillBefore
    <3> QED
      BY <1>1, <2>2, <3>1, <3>2
  <2> QED
    BY <2>2, <2>4, CopyOrder
<1> QED
  BY <1>4, <1>5, <1>7, <1>8, <1>9 DEF Client

-----------------------------------------------------------------------------
(* The theorems.                                                           *)

\* The invariant holds of every step.
THEOREM Step == IInv /\ [Next]_vars => IInv'
<1> SUFFICES ASSUME IInv, [Next]_vars PROVE IInv'
  OBVIOUS
<1>1. CASE UNCHANGED vars
  <2>1. UNCHANGED <<copy, calls, feed, ends>>
    BY <1>1 DEF vars
  <2>2. CopyTypes' /\ InHand' /\ calls' \in Seq(Calls) /\ Carried(hello, calls', band')
    BY <2>1 DEF IInv, TypeOK, CopyTypes, InHand, copy
  <2> QED
    BY <2>1, <2>2, CopyKeeps
<1> QED
  BY <1>1, CopyStep, RunStep, ClientStep DEF Next

\* Every state reached has the invariant.
THEOREM Invariance == Spec => []IInv
  BY Initially, Step, PTL DEF Spec

\* The types, with the limits of the queues, of the snapshot and of the table.
THEOREM TypeCorrect == Spec => []TypeOK
<1>1. IInv => TypeOK
  BY DEF IInv
<1> QED
  BY <1>1, Invariance, PTL

\* What is published under a band's frequencies was decoded from that band's IQ
\* only (_live_change).
THEOREM PublishedTrue == Spec => []TrueToBand
<1>1. IInv => TrueToBand
  <2> SUFFICES ASSUME IInv, NEW i \in DOMAIN calls, calls[i].type \in WithIq
               PROVE  calls[i].iq \subseteq {calls[i].band}
    BY DEF TrueToBand, WithIq
  <2>1. i \in 1..Len(calls)
    BY DEF IInv, TypeOK
  <2>2. PICK w : Leads(w, hello, calls, band)
    BY DEF IInv, Carried
  <2> QED
    BY <2>1, <2>2 DEF Leads, Fits, WithIq
<1> QED
  BY <1>1, Invariance, PTL

\* Nothing of an old band reaches a client after a new hello (set_bands).
THEOREM NothingOld == Spec => []NothingOldAfterHello
<1>1. IInv => NothingOldAfterHello
  <2> SUFFICES ASSUME IInv, NEW c \in Clients
               PROVE  /\ view[c].of \subseteq {view[c].band}
                      /\ \A k \in Kept : \A i \in DOMAIN view[c].kept[k] : view[c].kept[k][i].band = view[c].band
    BY DEF NothingOldAfterHello
  <2>1. OneBand(view[c])
    BY DEF IInv, ClientNow
  <2>2. \A k \in Kept : DOMAIN view[c].kept[k] = 1..Len(view[c].kept[k])
    BY DEF IInv, TypeOK, Stores, Kept
  <2> QED
    BY <2>1, <2>2 DEF OneBand
<1> QED
  BY <1>1, Invariance, PTL

\* In every state reached each client has, or will have been sent, what the feed keeps, in order.
THEOREM Ordered == Spec => [](IInv /\ Order)
<1>1. Init => Order
  <2> SUFFICES ASSUME Init PROVE Order
    OBVIOUS
  <2>1. calls = <<>> /\ Open = {} /\ \A k \in Kept : store[k] = <<>>
    BY DEF Init, Open, Empty, Kept
  <2>2. Made(<<>>, turns) /\ \A k \in Kept : Before(<<>>, k, <<>>, turns)
    BY EmptySeq DEF Made, Before
  <2> QED
    BY <2>1, <2>2 DEF Order
<1>2. IInv /\ IInv' /\ Order /\ [Next]_vars => Order'
  <2> SUFFICES ASSUME IInv, IInv', Order, [Next]_vars PROVE Order'
    OBVIOUS
  <2>1. CASE UNCHANGED vars
    <3>1. UNCHANGED <<feed, ends>> /\ Made(calls', turns') /\ StillBefore(calls, turns, calls', turns')
      BY <2>1 DEF vars, copy, Order, StillBefore
    <3> QED
      BY <3>1, CopyOrder DEF feed, ends
  <2> QED
    BY <2>1, CopyStepOrder, RunOrder, ClientOrder DEF Next
<1> QED
  BY <1>1, <1>2, Initially, Step, PTL DEF Spec

\* A client that stays misses nothing the feed keeps (_handle, _queue, _on_bands).
THEOREM NoGaps == Spec => []NoneMissed
<1>1. IInv /\ Order => NoneMissed
  <2> SUFFICES ASSUME IInv, Order, NEW c \in Open, NEW k \in Kept
               PROVE  /\ IsSuffix(store[k], WillShow(c).kept[k])
                      /\ \A i, j \in DOMAIN WillShow(c).kept[k] :
                           i < j => WillShow(c).kept[k][i].n < WillShow(c).kept[k][j].n
    BY DEF NoneMissed
  <2> DEFINE q == WillShow(c).kept[k]
  <2>1. Ends(store[k], q) /\ Before(q, k, calls, turns) /\ Before(store[k], k, calls, turns)
    BY DEF Order, ShowsKept
  <2> HIDE DEF q
  <2>2. q \in Seq(Messages(k)) /\ store[k] \in Seq(Messages(k)) /\ DOMAIN q = 1..Len(q)
    BY <2>1 DEF Before
  <2>3. IsSuffix(store[k], q)
    BY <2>1, <2>2, SuffixIs
  <2>4. \A i, j \in DOMAIN q : i < j => q[i].n < q[j].n
    BY <2>1, <2>2 DEF Before
  <2> QED
    BY <2>3, <2>4 DEF q
<1> QED
  BY <1>1, Ordered, PTL
=============================================================================
