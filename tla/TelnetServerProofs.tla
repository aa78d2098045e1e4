------------------------- MODULE TelnetServerProofs -------------------------
(***************************************************************************)
(* Proofs about TelnetServer for every set of clients and every bound: the *)
(* types with the limit of a buffer, the lines a client reads, and the     *)
(* entries of the table.                                                   *)
(***************************************************************************)
EXTENDS TelnetServer, SequenceTheorems, TLAPS

-----------------------------------------------------------------------------
(* The inductive invariant.                                                *)

\* Of the spots S of length s, those after the first a are G, of length g, and then B,
\* of length b.
InLine(a, G, g, B, b, S, s) ==
  /\ a + g + b <= s
  /\ \A i \in 1..g : G[i] = S[a + i]
  /\ \A i \in 1..b : B[i] = S[a + g + i]

\* What a client has read and what is unsent are, one after the other, what the
\* loop wrote since the client came.
InStep(c) ==
  /\ InLine(since[c], got[c], Len(got[c]), buffer[c], Len(buffer[c]), sent, Len(sent))
  /\ c \in table /\ conn[c] # "closed" =>
       since[c] + Len(got[c]) + Len(buffer[c]) = Len(sent)

\* Before its login a client has no line.
NotYet(c) ==
  /\ handler[c] \in {"none", "login"} => got[c] = <<>> /\ buffer[c] = <<>>
  /\ conn[c] = "none" => handler[c] = "none"

IInv == TypeOK /\ EntryServed /\ \A c \in Clients : InStep(c) /\ NotYet(c)

-----------------------------------------------------------------------------

\* The first state has the invariant (the server is made: __init__).
THEOREM Initially == Init => IInv
<1> SUFFICES ASSUME Init PROVE IInv
  OBVIOUS
<1>1. TypeOK
  BY EmptySeq, TelnetAssumption DEF Init, TypeOK
<1>2. EntryServed
  BY DEF Init, EntryServed
<1>3. ASSUME NEW c \in Clients PROVE InStep(c) /\ NotYet(c)
  <2>1. /\ since[c] = 0 /\ got[c] = <<>> /\ buffer[c] = <<>> /\ sent = <<>> /\ table = {}
        /\ handler[c] = "none" /\ Len(<<>>) = 0
    BY EmptySeq DEF Init
  <2>2. /\ since[c] = 0 /\ Len(got[c]) = 0 /\ Len(buffer[c]) = 0 /\ Len(sent) = 0
    BY <2>1
  <2>3. InStep(c)
    BY <2>1, <2>2 DEF InStep, InLine
  <2> QED
    BY <2>1, <2>3 DEF NotYet
<1> QED
  BY <1>1, <1>2, <1>3 DEF IInv

\* A spot is written, and not to this client.
LEMMA Grows ==
  ASSUME NEW a \in Nat, NEW g \in Nat, NEW b \in Nat, NEW s \in Nat,
         NEW G, NEW B, NEW S, NEW T, InLine(a, G, g, B, b, S, s),
         \A i \in 1..s : T[i] = S[i]
  PROVE  InLine(a, G, g, B, b, T, s + 1)
<1>1. ASSUME NEW i \in 1..g PROVE G[i] = T[a + i]
  <2>1. a + i \in 1..s
    BY DEF InLine
  <2> QED
    BY <2>1 DEF InLine
<1>2. ASSUME NEW i \in 1..b PROVE B[i] = T[a + g + i]
  <2>1. a + g + i \in 1..s
    BY DEF InLine
  <2> QED
    BY <2>1 DEF InLine
<1> QED
  BY <1>1, <1>2 DEF InLine

\* This client reads a line.
LEMMA Moves ==
  ASSUME NEW a \in Nat, NEW g \in Nat, NEW b \in Nat, NEW s \in Nat,
         NEW G, NEW B, NEW S, NEW H, NEW C, InLine(a, G, g, B, b, S, s), b >= 1,
         \A i \in 1..g : H[i] = G[i], H[g + 1] = B[1],
         \A i \in 1..b - 1 : C[i] = B[i + 1]
  PROVE  InLine(a, H, g + 1, C, b - 1, S, s)
<1>1. ASSUME NEW i \in 1..g + 1 PROVE H[i] = S[a + i]
  <2>1. CASE i = g + 1
    <3>1. 1 \in 1..b /\ a + g + 1 = a + i
      BY <2>1
    <3> QED
      BY <2>1, <3>1 DEF InLine
  <2>2. CASE i \in 1..g
    BY <2>2 DEF InLine
  <2> QED
    BY <2>1, <2>2
<1>2. ASSUME NEW i \in 1..b - 1 PROVE C[i] = S[a + (g + 1) + i]
  <2>1. i + 1 \in 1..b /\ a + g + (i + 1) = a + (g + 1) + i
    OBVIOUS
  <2>2. B[i + 1] = S[a + g + (i + 1)]
    BY <2>1 DEF InLine
  <2> QED
    BY <2>1, <2>2
<1> QED
  BY <1>1, <1>2 DEF InLine

\* The lines and the handlers stay, the table loses entries, connections only end.
LEMMA Ends ==
  ASSUME IInv, UNCHANGED <<lines, sent, since, early, calls, spots>>, table' \subseteq table,
         server' \in {"up", "closing", "down"},
         conn' \in [Clients -> {"none", "open", "closing", "closed"}],
         \A c \in Clients : /\ conn[c] = "closed" => conn'[c] = "closed"
                            /\ conn[c] # "none" => conn'[c] # "none",
         handler' \in [Clients -> {"none", "login", "commands", "over"}],
         \A c \in Clients : \/ handler'[c] = handler[c]
                            \/ handler'[c] = "over" /\ c \notin table' /\ conn[c] # "none"
  PROVE  IInv'
<1>1. TypeOK'
  BY DEF IInv, TypeOK, lines
<1>2. EntryServed'
  BY DEF IInv, EntryServed, TypeOK
<1>3. ASSUME NEW c \in Clients PROVE InStep(c)' /\ NotYet(c)'
  <2>1. InStep(c)'
    BY DEF IInv, InStep, lines
  <2>2. NotYet(c)'
    BY DEF IInv, NotYet, lines
  <2> QED
    BY <2>1, <2>2
<1> QED
  BY <1>1, <1>2, <1>3 DEF IInv

\* Closing connections neither makes nor loses one.
LEMMA ClosedKeeps ==
  ASSUME TypeOK, NEW S
  PROVE  /\ Closed(S) \in [Clients -> {"none", "open", "closing", "closed"}]
         /\ \A c \in Clients : /\ conn[c] = "closed" <=> Closed(S)[c] = "closed"
                               /\ conn[c] = "none" <=> Closed(S)[c] = "none"
BY DEF TypeOK, Closed

\* A handler ends.
LEMMA FinallyStep ==
  ASSUME IInv, NEW c \in Clients, handler[c] # "none", Finally(c)
  PROVE  IInv'
<1>1. /\ conn' \in [Clients -> {"none", "open", "closing", "closed"}]
      /\ \A d \in Clients : /\ conn[d] = "closed" => conn'[d] = "closed"
                            /\ conn[d] # "none" => conn'[d] # "none"
  BY ClosedKeeps DEF IInv, Finally
<1>2. /\ table' \subseteq table
      /\ handler' \in [Clients -> {"none", "login", "commands", "over"}]
      /\ \A d \in Clients : \/ handler'[d] = handler[d]
                            \/ handler'[d] = "over" /\ d \notin table' /\ conn[d] # "none"
  BY DEF IInv, TypeOK, NotYet, Finally, OutOfTable
<1>3. UNCHANGED <<lines, sent, since, early, calls, spots>> /\ server' \in {"up", "closing", "down"}
  BY DEF IInv, TypeOK, Finally
<1> QED
  BY <1>1, <1>2, <1>3, Ends

\* A spot is written to the table.
LEMMA SendStep ==
  ASSUME IInv, NEW n \in 1..MaxSpots, Send(n), UNCHANGED <<server, handler, since, early, got>>,
         calls' \in Seq(1..MaxSpots), spots' \in 0..MaxSpots
  PROVE  IInv'
<1> DEFINE L == 1..MaxSpots
<1>0. /\ TypeOK /\ EntryServed /\ sent \in Seq(L) /\ n \in L /\ MAX_CLIENT_BUFFER \in Nat
      /\ \A c \in Clients : buffer[c] \in Seq(L) /\ got[c] \in Seq(L) /\ since[c] \in Nat
  BY TelnetAssumption DEF IInv, TypeOK
<1>1. /\ sent' = Append(sent, n) /\ sent' \in Seq(L) /\ Len(sent') = Len(sent) + 1
      /\ Len(sent) \in Nat
      /\ \A i \in 1..Len(sent) : sent'[i] = sent[i]
      /\ sent'[Len(sent) + 1] = n
  <2>1. sent' = Append(sent, n)
    BY DEF Send
  <2> QED
    BY <2>1, <1>0, AppendProperties, LenProperties
<1>2. /\ table' = table \ Stalled
      /\ conn' \in [Clients -> {"none", "open", "closing", "closed"}]
      /\ \A c \in Clients : conn'[c] = "closed" <=> conn[c] = "closed"
      /\ \A c \in Clients : conn'[c] = "none" <=> conn[c] = "none"
  BY <1>0, ClosedKeeps DEF Send
<1>3. ASSUME NEW c \in Clients
      PROVE  \/ c \in table /\ c \notin Stalled /\ conn[c] # "closed" /\ buffer'[c] = Append(buffer[c], n)
             \/ ~(c \in table' /\ conn[c] # "closed") /\ buffer'[c] = buffer[c]
  BY <1>2 DEF Send, Written
<1>4. ASSUME NEW c \in Clients
      PROVE  /\ buffer'[c] \in Seq(L) /\ Len(buffer'[c]) <= MAX_CLIENT_BUFFER + 1
             /\ InStep(c)' /\ NotYet(c)'
  <2>1. /\ buffer[c] \in Seq(L) /\ got[c] \in Seq(L) /\ Len(buffer[c]) \in Nat /\ Len(got[c]) \in Nat
        /\ since[c] \in Nat /\ InStep(c) /\ NotYet(c) /\ Len(buffer[c]) <= MAX_CLIENT_BUFFER + 1
    BY <1>0, LenProperties DEF IInv, TypeOK
  <2>2. CASE c \in table /\ c \notin Stalled /\ conn[c] # "closed" /\ buffer'[c] = Append(buffer[c], n)
    <3>1. /\ buffer'[c] \in Seq(L) /\ Len(buffer'[c]) = Len(buffer[c]) + 1
          /\ \A i \in 1..Len(buffer[c]) : buffer'[c][i] = buffer[c][i]
          /\ buffer'[c][Len(buffer[c]) + 1] = n
      BY <1>0, <2>1, <2>2, AppendProperties
    <3>2. Len(buffer[c]) <= MAX_CLIENT_BUFFER
      BY <2>1, <2>2, <1>0 DEF Stalled
    <3>3. since[c] + Len(got[c]) + Len(buffer[c]) = Len(sent)
      BY <2>1, <2>2 DEF InStep
    <3>4. InLine(since[c], got[c], Len(got[c]), buffer'[c], Len(buffer[c]) + 1, sent', Len(sent) + 1)
      <4> DEFINE a == since[c]  g == Len(got[c])  b == Len(buffer[c])  s == Len(sent)
      <4>1. InLine(a, got[c], g, buffer[c], b, sent, s) /\ a + g + b = s
        BY <2>1, <3>3 DEF InStep
      <4>2. /\ a \in Nat /\ g \in Nat /\ b \in Nat /\ s \in Nat
            /\ buffer'[c][b + 1] = sent'[s + 1]
            /\ \A i \in 1..s : sent'[i] = sent[i]
            /\ \A i \in 1..b : buffer'[c][i] = buffer[c][i]
        BY <2>1, <3>1, <1>1
      <4>3. InLine(a, got[c], g, buffer'[c], b + 1, sent', s + 1)
        <5> DEFINE G == got[c]  B == buffer[c]  C == buffer'[c]  S == sent  T == sent'
        <5>1. /\ InLine(a, G, g, B, b, S, s) /\ C[b + 1] = T[s + 1]
              /\ \A i \in 1..s : T[i] = S[i]
              /\ \A i \in 1..b : C[i] = B[i]
          BY <4>1, <4>2
        <5> HIDE DEF a, g, b, s, G, B, C, S, T
        <5>2. InLine(a, G, g, B, b, T, s + 1)
          BY <4>2, <5>1, Grows
        <5>3. ASSUME NEW i \in 1..b + 1 PROVE C[i] = T[a + g + i]
          <6>1. CASE i = b + 1
            BY <6>1, <4>1, <4>2, <5>1
          <6>2. CASE i \in 1..b
            BY <6>2, <5>1, <5>2 DEF InLine
          <6> QED
            BY <6>1, <6>2, <4>2
        <5>4. InLine(a, G, g, C, b + 1, T, s + 1)
          BY <4>1, <4>2, <5>2, <5>3 DEF InLine
        <5> QED
          BY <5>4 DEF G, C, T
      <4> QED
        BY <4>3
    <3>5. /\ since'[c] = since[c] /\ got'[c] = got[c]
          /\ since[c] + Len(got[c]) + (Len(buffer[c]) + 1) = Len(sent) + 1
      <4> DEFINE a == since[c]  g == Len(got[c])  b == Len(buffer[c])  s == Len(sent)
      <4>1. a \in Nat /\ g \in Nat /\ b \in Nat /\ s \in Nat /\ a + g + b = s
        BY <2>1, <1>1, <3>3
      <4>2. a + g + (b + 1) = s + 1
        <5> HIDE DEF a, g, b, s
        <5> QED
          BY <4>1
      <4> QED
        BY <4>2
    <3>6. InStep(c)'
      BY <3>1, <3>4, <3>5, <1>1 DEF InStep
    <3>7. NotYet(c)'
      BY <2>2, <1>0, <1>2 DEF EntryServed, NotYet
    <3> QED
      BY <3>1, <3>2, <3>6, <3>7, <2>1, <1>0
  <2>3. CASE ~(c \in table' /\ conn[c] # "closed") /\ buffer'[c] = buffer[c]
    <3>1. InLine(since[c], got[c], Len(got[c]), buffer[c], Len(buffer[c]), sent', Len(sent) + 1)
      <4>1. InLine(since[c], got[c], Len(got[c]), buffer[c], Len(buffer[c]), sent, Len(sent))
        BY <2>1 DEF InStep
      <4>2. /\ since[c] \in Nat /\ Len(got[c]) \in Nat /\ Len(buffer[c]) \in Nat /\ Len(sent) \in Nat
            /\ \A i \in 1..Len(sent) : sent'[i] = sent[i]
        BY <2>1, <1>1
      <4> QED
        BY <4>1, <4>2, Grows
    <3>4. InStep(c)'
      BY <3>1, <2>3, <1>1, <1>2 DEF InStep
    <3> QED
      BY <3>4, <2>1, <2>3, <1>2 DEF NotYet
  <2> QED
    BY <1>3, <2>2, <2>3
<1>5. TypeOK'
  <2>1. buffer' \in [Clients -> Seq(L)]
    BY <1>4 DEF Send, Written
  <2> QED
    BY <2>1, <1>0, <1>1, <1>2, <1>4 DEF TypeOK
<1>6. EntryServed'
  BY <1>2, <1>0 DEF EntryServed, TypeOK
<1> QED
  BY <1>4, <1>5, <1>6 DEF IInv

\* A client reads a line.
LEMMA ReadStep ==
  ASSUME IInv, NEW c \in Clients, Reads(c)
  PROVE  IInv'
<1> DEFINE L == 1..MaxSpots
           h == Head(buffer[c])
           t == Tail(buffer[c])
<1>0. /\ TypeOK /\ EntryServed /\ InStep(c) /\ buffer[c] \in Seq(L) /\ buffer[c] # <<>>
      /\ got[c] \in Seq(L) /\ since[c] \in Nat /\ Len(buffer[c]) \in Nat /\ Len(got[c]) \in Nat
      /\ Len(sent) \in Nat
  BY LenProperties DEF IInv, TypeOK, Reads
<1>1. /\ h \in L /\ t \in Seq(L) /\ Len(t) = Len(buffer[c]) - 1 /\ h = buffer[c][1]
      /\ \A i \in 1..Len(t) : t[i] = buffer[c][i + 1]
  <2>1. h = buffer[c][1]
    OBVIOUS
  <2> QED
    BY <1>0, <2>1, HeadTailProperties
<1>2. /\ Append(got[c], h) \in Seq(L) /\ Len(Append(got[c], h)) = Len(got[c]) + 1
      /\ \A i \in 1..Len(got[c]) : Append(got[c], h)[i] = got[c][i]
      /\ Append(got[c], h)[Len(got[c]) + 1] = h
  BY <1>0, <1>1, AppendProperties
<1>3. /\ got' = [got EXCEPT ![c] = Append(got[c], h)] /\ buffer' = [buffer EXCEPT ![c] = t]
      /\ UNCHANGED <<server, clients, calls, spots, sent>>
  BY DEF Reads
<1>4. /\ got'[c] = Append(got[c], h) /\ buffer'[c] = t
      /\ \A d \in Clients \ {c} : got'[d] = got[d] /\ buffer'[d] = buffer[d]
  BY <1>3, <1>0 DEF TypeOK
<1>5. Len(buffer[c]) >= 1 /\ Len(t) \in Nat
  BY <1>0, <1>1, LenProperties, EmptySeq
<1>6. TypeOK'
  BY <1>0, <1>1, <1>2, <1>3, <1>4, <1>5, TelnetAssumption DEF TypeOK, clients
<1>7. EntryServed'
  BY <1>0, <1>3 DEF EntryServed, clients
<1>8. InStep(c)' /\ NotYet(c)'
  <2>1. InLine(since[c], got'[c], Len(got[c]) + 1, buffer'[c], Len(buffer[c]) - 1, sent, Len(sent))
    <3> DEFINE a == since[c]  g == Len(got[c])  b == Len(buffer[c])  s == Len(sent)
    <3>1. InLine(a, got[c], g, buffer[c], b, sent, s)
      BY <1>0 DEF InStep
    <3>2. a \in Nat /\ g \in Nat /\ b \in Nat /\ s \in Nat /\ b >= 1
      BY <1>0, <1>5
    <3>3. /\ \A i \in 1..g : got'[c][i] = got[c][i]
          /\ got'[c][g + 1] = buffer[c][1]
          /\ \A i \in 1..b - 1 : buffer'[c][i] = buffer[c][i + 1]
      <4> HIDE DEF h, t
      <4> QED
        BY <1>1, <1>2, <1>4
    <3>4. InLine(a, got'[c], g + 1, buffer'[c], b - 1, sent, s)
      <4> HIDE DEF a, g, b, s
      <4> QED
        BY <3>1, <3>2, <3>3, Moves
    <3> QED
      BY <3>4
  <2>2. since[c] + (Len(got[c]) + 1) + (Len(buffer[c]) - 1) = since[c] + Len(got[c]) + Len(buffer[c])
    <3> DEFINE a == since[c]  g == Len(got[c])  b == Len(buffer[c])
    <3>1. a \in Nat /\ g \in Nat /\ b \in Nat
      BY <1>0
    <3>2. a + (g + 1) + (b - 1) = a + g + b
      <4> HIDE DEF a, g, b
      <4> QED
        BY <3>1
    <3> QED
      BY <3>2
  <2>3. /\ since'[c] = since[c] /\ sent' = sent /\ table' = table /\ conn' = conn
        /\ Len(got'[c]) = Len(got[c]) + 1 /\ Len(buffer'[c]) = Len(buffer[c]) - 1
    BY <1>1, <1>2, <1>3, <1>4 DEF clients
  <2>4. InStep(c)'
    BY <2>1, <2>2, <2>3, <1>0 DEF InStep
  <2>5. handler[c] \notin {"none", "login"} /\ conn[c] # "none"
    BY <1>0 DEF IInv, NotYet, Reads
  <2> QED
    BY <2>4, <2>5, <1>3 DEF NotYet, clients
<1>9. ASSUME NEW d \in Clients \ {c} PROVE InStep(d)' /\ NotYet(d)'
  <2>1. InStep(d) /\ NotYet(d)
    BY DEF IInv
  <2> QED
    BY <2>1, <1>3, <1>4 DEF InStep, NotYet, clients
<1> QED
  BY <1>6, <1>7, <1>8, <1>9 DEF IInv

-----------------------------------------------------------------------------

\* Every step of the port and of its clients keeps the invariant.
LEMMA Step == IInv /\ [Next]_vars => IInv'
<1> SUFFICES ASSUME IInv, [Next]_vars PROVE IInv'
  OBVIOUS
<1>0. TypeOK /\ EntryServed /\ \A c \in Clients : InStep(c) /\ NotYet(c)
  BY DEF IInv
<1>1. ASSUME NEW c \in Clients, Connect(c) PROVE IInv'
  <2>1. c \notin table
    BY <1>0, <1>1 DEF EntryServed, Connect
  <2>2. TypeOK'
    BY <1>0, <1>1 DEF Connect, TypeOK, lines
  <2>3. EntryServed'
    BY <1>0, <1>1, <2>1 DEF Connect, EntryServed, TypeOK
  <2>4. ASSUME NEW d \in Clients PROVE InStep(d)' /\ NotYet(d)'
    <3>1. /\ since' = since /\ got' = got /\ buffer' = buffer /\ sent' = sent /\ table' = table
          /\ d \in table => conn'[d] = conn[d]
          /\ handler'[d] = handler[d] \/ handler[d] = "none"
          /\ conn'[d] = "none" => handler'[d] = "none"
      BY <1>0, <1>1, <2>1 DEF Connect, NotYet, TypeOK, lines
    <3>2. InStep(d)'
      BY <1>0, <3>1 DEF InStep
    <3>3. NotYet(d)'
      BY <1>0, <3>1 DEF NotYet
    <3> QED
      BY <3>2, <3>3
  <2> QED
    BY <2>2, <2>3, <2>4 DEF IInv
<1>2. ASSUME NEW c \in Clients, Login(c) PROVE IInv'
  <2> DEFINE L == 1..MaxSpots
  <2>1. /\ got[c] = <<>> /\ buffer[c] = <<>> /\ Len(sent) \in Nat /\ conn[c] = "open"
    BY <1>0, <1>2, LenProperties DEF Login, NotYet, TypeOK
  <2>2. TypeOK'
    BY <1>0, <1>2, <2>1 DEF Login, TypeOK, lines
  <2>3. EntryServed'
    BY <1>0, <1>2, <2>1 DEF Login, EntryServed, TypeOK
  <2>4. InStep(c)' /\ NotYet(c)'
    <3>1. /\ since'[c] = Len(sent) /\ sent' = sent /\ got'[c] = <<>> /\ buffer'[c] = <<>>
          /\ conn'[c] = "open" /\ Len(<<>>) = 0
      BY <1>0, <1>2, <2>1, EmptySeq DEF Login, TypeOK, lines
    <3>2. since'[c] \in Nat /\ Len(sent') = since'[c] /\ Len(got'[c]) = 0 /\ Len(buffer'[c]) = 0
      BY <3>1, <2>1
    <3>3. InStep(c)'
      BY <3>2 DEF InStep, InLine
    <3> QED
      BY <3>1, <3>3 DEF NotYet
  <2>5. ASSUME NEW d \in Clients \ {c} PROVE InStep(d)' /\ NotYet(d)'
    <3>1. InStep(d) /\ NotYet(d)
      BY <1>0
    <3> QED
      BY <3>1, <1>0, <1>2 DEF Login, InStep, NotYet, TypeOK, lines
  <2> QED
    BY <2>2, <2>3, <2>4, <2>5 DEF IInv
<1>3. ASSUME NEW c \in Clients, handler[c] # "none", Finally(c) PROVE IInv'
  BY <1>3, FinallyStep
<1>4. ASSUME NEW c \in Clients, HangsUp(c) PROVE IInv'
  <2>1. TypeOK'
    BY <1>0, <1>4, EmptySeq, TelnetAssumption DEF HangsUp, TypeOK
  <2>2. EntryServed'
    BY <1>0, <1>4 DEF HangsUp, EntryServed, TypeOK
  <2>3. InStep(c)' /\ NotYet(c)'
    <3>1. InStep(c) /\ NotYet(c) /\ since[c] \in Nat /\ got[c] \in Seq(1..MaxSpots)
          /\ buffer[c] \in Seq(1..MaxSpots) /\ Len(got[c]) \in Nat /\ Len(buffer[c]) \in Nat /\ Len(sent) \in Nat
      BY <1>0, LenProperties DEF TypeOK
    <3>2. buffer'[c] = <<>> /\ conn'[c] = "closed" /\ Len(<<>>) = 0
      BY <1>0, <1>4, EmptySeq DEF HangsUp, TypeOK
    <3>3. /\ since' = since /\ got' = got /\ sent' = sent /\ handler' = handler
          /\ since[c] \in Nat /\ Len(got[c]) \in Nat /\ Len(buffer[c]) \in Nat /\ Len(sent) \in Nat
          /\ Len(buffer'[c]) = 0
      BY <3>1, <3>2, <1>4 DEF HangsUp
    <3>4. InLine(since[c], got[c], Len(got[c]), buffer[c], Len(buffer[c]), sent, Len(sent))
      BY <3>1 DEF InStep
    <3>5. InLine(since[c], got[c], Len(got[c]), buffer'[c], 0, sent, Len(sent))
      BY <3>3, <3>4 DEF InLine
    <3>6. InStep(c)'
      BY <3>2, <3>3, <3>5 DEF InStep
    <3> QED
      BY <3>1, <3>2, <3>3, <3>6 DEF NotYet
  <2>4. ASSUME NEW d \in Clients \ {c} PROVE InStep(d)' /\ NotYet(d)'
    <3>1. InStep(d) /\ NotYet(d)
      BY <1>0
    <3> QED
      BY <3>1, <1>0, <1>4 DEF HangsUp, InStep, NotYet, TypeOK
  <2> QED
    BY <2>1, <2>2, <2>3, <2>4 DEF IInv
<1>5. ASSUME NEW c \in Clients, Flushed(c) PROVE IInv'
  <2>1. /\ conn' \in [Clients -> {"none", "open", "closing", "closed"}]
        /\ \A d \in Clients : /\ conn[d] = "closed" => conn'[d] = "closed"
                              /\ conn[d] # "none" => conn'[d] # "none"
    BY <1>0, <1>5 DEF Flushed, TypeOK
  <2> QED
    BY <2>1, <1>0, <1>5, Ends DEF Flushed, TypeOK, lines
<1>6. ASSUME NEW c \in Clients, Reads(c) PROVE IInv'
  BY <1>6, ReadStep
<1>7. CASE SpotOnLoop
  <2>1. spots + 1 \in 1..MaxSpots /\ spots' \in 0..MaxSpots /\ calls' \in Seq(1..MaxSpots)
    BY <1>0, <1>7, TelnetAssumption DEF SpotOnLoop, TypeOK
  <2> QED
    BY <2>1, <1>7, SendStep DEF SpotOnLoop
<1>8. CASE SpotOffLoop
  <2>1. calls' \in Seq(1..MaxSpots) /\ spots' \in 0..MaxSpots
    BY <1>0, <1>8, AppendProperties, TelnetAssumption DEF SpotOffLoop, TypeOK
  <2>2. TypeOK'
    BY <2>1, <1>0, <1>8 DEF SpotOffLoop, TypeOK, clients, lines
  <2>3. EntryServed' /\ \A c \in Clients : InStep(c)' /\ NotYet(c)'
    BY <1>0, <1>8 DEF SpotOffLoop, EntryServed, InStep, NotYet, clients, lines
  <2> QED
    BY <2>2, <2>3 DEF IInv
<1>9. CASE RunCall
  <2>1. Head(calls) \in 1..MaxSpots /\ calls' \in Seq(1..MaxSpots) /\ spots' \in 0..MaxSpots
    BY <1>0, <1>9, HeadTailProperties DEF RunCall, TypeOK
  <2> QED
    BY <2>1, <1>9, SendStep DEF RunCall
<1>10. CASE Stop
  <2>1. table' = {} /\ early' \subseteq Clients /\ server' = "closing"
        /\ UNCHANGED <<handler, since, lines, calls, spots, sent>>
    BY <1>10 DEF Stop
  <2>2. /\ conn' \in [Clients -> {"none", "open", "closing", "closed"}]
        /\ \A d \in Clients : conn[d] = "closed" <=> conn'[d] = "closed"
        /\ \A d \in Clients : conn[d] = "none" <=> conn'[d] = "none"
    BY <1>0, <1>10, ClosedKeeps DEF Stop
  <2>3. TypeOK'
    BY <2>1, <2>2, <1>0 DEF TypeOK, lines
  <2>4. EntryServed' /\ \A c \in Clients : InStep(c)' /\ NotYet(c)'
    BY <2>1, <2>2, <1>0 DEF EntryServed, InStep, NotYet, lines
  <2> QED
    BY <2>3, <2>4 DEF IInv
<1>11. CASE Stopped
  BY <1>0, <1>11, Ends DEF Stopped, clients, lines, TypeOK
<1>12. CASE UNCHANGED vars
  BY <1>0, <1>12 DEF vars, clients, lines, IInv, TypeOK, EntryServed, InStep, NotYet
<1> QED
  BY <1>1, <1>2, <1>3, <1>4, <1>5, <1>6, <1>7, <1>8, <1>9, <1>10, <1>11, <1>12
  DEF Next, Client, Port, LoginTimeout, Bye, StaleCommand, ReadsEnd

\* The inductive invariant holds in every reachable state.
THEOREM Invariance == Spec => []IInv
BY Initially, Step, PTL DEF Spec

\* Types and the limit of a buffer (MAX_CLIENT_BUFFER).
THEOREM TypeCorrect == Spec => []TypeOK
<1>1. IInv => TypeOK
  BY DEF IInv
<1> QED
  BY <1>1, Invariance, PTL

\* No entry of the table outlives its handler.
THEOREM EntriesServed == Spec => []EntryServed
<1>1. IInv => EntryServed
  BY DEF IInv
<1> QED
  BY <1>1, Invariance, PTL

\* No line is missing, repeated or out of order for a client in the table.
THEOREM LinesInStep == Spec => []NoGap
<1>1. ASSUME IInv, NEW c \in Clients
      PROVE  LET sure == got[c] \o buffer[c]
             IN /\ \A i \in DOMAIN sure : since[c] + i <= Len(sent) /\ sure[i] = sent[since[c] + i]
                /\ c \in table /\ conn[c] # "closed" => since[c] + Len(sure) = Len(sent)
  <2> DEFINE sure == got[c] \o buffer[c]
             L == 1..MaxSpots
  <2>1. /\ got[c] \in Seq(L) /\ buffer[c] \in Seq(L) /\ Len(got[c]) \in Nat /\ Len(buffer[c]) \in Nat
        /\ since[c] \in Nat /\ Len(sent) \in Nat /\ InStep(c)
    BY LenProperties, <1>1 DEF IInv, TypeOK
  <2>2. /\ sure \in Seq(L) /\ Len(sure) = Len(got[c]) + Len(buffer[c])
        /\ \A i \in 1..Len(got[c]) + Len(buffer[c]) :
             sure[i] = IF i <= Len(got[c]) THEN got[c][i] ELSE buffer[c][i - Len(got[c])]
    BY <2>1, ConcatProperties
  <2>3. DOMAIN sure = 1..Len(got[c]) + Len(buffer[c])
    BY <2>2, LenProperties
  <2>4. \A i \in 1..Len(got[c]) + Len(buffer[c]) : since[c] + i <= Len(sent) /\ sure[i] = sent[since[c] + i]
    <3> HIDE DEF sure
    <3> DEFINE a == since[c]  g == Len(got[c])  b == Len(buffer[c])  s == Len(sent)
    <3>1. InLine(a, got[c], g, buffer[c], b, sent, s)
      BY <2>1 DEF InStep
    <3>2. a \in Nat /\ g \in Nat /\ b \in Nat /\ s \in Nat
      BY <2>1
    <3>3. \A i \in 1..g + b : sure[i] = IF i <= g THEN got[c][i] ELSE buffer[c][i - g]
      BY <2>2
    <3>4. \A i \in 1..g + b : a + i <= s /\ sure[i] = sent[a + i]
      <4> DEFINE G == got[c]  B == buffer[c]  S == sent
      <4>1. InLine(a, G, g, B, b, S, s) /\ \A i \in 1..g + b : sure[i] = IF i <= g THEN G[i] ELSE B[i - g]
        BY <3>1, <3>3
      <4> HIDE DEF a, g, b, s, G, B, S
      <4>2. \A i \in 1..g + b : a + i <= s /\ sure[i] = S[a + i]
        <5> TAKE i \in 1..g + b
        <5>1. a + i <= s
          BY <3>2, <4>1 DEF InLine
        <5>2. CASE i <= g
          BY <5>1, <5>2, <4>1, <3>2 DEF InLine
        <5>3. CASE ~(i <= g)
          <6>1. i - g \in 1..b /\ a + g + (i - g) = a + i
            BY <5>3, <3>2
          <6>2. B[i - g] = S[a + g + (i - g)]
            BY <6>1, <4>1 DEF InLine
          <6> QED
            BY <5>1, <5>3, <6>1, <6>2, <4>1
        <5> QED
          BY <5>2, <5>3
      <4> QED
        BY <4>2 DEF S
    <3> QED
      BY <3>4
  <2>5. c \in table /\ conn[c] # "closed" => since[c] + Len(sure) = Len(sent)
    <3> HIDE DEF sure
    <3>1. since[c] + Len(sure) = since[c] + Len(got[c]) + Len(buffer[c])
      <4> DEFINE a == since[c]  g == Len(got[c])  b == Len(buffer[c])
      <4>1. a \in Nat /\ g \in Nat /\ b \in Nat /\ Len(sure) = g + b
        BY <2>1, <2>2
      <4>2. a + Len(sure) = a + g + b
        <5> HIDE DEF a, g, b
        <5> QED
          BY <4>1
      <4> QED
        BY <4>2
    <3> QED
      BY <2>1, <3>1 DEF InStep
  <2> QED
    BY <2>3, <2>4, <2>5
<1>2. IInv => NoGap
  BY <1>1 DEF NoGap
<1> QED
  BY <1>2, Invariance, PTL
=============================================================================
