------------------------- MODULE FlexReceiverProofs -------------------------
(***************************************************************************)
(* Proofs about FlexReceiver for every set of frequencies, every budget    *)
(* and every bound: its types, the radio never holds two streams of one    *)
(* copy, a halt or a stop is the end, and the decoders get no packet taken *)
(* elsewhere or from our own transmission once the loop was told of it.    *)
(***************************************************************************)
EXTENDS FlexReceiver, WellFoundedInduction, TLAPS

-----------------------------------------------------------------------------
(* The inductive invariant.                                                *)

\* Where a recovery may have closed the connection, there is no stream; it makes
\* one only from there.
NoStreamYet == pc \in {"create", "await", "connect", "build", "finish"} => streams = 0

\* A recovery is under way only while the copy reconnects, a change of the
\* receiver only while it is live and the loop does not recover; it may outlast the loop.
OneAtATime ==
  /\ pc \notin {"loop", "over"} => state = "reconnecting"
  /\ lock # "free" => state = "live" /\ pc \in {"loop", "over"}

IInv == streams \in {0, 1} /\ NoStreamYet /\ OneAtATime

\* The end of the copy: halted, or its loop is over.
Ended == state = "halted" \/ pc = "over"

\* What a step after the end may do.
Final ==
  /\ streams' <= streams /\ panOf' \in {0, panOf} /\ (link' => link)
  /\ (state = "halted" => state' = "halted")

-----------------------------------------------------------------------------

\* A copy starts live, with one stream.
THEOREM Initially == Init => IInv
BY DEF Init, IInv, NoStreamYet, OneAtATime

\* What the radio does by itself makes no stream of ours, and no recovery.
LEMMA RadioStep ==
  ASSUME IInv, Radio
  PROVE  IInv' /\ Final
<1>1. state' = state /\ pc' = pc /\ lock' = lock
  BY DEF Radio, Calibrates, Calibrated, OtherMoves, Keys, StationLeaves, StationReturns, Stalls,
         Outage, Samples, copy
<1>2. streams' = streams \/ streams' = 0
  BY DEF Radio, Calibrates, Calibrated, OtherMoves, Keys, StationLeaves, StationReturns, Stalls,
         Outage, Samples, pan
<1>3. panOf' = panOf \/ panOf' = 0
  BY DEF Radio, Calibrates, Calibrated, OtherMoves, Keys, StationLeaves, StationReturns, Stalls,
         Outage, Samples, pan
<1>4. link' => link
  BY DEF Radio, Calibrates, Calibrated, OtherMoves, Keys, StationLeaves, StationReturns, Stalls,
         Outage, Samples
<1> QED
  BY <1>1, <1>2, <1>3, <1>4 DEF IInv, NoStreamYet, OneAtATime, Final

\* The loop reads a line, or a packet.
LEMMA ReadStep ==
  ASSUME IInv, Poll \/ ReadPacket
  PROVE  IInv' /\ (Ended => Final)
<1>1. CASE Poll
  <2>1. state = "live" /\ pc = "loop" /\ pc' = pc /\ lock = "free"
    BY <1>1 DEF Poll, InLoop
  <2>2. \/ state' = "halted" /\ lock' = "free" /\ streams' = 0
        \/ state' = state /\ lock' = lock /\ streams' = streams
    BY <1>1 DEF Poll, Halts, Close
  <2> QED
    BY <2>1, <2>2 DEF IInv, NoStreamYet, OneAtATime, Ended
<1>2. CASE ReadPacket
  BY <1>2 DEF ReadPacket, IInv, NoStreamYet, OneAtATime, Ended, Final, pan, change, Running
<1> QED
  BY <1>1, <1>2

\* A live change: it begins in a live copy, and goes on or halts it.
LEMMA ChangeStep ==
  ASSUME IInv, LiveRetune \/ CalRestore \/ SetRx \/ TuneStep \/ TuneEnds
  PROVE  IInv' /\ (Ended => Final)
<1>1. ASSUME NEW f, NEW ours, Retune(f, ours) PROVE IInv' /\ ~Ended
  BY <1>1 DEF Retune, InLoop, IInv, NoStreamYet, OneAtATime, Ended, pan
<1>2. CASE SetRx
  BY <1>2 DEF SetRx, Swallow, InLoop, IInv, NoStreamYet, OneAtATime, Ended, pan, change
<1>3. CASE TuneStep
  <2>1. lock # "free" /\ pc' = pc
    BY <1>3 DEF TuneStep, TuneUnlock, TunePan, TuneSlice, Undo
  <2>2. state = "live" /\ pc \in {"loop", "over"}
    BY <2>1 DEF IInv, OneAtATime
  <2>3. \/ state' = "halted" /\ lock' = "free" /\ streams' = 0 /\ ~link' /\ panOf' \in {0, panOf}
        \/ state' = state /\ streams' = streams /\ link' = link /\ panOf' = panOf
    BY <1>3 DEF TuneStep, TuneUnlock, TunePan, TuneSlice, Undo, Goes, Halts, Close
  <2> QED
    BY <2>1, <2>2, <2>3 DEF IInv, NoStreamYet, OneAtATime, Final
<1>4. CASE TuneEnds
  <2>1. lock # "free" /\ pc' = pc
    BY <1>4 DEF TuneEnds
  <2>2. state = "live" /\ pc \in {"loop", "over"}
    BY <2>1 DEF IInv, OneAtATime
  <2>3. \/ state' = "halted" /\ lock' = "free" /\ streams' = 0 /\ ~link' /\ panOf' \in {0, panOf}
        \/ state' = state /\ streams' = streams /\ link' = link /\ panOf' = panOf
    BY <1>4 DEF TuneEnds, Goes, Halts, Close
  <2> QED
    BY <2>1, <2>2, <2>3 DEF IInv, NoStreamYet, OneAtATime, Final
<1> QED
  BY <1>1, <1>2, <1>3, <1>4 DEF LiveRetune, CalRestore

\* A recovery: it makes a stream only when there is none.
LEMMA RecoveryStep ==
  ASSUME IInv, RecoverStep
  PROVE  IInv' /\ (Ended => Final)
<1> USE DEF IInv, NoStreamYet, OneAtATime
<1>1. ASSUME Lost PROVE IInv' /\ (Ended => Final)
  <2>1. pc = "loop" /\ lock = "free"
    BY <1>1 DEF Lost, InLoop
  <2>2. ASSUME NEW kind \in {"link", "station", "stream"}, Recover(kind)
        PROVE  \/ /\ pc' = "over" /\ UNCHANGED <<state, streams, link, lock, panOf>>
               \/ /\ state # "halted" /\ state' = "halted" /\ lock' = "free" /\ pc' = pc /\ streams' = 0
               \/ /\ state # "halted" /\ state' = "reconnecting" /\ UNCHANGED lock
                  /\ \/ pc' = "await_same" /\ UNCHANGED streams
                     \/ pc' = "await" /\ streams' = 0
    BY <2>2 DEF Recover, Over, Halts, Close
  <2>3. PICK kind \in {"link", "station", "stream"} : Recover(kind)
    BY <1>1 DEF Lost
  <2>4. IInv'
    BY <2>1, <2>2, <2>3
  <2>5. Ended => state = "halted" /\ state' = "halted" /\ UNCHANGED <<streams, link, panOf>>
    BY <2>1, <2>2, <2>3 DEF Ended
  <2> QED
    BY <2>4, <2>5 DEF Final
<1>2. ASSUME AwaitRadio \/ Look \/ RemoveStream \/ CreateStream \/ Connect \/ Build
      PROVE  pc \notin {"loop", "over"} /\ state = "reconnecting" /\ lock = "free" /\ ~Ended
  BY <1>2 DEF AwaitRadio, Look, RemoveStream, CreateStream, Connect, Build, Ended
<1>3. ASSUME AwaitRadio PROVE IInv'
  BY <1>3, <1>2 DEF AwaitRadio, Moves, Close, Halts
<1>4. ASSUME Look PROVE IInv'
  BY <1>4, <1>2 DEF Look, Moves, Close, Swallow
<1>5. ASSUME RemoveStream PROVE IInv'
  BY <1>5, <1>2 DEF RemoveStream, Moves, Fails, Halts, Again, Close, Unconfirmed
<1>6. ASSUME CreateStream PROVE IInv'
  <2>1. streams = 0
    BY <1>6 DEF CreateStream
  <2>2. \/ streams' = streams + 1 /\ state' = "live" /\ pc' = "loop" /\ lock' = lock
        \/ streams' = 0 /\ state' = "halted" /\ pc' = "over" /\ lock' = "free"
        \/ streams' = 0 /\ state' = state /\ pc' = "await" /\ lock' = lock
    BY <1>6 DEF CreateStream, Fails, Halts, Again, Close
  <2> QED
    BY <2>1, <2>2, <1>2, <1>6
<1>7. ASSUME Connect PROVE IInv'
  BY <1>7, <1>2 DEF Connect, Moves, Fails, Halts, Again, Close
<1>8. ASSUME Build PROVE IInv'
  BY <1>8, <1>2 DEF Build, Moves, Fails, Halts, Again, Close
<1> QED
  BY <1>1, <1>2, <1>3, <1>4, <1>5, <1>6, <1>7, <1>8 DEF RecoverStep

\* Time, and the stop.
LEMMA EndStep ==
  ASSUME IInv, Forget \/ Stop \/ StopRemoves \/ LoopEnds
  PROVE  IInv' /\ (Ended => Final)
<1>1. state' = state /\ lock' = lock /\ (pc' = pc \/ (pc = "loop" /\ pc' = "over"))
  BY DEF Forget, Stop, StopRemoves, LoopEnds, change
<1>2. streams' = streams \/ streams' = 0
  BY DEF Forget, Stop, StopRemoves, LoopEnds, Close, pan
<1>3. (panOf' = panOf \/ panOf' = 0) /\ (link' => link)
  BY DEF Forget, Stop, StopRemoves, LoopEnds, Close, pan
<1> QED
  BY <1>1, <1>2, <1>3 DEF IInv, NoStreamYet, OneAtATime, Ended, Final

\* Every step keeps the invariant, and after the end only takes away.
LEMMA Step ==
  ASSUME IInv, [Next]_vars
  PROVE  IInv' /\ (Ended => Final)
<1>1. CASE UNCHANGED vars
  BY <1>1 DEF vars, IInv, NoStreamYet, OneAtATime, Ended, Final
<1>2. CASE Next
  BY <1>2, RadioStep, ReadStep, ChangeStep, RecoveryStep, EndStep DEF Next, Copy
<1> QED
  BY <1>1, <1>2

\* The inductive invariant holds in every reachable state.
THEOREM Invariance == Spec => []IInv
<1>1. IInv /\ [Next]_vars => IInv'
  BY Step
<1> QED
  BY Initially, <1>1, PTL DEF Spec

\* However often a stall is answered with a new stream and replies are lost, the
\* radio never holds two streams of one copy (_new_stream).
THEOREM NeverTwoStreams == Spec => []OneStream
<1>1. IInv => OneStream
  BY DEF IInv, OneStream
<1> QED
  BY <1>1, Invariance, PTL

\* Nothing is made on the radio after a halt or the end of the loop (_recover,
\* _live_lock).
THEOREM EndStaysFinal == Spec => EndIsFinal
<1>1. IInv /\ [Next]_vars => [Ended => Final]_vars
  BY Step
<1> QED
  BY <1>1, Invariance, PTL DEF Spec, EndIsFinal, Ended, Final

-----------------------------------------------------------------------------
(* Types.                                                                  *)

\* The radio, as the copy depends on it.
RadioOK ==
  /\ centre \in Freqs \cup {Elsewhere} /\ panOf \in 0..MaxStations /\ streams \in Nat
  /\ flowing \in BOOLEAN /\ cal \in BOOLEAN /\ keyed \in BOOLEAN /\ link \in BOOLEAN /\ answers \in BOOLEAN

\* The stations registered, and the one the copy is bound to.
RegistryOK == stations \in 1..MaxStations /\ station \in {0, stations} /\ bound \in 1..MaxStations

\* What is on its way to the copy, and what a command has read.
QueuesOK == inbox \in Seq(Lines) /\ air \in Seq(Packet) /\ Len(air) <= MaxAir /\ swallowed \subseteq Lines

\* Where the loop and a change are, and the frequency.
LoopOK ==
  /\ state \in {"live", "reconnecting", "halted"}
  /\ pc \in {"loop", "await_same", "look", "remove", "create", "await", "connect", "build", "finish",
             "over"}
  /\ lock \in {"free", "unlock", "pan", "slice", "undo_pan", "undo_both", "undo_slice", "done", "failed"}
  /\ freq \in Freqs /\ aim \in Freqs

\* What the loop was told, and what it does with the packets for that.
EarsOK ==
  /\ stationLost \in BOOLEAN /\ calibrating \in BOOLEAN /\ calHeld \in BOOLEAN
  /\ transmitting \in BOOLEAN /\ restore \in BOOLEAN /\ stopping \in BOOLEAN
  /\ hold \in 0..MaxAir /\ discard \in 0..Inf

\* The losses and the observers.
CountsOK == losses \in 0..LOSS_BUDGET /\ heard \subseteq Faults /\ events \in 0..MaxEvents

\* The types, by parts.
AllOK == RadioOK /\ RegistryOK /\ QueuesOK /\ LoopOK /\ EarsOK /\ CountsOK

\* The parts are the types.
LEMMA Parts == (TypeOK <=> AllOK) /\ (TypeOK' <=> AllOK')
BY DEF TypeOK, AllOK, RadioOK, RegistryOK, QueuesOK, LoopOK, EarsOK, CountsOK

\* The bounds are numbers; Inf is beyond every number of packets.
LEMMA Numbers ==
  /\ LOSS_BUDGET \in Nat /\ MaxEvents \in Nat /\ MaxAir \in Nat /\ MaxStations \in Nat
  /\ 0 \in 0..MaxStations /\ Inf \in 0..Inf /\ 0 \in 0..Inf /\ 0 \in 0..MaxAir
  /\ \A n \in 0..MaxAir : n \in 0..Inf /\ n # Inf
  /\ Inf \in Nat \ {0}
BY FlexReceiverAssumption DEF Inf

\* The radio: a step sets a flag of it, moves our pan, or takes or makes one of ours.
LEMMA RadioKept ==
  ASSUME AllOK, [Next]_vars
  PROVE  RadioOK'
<1> USE DEF AllOK, RadioOK, RegistryOK
<1>0. \A x \in {0, panOf, bound} : x \in 0..MaxStations
  BY Numbers
<1>1. CASE Radio
  <2>1. streams' \in {0, streams} /\ panOf' \in {0, panOf} /\ centre' \in {centre, Elsewhere}
    BY <1>1 DEF Radio, Calibrates, Calibrated, OtherMoves, Keys, StationLeaves, StationReturns, Stalls,
       Outage, Samples, pan
  <2>2. flowing' \in BOOLEAN /\ cal' \in BOOLEAN /\ keyed' \in BOOLEAN /\ link' \in BOOLEAN
        /\ answers' \in BOOLEAN
    BY <1>1 DEF Radio, Calibrates, Calibrated, OtherMoves, Keys, StationLeaves, StationReturns, Stalls,
       Outage, Samples, pan, onAir
  <2> QED
    BY <1>0, <2>1, <2>2
<1>2. CASE Poll
  <2>1. streams' \in {0, streams} /\ panOf' \in {0, panOf} /\ link' \in BOOLEAN
    BY <1>2 DEF Poll, Halts, Close
  <2>2. centre' = centre /\ flowing' \in BOOLEAN /\ cal' \in BOOLEAN /\ keyed' \in BOOLEAN
        /\ answers' \in BOOLEAN
    BY <1>2 DEF Poll, onAir
  <2> QED
    BY <1>0, <2>1, <2>2
<1>3. CASE ReadPacket \/ LiveRetune \/ CalRestore \/ SetRx \/ Forget \/ Stop \/ LoopEnds \/ UNCHANGED vars
  BY <1>3 DEF ReadPacket, LiveRetune, CalRestore, SetRx, Retune, Forget, Stop, LoopEnds, pan, onAir, vars
<1>4. CASE TuneStep \/ TuneEnds
  <2>1. streams' \in {0, streams} /\ panOf' \in {0, panOf} /\ link' \in BOOLEAN
    BY <1>4 DEF TuneStep, TuneUnlock, TunePan, TuneSlice, Undo, TuneEnds, Goes, Halts, Close
  <2>2. flowing' \in BOOLEAN /\ cal' \in BOOLEAN /\ keyed' \in BOOLEAN /\ answers' \in BOOLEAN
    BY <1>4 DEF TuneStep, TuneEnds, onAir
  <2>3. centre' \in {centre, aim, freq}
    BY <1>4 DEF TuneStep, TuneUnlock, TunePan, TuneSlice, Undo, TuneEnds
  <2> QED
    BY <1>0, <2>1, <2>2, <2>3 DEF LoopOK
<1>5. CASE RecoverStep
  <2>1. streams' \in {0, streams, streams + 1} \/ (streams # 0 /\ streams' = streams - 1)
    BY <1>5 DEF RecoverStep, Lost, AwaitRadio, Look, RemoveStream, CreateStream, Connect, Build,
       Recover, Halts, Close, Again, Unconfirmed, Fails
  <2>2. panOf' \in {0, panOf, bound} /\ link' \in BOOLEAN /\ flowing' \in {flowing, TRUE}
    BY <1>5 DEF RecoverStep, Lost, AwaitRadio, Look, RemoveStream, CreateStream, Connect, Build,
       Recover, Halts, Close, Again, Unconfirmed, Fails
  <2>3. centre' \in {centre, freq} /\ UNCHANGED <<cal, keyed, answers>>
    BY <1>5 DEF RecoverStep, Lost, AwaitRadio, Look, RemoveStream, CreateStream, Connect, Build, onAir
  <2>4. streams' \in Nat
    BY <2>1
  <2> QED
    BY <1>0, <2>2, <2>3, <2>4 DEF LoopOK
<1>6. CASE StopRemoves
  <2>1. streams' = 0 /\ link' = FALSE /\ panOf' \in {0, panOf}
    BY <1>6 DEF StopRemoves, Close
  <2> QED
    BY <1>6, <1>0, <2>1 DEF StopRemoves, onAir
<1> QED
  BY <1>1, <1>2, <1>3, <1>4, <1>5, <1>6 DEF Next, Copy

\* A copy binds to a station that was registered.
LEMMA RegistryKept ==
  ASSUME AllOK, [Next]_vars
  PROVE  RegistryOK'
<1>1. CASE Radio
  BY <1>1, FlexReceiverAssumption DEF AllOK, RadioOK, RegistryOK, Radio, Calibrates, Calibrated,
     OtherMoves, Keys, StationLeaves, StationReturns, Stalls, Outage, Samples, Event, Tells, Sends, pan,
     onAir, registry, copy
<1>2. CASE Poll
  BY <1>2, FlexReceiverAssumption DEF AllOK, RadioOK, RegistryOK, Copy, Poll, Halts, Close, InLoop,
     registry, onAir, Inf
<1>3. CASE ReadPacket
  BY <1>3, FlexReceiverAssumption DEF AllOK, RadioOK, RegistryOK, Copy, ReadPacket, Running, Hear, pan,
     change, onAir, registry
<1>4. CASE LiveRetune \/ CalRestore \/ SetRx
  BY <1>4, FlexReceiverAssumption DEF AllOK, RadioOK, RegistryOK, Copy, LiveRetune, CalRestore, SetRx,
     Retune, InLoop, Swallow, pan, change, onAir, registry, ears, Inf
<1>5. CASE TuneStep
  BY <1>5, FlexReceiverAssumption DEF AllOK, RadioOK, RegistryOK, Copy, TuneStep, TuneUnlock, TunePan,
     TuneSlice, Undo, Reply, Event, Goes, Halts, Close, Swallow, registry, onAir, ears
<1>6. CASE TuneEnds
  BY <1>6, FlexReceiverAssumption DEF AllOK, RadioOK, RegistryOK, Copy, TuneEnds, Goes, Halts, Close,
     Swallow, registry, onAir, LetThrough, Inf
<1>7. CASE RecoverStep
  BY <1>7, FlexReceiverAssumption DEF AllOK, RadioOK, RegistryOK, Copy, RecoverStep, Lost, AwaitRadio,
     Look, RemoveStream, CreateStream, Connect, Build, InLoop, Recover, Over, Spent, Reply, Event,
     Halts, Close, Swallow, Again, Unconfirmed, Fails, Moves, registry, onAir
<1>8. CASE Forget \/ Stop \/ StopRemoves \/ LoopEnds
  BY <1>8, FlexReceiverAssumption DEF AllOK, RadioOK, RegistryOK, Copy, Forget, Stop, StopRemoves,
     LoopEnds, Close, pan, onAir, registry, ears, change, Running
<1>9. CASE UNCHANGED vars
  BY <1>9, FlexReceiverAssumption DEF AllOK, RadioOK, RegistryOK, Copy, vars
<1> QED
  BY <1>1, <1>2, <1>3, <1>4, <1>5, <1>6, <1>7, <1>8, <1>9 DEF Next, Copy

\* The loop and the change under the lock are where the code knows them to be.
LEMMA LoopKept ==
  ASSUME AllOK, [Next]_vars
  PROVE  LoopOK'
<1>1. CASE Radio
  BY <1>1, FlexReceiverAssumption DEF AllOK, LoopOK, RadioOK, Radio, Calibrates, Calibrated, OtherMoves,
     Keys, StationLeaves, StationReturns, Stalls, Outage, Samples, Event, Tells, Sends, pan, onAir,
     registry, copy
<1>2. CASE Poll
  BY <1>2, FlexReceiverAssumption DEF AllOK, LoopOK, RadioOK, Copy, Poll, Halts, Close, InLoop,
     registry, onAir, Inf
<1>3. CASE ReadPacket
  BY <1>3, FlexReceiverAssumption DEF AllOK, LoopOK, RadioOK, Copy, ReadPacket, Running, Hear, pan,
     change, onAir, registry
<1>4. CASE LiveRetune \/ CalRestore \/ SetRx
  BY <1>4, FlexReceiverAssumption DEF AllOK, LoopOK, RadioOK, Copy, LiveRetune, CalRestore, SetRx,
     Retune, InLoop, Swallow, pan, change, onAir, registry, ears, Inf
<1>5. CASE TuneStep
  BY <1>5, FlexReceiverAssumption DEF AllOK, LoopOK, RadioOK, Copy, TuneStep, TuneUnlock, TunePan,
     TuneSlice, Undo, Reply, Event, Goes, Halts, Close, Swallow, registry, onAir, ears
<1>6. CASE TuneEnds
  BY <1>6, FlexReceiverAssumption DEF AllOK, LoopOK, RadioOK, Copy, TuneEnds, Goes, Halts, Close,
     Swallow, registry, onAir, LetThrough, Inf
<1>7. CASE RecoverStep
  BY <1>7, FlexReceiverAssumption DEF AllOK, LoopOK, RadioOK, Copy, RecoverStep, Lost, AwaitRadio, Look,
     RemoveStream, CreateStream, Connect, Build, InLoop, Recover, Over, Spent, Reply, Event, Halts,
     Close, Swallow, Again, Unconfirmed, Fails, Moves, registry, onAir
<1>8. CASE Forget \/ Stop \/ StopRemoves \/ LoopEnds
  BY <1>8, FlexReceiverAssumption DEF AllOK, LoopOK, RadioOK, Copy, Forget, Stop, StopRemoves, LoopEnds,
     Close, pan, onAir, registry, ears, change, Running
<1>9. CASE UNCHANGED vars
  BY <1>9, FlexReceiverAssumption DEF AllOK, LoopOK, RadioOK, Copy, vars
<1> QED
  BY <1>1, <1>2, <1>3, <1>4, <1>5, <1>6, <1>7, <1>8, <1>9 DEF Next, Copy

\* What the loop drops or holds back is counted in packets that were queued.
LEMMA EarsKept ==
  ASSUME AllOK, [Next]_vars
  PROVE  EarsOK'
<1> USE DEF AllOK, EarsOK
<1>0. Len(air) \in 0..MaxAir
  BY Numbers DEF QueuesOK
<1>1. CASE Radio \/ Forget \/ Stop \/ StopRemoves \/ LoopEnds \/ UNCHANGED vars
  BY <1>1 DEF Radio, Calibrates, Calibrated, OtherMoves, Keys, StationLeaves, StationReturns, Stalls,
     Outage, Samples,
     copy, Forget, Stop, StopRemoves, LoopEnds, ears, change, vars
<1>2. CASE Poll
  <2>1. stationLost' \in BOOLEAN /\ transmitting' \in BOOLEAN /\ calibrating' \in BOOLEAN 
    BY <1>2 DEF Poll
  <2>2. hold' \in {hold, Len(air)} /\ discard' \in {discard, Inf} /\ calHeld' \in {calHeld, TRUE}
    BY <1>2 DEF Poll
  <2>3. restore' = restore /\ stopping' = stopping
    BY <1>2 DEF Poll
  <2> QED
    BY <1>0, <2>1, <2>2, <2>3, Numbers
<1>3. CASE ReadPacket
  <2>1. hold' = IF hold = 0 THEN 0 ELSE hold - 1
    BY <1>3 DEF ReadPacket
  <2>2. discard' = IF discard \in {0, Inf} THEN discard ELSE discard - 1
    BY <1>3 DEF ReadPacket
  <2>3. hold' \in 0..MaxAir /\ discard' \in 0..Inf
    BY <2>1, <2>2, Numbers
  <2> QED
    BY <1>3, <2>3 DEF ReadPacket, change
<1>4. CASE LiveRetune \/ CalRestore \/ SetRx
  <2>1. discard' \in {discard, Inf} /\ restore' \in {restore, TRUE, FALSE}
    BY <1>4 DEF LiveRetune, CalRestore, SetRx, Retune, change
  <2> QED
    BY <1>4, <2>1, Numbers DEF LiveRetune, CalRestore, SetRx, Retune, ears
<1>5. CASE TuneStep
  BY <1>5 DEF TuneStep, ears
<1>6. CASE TuneEnds
  <2>1. discard' \in {Inf, Len(air)} /\ calHeld' \in {FALSE, calHeld}
    BY <1>6 DEF TuneEnds, LetThrough
  <2> QED
    BY <1>0, <1>6, <2>1, Numbers DEF TuneEnds
<1>7. CASE RecoverStep
  <2>1. /\ calibrating' \in {calibrating, cal} /\ stationLost' \in {stationLost, FALSE}
        /\ transmitting' \in {transmitting, FALSE}
    BY <1>7 DEF RecoverStep, Lost, AwaitRadio, Look, RemoveStream, CreateStream, Connect, Build
  <2>2. UNCHANGED <<calHeld, hold, discard, restore, stopping>>
    BY <1>7 DEF RecoverStep
  <2> QED
    BY <2>1, <2>2 DEF RadioOK
<1> QED
  BY <1>1, <1>2, <1>3, <1>4, <1>5, <1>6, <1>7 DEF Next, Copy

\* The bounds of the events and the budget of losses are kept.
LEMMA CountsKept ==
  ASSUME AllOK, [Next]_vars
  PROVE  CountsOK'
<1> USE DEF AllOK, CountsOK, Event
<1>1. events' \in 0..MaxEvents
  <2>1. \/ events' = events
        \/ events < MaxEvents /\ events' = events + 1
    BY DEF Next, Radio, Copy, vars, Calibrates, Calibrated, OtherMoves, Keys, StationLeaves,
       StationReturns, Stalls, Outage, Samples,
    Poll, ReadPacket, LiveRetune, CalRestore, SetRx, Retune, TuneStep, TuneUnlock, TunePan, TuneSlice,
    Undo, Reply, TuneEnds,
    RecoverStep, Lost, AwaitRadio, Look, RemoveStream, CreateStream, Connect, Build, Forget, Stop,
    StopRemoves, LoopEnds
  <2> QED
    BY <2>1, Numbers
<1>2. losses' \in 0..LOSS_BUDGET
  <2>1. \/ losses' = losses
        \/ losses # LOSS_BUDGET /\ losses' = losses + 1
        \/ losses > 0 /\ losses' = losses - 1
    BY DEF Next, Radio, Copy, vars, Calibrates, Calibrated, OtherMoves, Keys, StationLeaves,
       StationReturns, Stalls, Outage, Samples, copy,
    Poll, ReadPacket, LiveRetune, CalRestore, SetRx, Retune, TuneStep, TuneUnlock, TunePan, TuneSlice,
    Undo, TuneEnds,
    RecoverStep, Lost, Recover, Spent, AwaitRadio, Look, RemoveStream, CreateStream, Connect, Build,
    Forget, Stop, StopRemoves, LoopEnds
  <2> QED
    BY <2>1, Numbers
<1>3. heard' \subseteq Faults
  <2>1. CASE ReadPacket
    BY <2>1 DEF ReadPacket, Hear, Faults
  <2>2. CASE ~ReadPacket
    BY <2>2 DEF Next, Radio, Copy, vars, Calibrates, Calibrated, OtherMoves, Keys, StationLeaves,
       StationReturns, Stalls, Outage, Samples, copy,
    Poll, LiveRetune, CalRestore, SetRx, Retune, TuneStep, TuneEnds,
    RecoverStep, Forget, Stop, StopRemoves, LoopEnds
  <2> QED
    BY <2>1, <2>2
<1> QED
  BY <1>1, <1>2, <1>3

\* An empty queue is one of each kind.
LEMMA Emptied == <<>> \in Seq(Lines) /\ <<>> \in Seq(Packet) /\ Len(<<>>) <= MaxAir /\ Range(<<>>) = {}
BY Numbers DEF Range

\* A line or two make a sequence of lines.
LEMMA Lined == \A l \in Lines, k \in Lines : <<l>> \in Seq(Lines) /\ <<l, k>> \in Seq(Lines)
OBVIOUS

\* Nothing but status lines and packets is queued.
LEMMA QueuesKept ==
  ASSUME AllOK, [Next]_vars
  PROVE  QueuesOK'
<1> USE DEF AllOK
<1>1. CASE Radio
  <2>1. inbox' \in Seq(Lines)
    <3>1. \/ inbox' = inbox \/ inbox' = <<>>
          \/ Tells(<<"cal_on", "moved">>) \/ Tells(<<"cal_on">>) \/ Tells(<<"cal_off">>)
             \/ Tells(<<"moved">>)
          \/ Tells(<<"keyed">>) \/ Tells(<<"unkeyed">>) \/ Tells(<<"station_left">>)
      BY <1>1 DEF Radio, Calibrates, Calibrated, OtherMoves, Keys, StationLeaves, StationReturns,
         Stalls, Outage, Samples
    <3>2. ASSUME NEW ls \in Seq(Lines), Tells(ls) PROVE inbox' \in Seq(Lines)
      BY <3>2 DEF Tells, QueuesOK
    <3>3. {"cal_on", "cal_off", "moved", "keyed", "unkeyed", "station_left"} \subseteq Lines
      BY DEF Lines
    <3> QED
      BY <3>1, <3>2, <3>3, Lined, Emptied DEF QueuesOK
  <2>2. air' \in Seq(Packet) /\ Len(air') <= MaxAir
    <3>1. CASE Samples
      <4>1. [at |-> centre, keyed |-> keyed] \in Packet
        BY DEF RadioOK, Packet
      <4> QED
        BY <3>1, <4>1, Numbers DEF Samples, QueuesOK
    <3>2. CASE ~Samples
      <4>1. air' = air
        BY <1>1, <3>2 DEF Radio, Calibrates, Calibrated, OtherMoves, Keys, StationLeaves,
           StationReturns, Stalls, Outage
      <4> QED
        BY <4>1 DEF QueuesOK
    <3> QED
      BY <3>1, <3>2
  <2>3. swallowed' = swallowed
    BY <1>1 DEF Radio, Calibrates, Calibrated, OtherMoves, Keys, StationLeaves, StationReturns, Stalls,
       Outage, Samples, copy
  <2> QED
    BY <2>1, <2>2, <2>3 DEF QueuesOK
<1>2. CASE Poll
  <2>1. inbox' = <<>> /\ swallowed' = swallowed /\ air' \in {<<>>, air}
    BY <1>2 DEF Poll, Halts, Close
  <2> QED
    BY <2>1, Emptied DEF QueuesOK
<1>3. CASE ReadPacket
  <2>1. air # <<>> /\ air' = Tail(air) /\ inbox' = inbox /\ swallowed' = swallowed
    BY <1>3 DEF ReadPacket
  <2> QED
    BY <2>1, Numbers DEF QueuesOK
<1>4. CASE LiveRetune \/ CalRestore \/ Forget \/ Stop \/ LoopEnds \/ UNCHANGED vars
  BY <1>4 DEF LiveRetune, CalRestore, Retune, Forget, Stop, LoopEnds, vars, QueuesOK
<1>5. CASE SetRx \/ TuneStep \/ TuneEnds \/ RecoverStep \/ StopRemoves
  <2>1. /\ air' \in {<<>>, air}
        /\ \/ Swallow
           \/ inbox' \in {<<>>, inbox} /\ swallowed' = swallowed
           \/ inbox' = <<>> /\ swallowed' = swallowed \cup (Range(inbox) \ {"cal_on", "cal_off"})
              \cup (IF keyed THEN {"keyed"} ELSE {})
    <3>1. CASE SetRx
      BY <3>1 DEF SetRx
    <3>2. CASE TuneStep
      BY <3>2 DEF TuneStep, TuneUnlock, TunePan, TuneSlice, Undo, Goes, Halts, Close
    <3>3. CASE TuneEnds
      BY <3>3 DEF TuneEnds, Goes, Halts, Close
    <3>4. CASE RecoverStep
      BY <3>4 DEF RecoverStep, Lost, AwaitRadio, Look, RemoveStream, CreateStream, Connect, Build,
         Recover, Halts, Close, Again, Unconfirmed, Fails
    <3>5. CASE StopRemoves
      BY <3>5 DEF StopRemoves, Close
    <3> QED
      BY <1>5, <3>1, <3>2, <3>3, <3>4, <3>5
  <2>2. Range(inbox) \subseteq Lines
    BY DEF QueuesOK, Range
  <2>3. inbox' \in {<<>>, inbox} /\ swallowed' \subseteq Lines
    BY <2>1, <2>2 DEF QueuesOK, Swallow, Lines
  <2> QED
    BY <2>1, <2>3, Emptied DEF QueuesOK
<1> QED
  BY <1>1, <1>2, <1>3, <1>4, <1>5 DEF Next, Copy

\* A copy starts with the types.
LEMMA InitTypes ==
  ASSUME Init
  PROVE  AllOK
<1>1. 1 \in 1..MaxStations /\ 1 \in 0..MaxStations /\ 1 \in Nat
  BY FlexReceiverAssumption
<1>4. RadioOK /\ RegistryOK
  BY <1>1 DEF Init, RadioOK, RegistryOK
<1>2. QueuesOK
  BY Emptied DEF Init, QueuesOK
<1>3. LoopOK /\ EarsOK
  BY Numbers DEF Init, LoopOK, EarsOK
<1>5. 0 \in 0..LOSS_BUDGET /\ 0 \in 0..MaxEvents
  BY Numbers
<1>6. CountsOK
  BY <1>5 DEF Init, CountsOK
<1> QED
  BY <1>2, <1>3, <1>4, <1>6 DEF AllOK

\* The types of the copy and its radio, for every set of frequencies and every
\* bound: in particular the packets counted to be dropped or held back are never
\* more than the queue holds, or all.
THEOREM Types == Spec => []TypeOK
<1>1. Init => TypeOK
  BY InitTypes, Parts
<1>2. TypeOK /\ [Next]_vars => TypeOK'
  BY Parts, RadioKept, RegistryKept, LoopKept, EarsKept, CountsKept, QueuesKept DEF AllOK
<1> QED
  BY <1>1, <1>2, PTL DEF Spec

-----------------------------------------------------------------------------
(* What the loop knows of the packets that are queued.                     *)

\* The status lines read or to be read.
Told == Range(inbox) \cup swallowed

\* Its loop reads packets, or may do so again, on a connection and a pan it knows.
Listens == link /\ state # "halted" /\ pc \notin {"await", "connect", "build"}

\* A connection that was closed has brought nothing yet.
NothingQueued == pc \in {"await", "connect", "build"} => air = <<>>

\* A change mutes the copy; otherwise it is muted only while calibration holds the pan.
Muted ==
  /\ lock # "free" => discard = Inf /\ (restore => calHeld)
  /\ discard = Inf /\ lock = "free" /\ state # "halted" => calHeld

\* The pan is where the copy says, unless the radio told otherwise or calibration holds
\* it; within a change, where the change has got to.
CentreKnown ==
  Listens /\ "moved" \notin Told =>
    /\ lock \in {"free", "unlock", "pan", "undo_slice", "failed"} => centre = freq \/ calHeld
    /\ lock = "slice" => centre = aim
    /\ lock = "done" => centre = freq

\* So are the packets queued that the copy will not drop.
QueueKnown ==
  Listens /\ "moved" \notin Told /\ ~calHeld /\ discard # Inf =>
     \A i \in DOMAIN air : i > discard => air[i].at = freq

\* The last word on the key is that it is down.
EndsKeyed(lines) ==
  \E i \in DOMAIN lines :
    lines[i] = "keyed" /\ \A j \in DOMAIN lines : j > i => lines[j] # "unkeyed"

\* While the radio transmits, the loop knows or will be told last.
KeyKnown ==
  Listens /\ keyed /\ "keyed" \notin swallowed =>
    EndsKeyed(inbox) \/ (transmitting /\ "unkeyed" \notin Range(inbox))

\* A packet of our own transmission is held back, or the loop is silent or to be told.
OwnKnown ==
  Listens /\ "keyed" \notin Told /\ ~transmitting => \A i \in DOMAIN air : air[i].keyed => i <= hold

\* What the loop knows.
Knows == NothingQueued /\ Muted /\ CentreKnown /\ QueueKnown /\ KeyKnown /\ OwnKnown

\* All of it but the status lines not read yet.
knowledge == <<centre, keyed, link, air, state, pc, freq, calHeld, transmitting, hold, discard, lock, aim,
               restore, swallowed>>

\* A set of naturals has a least member, another member being below any other.
LEMMA LeastOf ==
  ASSUME NEW T, T \subseteq Nat, T # {}
  PROVE  \E x \in T : \A y \in T : x <= y
<1>1. PICK x \in T : \A y \in T : ~ (<<y, x>> \in OpToRel(<, Nat))
  BY WFMin, NatLessThanWellFounded, Zenon
<1>2. \A y \in T : ~ (y < x)
  BY <1>1 DEF OpToRel
<1> QED
  BY <1>2

\* A set of positions has a last one: the least bound of them.
LEMMA LastOf ==
  ASSUME NEW n \in Nat, NEW T, T \subseteq 1..n, T # {}
  PROVE  \E x \in T : \A y \in T : y <= x
<1> DEFINE U == {k \in Nat : \A y \in T : y <= k}
<1>1. n \in U
  OBVIOUS
<1>2. PICK m \in U : \A k \in U : m <= k
  BY <1>1, LeastOf
<1>3. ASSUME m \notin T PROVE FALSE
  <2>1. m \in Nat /\ \A y \in T : y \in 1..n /\ y <= m /\ y # m
    BY <1>3
  <2> HIDE DEF U
  <2>3. PICK y \in T : TRUE
    OBVIOUS
  <2>4. m - 1 \in Nat /\ \A z \in T : z <= m - 1
    BY <2>1, <2>3
  <2>2. m - 1 \in U
    BY <2>4 DEF U
  <2> QED
    BY <1>2, <2>1, <2>2
<1> QED
  BY <1>3

\* The last line of a kind, by which _poll sets a flag, is there when one was read.
LEMMA LastLine ==
  ASSUME TypeOK, NEW on, NEW off, {on, off} \cap Range(inbox) # {}
  PROVE  LET last == CHOOSE i \in DOMAIN inbox :
                       inbox[i] \in {on, off} /\ \A j \in DOMAIN inbox : inbox[j] \in {on, off} => j <= i
         IN /\ last \in DOMAIN inbox /\ inbox[last] \in {on, off}
            /\ \A j \in DOMAIN inbox : inbox[j] \in {on, off} => j <= last
<1> DEFINE T == {i \in DOMAIN inbox : inbox[i] \in {on, off}}
<1>1. Len(inbox) \in Nat /\ DOMAIN inbox = 1..Len(inbox)
  BY DEF TypeOK
<1>2. T # {} /\ T \subseteq 1..Len(inbox)
  BY <1>1 DEF Range
<1>3. PICK x \in T : \A y \in T : y <= x
  BY <1>1, <1>2, LastOf
<1>4. \E i \in DOMAIN inbox :
        inbox[i] \in {on, off} /\ \A j \in DOMAIN inbox : inbox[j] \in {on, off} => j <= i
  BY <1>3
<1> QED
  BY <1>4

\* After _poll the loop is silent when the last word was the key, and has the
\* queue held back when the key went up.
LEMMA PollKeys ==
  ASSUME TypeOK, Poll
  PROVE  /\ EndsKeyed(inbox) => transmitting'
         /\ transmitting /\ "unkeyed" \notin Range(inbox) => transmitting'
         /\ "keyed" \in Range(inbox) \/ transmitting => transmitting' \/ hold' = Len(air)
<1> DEFINE last == CHOOSE i \in DOMAIN inbox :
                       inbox[i] \in {"keyed", "unkeyed"}
                       /\ \A j \in DOMAIN inbox : inbox[j] \in {"keyed", "unkeyed"} => j <= i
<1>1. transmitting' =
        IF {"keyed", "unkeyed"} \cap Range(inbox) = {} THEN transmitting ELSE inbox[last] = "keyed"
  BY DEF Poll
<1>2. hold' = IF transmitting' \/ "unkeyed" \notin Range(inbox) THEN hold ELSE Len(air)
  BY DEF Poll
<1>3. CASE {"keyed", "unkeyed"} \cap Range(inbox) = {}
  <2>1. ~EndsKeyed(inbox)
    BY <1>3 DEF EndsKeyed, Range
  <2> QED
    BY <1>1, <1>3, <2>1
<1>4. CASE {"keyed", "unkeyed"} \cap Range(inbox) # {}
  <2>1. /\ last \in DOMAIN inbox /\ inbox[last] \in {"keyed", "unkeyed"}
        /\ \A j \in DOMAIN inbox : inbox[j] \in {"keyed", "unkeyed"} => j <= last
    BY <1>4, LastLine, Zenon
  <2> HIDE DEF last
  <2>2. DOMAIN inbox \subseteq Nat
    BY DEF TypeOK
  <2>3. inbox[last] \in Range(inbox)
    BY <2>1 DEF Range
  <2>4. transmitting' \/ inbox[last] = "unkeyed"
    BY <1>1, <1>4, <2>1
  <2>5. inbox[last] = "unkeyed" => ~EndsKeyed(inbox)
    <3> SUFFICES ASSUME inbox[last] = "unkeyed", NEW i \in DOMAIN inbox, inbox[i] = "keyed",
                        \A j \in DOMAIN inbox : j > i => inbox[j] # "unkeyed" PROVE FALSE
      BY DEF EndsKeyed
    <3>1. i <= last /\ i # last
      BY <2>1
    <3>2. last > i
      BY <3>1, <2>1, <2>2
    <3> QED
      BY <3>2, <2>1
  <2> QED
    BY <1>2, <2>3, <2>4, <2>5
<1> QED
  BY <1>3, <1>4

\* A line more is one more that was told; the key is down when it is the last word.
LEMMA LineAdded ==
  ASSUME inbox \in Seq(Lines), NEW ls \in Seq(Lines), Tells(ls), link
  PROVE  /\ Range(inbox') = Range(inbox) \cup Range(ls)
         /\ "unkeyed" \notin Range(ls) /\ EndsKeyed(inbox) => EndsKeyed(inbox')
         /\ ls = <<"keyed">> => EndsKeyed(inbox')
<1>1. inbox' = inbox \o ls
  BY DEF Tells
<1>2. /\ DOMAIN inbox = 1..Len(inbox) /\ Len(inbox) \in Nat /\ Len(ls) \in Nat /\ DOMAIN ls = 1..Len(ls)
      /\ DOMAIN (inbox \o ls) = 1..(Len(inbox) + Len(ls))
      /\ \A i \in 1..Len(inbox) : (inbox \o ls)[i] = inbox[i]
      /\ \A i \in 1..Len(ls) : (inbox \o ls)[Len(inbox) + i] = ls[i]
      /\ \A i \in 1..(Len(inbox) + Len(ls)) :
           i > Len(inbox) => i - Len(inbox) \in 1..Len(ls) /\ (inbox \o ls)[i] = ls[i - Len(inbox)]
      /\ \A i \in 1..Len(inbox) : i \in 1..(Len(inbox) + Len(ls))
      /\ \A i \in 1..Len(ls) : Len(inbox) + i \in 1..(Len(inbox) + Len(ls))
      /\ \A i \in 1..(Len(inbox) + Len(ls)) : i > Len(inbox) \/ i \in 1..Len(inbox)
  OBVIOUS
<1> DEFINE m == Len(inbox)  k == Len(ls)  in == inbox \o ls
<1>3. Range(in) = Range(inbox) \cup Range(ls)
  <2>1. ASSUME NEW x \in Range(in) PROVE x \in Range(inbox) \cup Range(ls)
    <3>1. PICK i \in DOMAIN in : x = in[i]
      BY DEF Range
    <3>2. CASE i > m
      BY <1>2, <3>1, <3>2 DEF Range
    <3>3. CASE ~(i > m)
      BY <1>2, <3>1, <3>3 DEF Range
    <3> QED
      BY <3>2, <3>3
  <2>2. ASSUME NEW i \in DOMAIN inbox PROVE inbox[i] \in Range(in)
    BY <1>2 DEF Range
  <2>3. ASSUME NEW i \in DOMAIN ls PROVE ls[i] \in Range(in)
    <3>1. m + i \in DOMAIN in /\ in[m + i] = ls[i]
      BY <1>2
    <3> QED
      BY <3>1 DEF Range
  <2> QED
    BY <2>1, <2>2, <2>3 DEF Range
<1>4. ASSUME "unkeyed" \notin Range(ls), EndsKeyed(inbox) PROVE EndsKeyed(in)
  <2>1. PICK i \in DOMAIN inbox :
          inbox[i] = "keyed" /\ \A j \in DOMAIN inbox : j > i => inbox[j] # "unkeyed"
    BY <1>4 DEF EndsKeyed
  <2>2. \A j \in DOMAIN in : j > i => in[j] # "unkeyed"
    BY <1>2, <1>4, <2>1 DEF Range
  <2>3. i \in DOMAIN in /\ in[i] = "keyed"
    BY <1>2, <2>1
  <2> QED
    BY <2>2, <2>3 DEF EndsKeyed
<1>5. ASSUME ls = <<"keyed">> PROVE EndsKeyed(in)
  <2>1. Len(ls) = 1 /\ ls[1] = "keyed"
    BY <1>5
  <2>2. m + 1 \in DOMAIN in /\ in[m + 1] = "keyed"
    BY <1>2, <2>1
  <2>3. \A j \in DOMAIN in : ~(j > m + 1)
    BY <1>2, <2>1
  <2> QED
    BY <2>2, <2>3 DEF EndsKeyed
<1> QED
  BY <1>1, <1>3, <1>4, <1>5

\* A step that changes nothing of it.
LEMMA Unchanged ==
  ASSUME Knows, UNCHANGED <<knowledge, inbox>>
  PROVE  Knows'
BY DEF knowledge, Knows, NothingQueued, Muted, CentreKnown, QueueKnown, KeyKnown, OwnKnown, Listens,
   Told, EndsKeyed

\* gone deaf

\* A loop that does not listen need not know anything.
LEMMA Deaf ==
  ASSUME ~Listens', NothingQueued', Muted'
  PROVE  Knows'
BY DEF Knows, CentreKnown, QueueKnown, KeyKnown, OwnKnown

\* What is queued and what was told stay: the loop goes from one place to another.
LEMMA Same ==
  ASSUME Knows, NothingQueued', Muted', (Listens' => Listens),
         UNCHANGED <<centre, keyed, inbox, air, freq, calHeld, transmitting, hold, discard, lock, aim,
                     swallowed>>
  PROVE  Knows'
BY DEF Knows, CentreKnown, QueueKnown, KeyKnown, OwnKnown, Told, EndsKeyed

\* A line that a command has read stays told, although the loop did not see it.
LEMMA KeysSwallowed ==
  ASSUME Knows, Swallow, UNCHANGED <<keyed, transmitting, hold>>, (Listens' => Listens),
         air' \in {air, <<>>}
  PROVE  KeyKnown' /\ OwnKnown' /\ Told' = Told
<1>1. Range(inbox') = {} /\ swallowed' = Told
  BY DEF Swallow, Told, Range
<1>2. EndsKeyed(inbox) => "keyed" \in Range(inbox)
  BY DEF EndsKeyed, Range
<1>3. air' = air \/ DOMAIN air' = {}
  OBVIOUS
<1> QED
  BY <1>1, <1>2, <1>3 DEF Knows, KeyKnown, OwnKnown, Told

\* The radio tells what it does: a move and the key always.
LEMMA RadioTells ==
  ASSUME AllOK, Knows, NEW ls \in Seq(Lines), Tells(ls),
         UNCHANGED <<link, air, state, pc, freq, calHeld, transmitting, hold, discard, lock, aim,
                     restore, swallowed>>,
         centre' = centre \/ "moved" \in Range(ls),
         \/ keyed' = keyed /\ "unkeyed" \notin Range(ls)
         \/ keyed' /\ ls = <<"keyed">>
         \/ ~keyed'
  PROVE  Knows'
<1>1. NothingQueued' /\ Muted'
  BY DEF Knows, NothingQueued, Muted
<1>2. CASE ~link
  BY <1>1, <1>2, Deaf DEF Listens
<1>3. CASE link
  <2>1. /\ Range(inbox') = Range(inbox) \cup Range(ls)
        /\ "unkeyed" \notin Range(ls) /\ EndsKeyed(inbox) => EndsKeyed(inbox')
        /\ ls = <<"keyed">> => EndsKeyed(inbox')
    BY <1>3, LineAdded DEF AllOK, QueuesOK
  <2>2. Told' = Told \cup Range(ls) /\ (Listens' <=> Listens)
    BY <2>1 DEF Told, Listens
  <2>3. CentreKnown'
    BY <2>2 DEF Knows, CentreKnown
  <2>4. QueueKnown'
    BY <2>2 DEF Knows, QueueKnown
  <2>5. KeyKnown'
    BY <2>1, <2>2 DEF Knows, KeyKnown
  <2>6. OwnKnown'
    BY <2>2 DEF Knows, OwnKnown
  <2> QED
    BY <1>1, <2>3, <2>4, <2>5, <2>6 DEF Knows
<1> QED
  BY <1>2, <1>3

\* A packet queued is taken where the loop knows our pan to be, or was told it is not.
LEMMA PacketSent ==
  ASSUME AllOK, IInv, Knows, Samples PROVE Knows'
<1>1. /\ air \in Seq(Packet) /\ Len(air) \in Nat
      /\ air' = Append(air, [at |-> centre, keyed |-> keyed])
      /\ UNCHANGED <<centre, keyed, inbox, link, state, pc, freq, calHeld, transmitting, hold, discard,
                     lock, aim, restore, swallowed>>
  BY DEF Samples, pan, onAir, copy, AllOK, QueuesOK
<1>2. /\ DOMAIN air' = 1..(Len(air) + 1) /\ DOMAIN air = 1..Len(air)
      /\ \A i \in 1..Len(air) : air'[i] = air[i]
      /\ air'[Len(air) + 1] = [at |-> centre, keyed |-> keyed]
      /\ \A i \in 1..(Len(air) + 1) : i \in 1..Len(air) \/ i = Len(air) + 1
  BY <1>1
<1>3. NothingQueued'
  <2>1. streams # 0
    BY DEF Samples, Sends, AllOK, RadioOK
  <2> QED
    BY <2>1, <1>1 DEF IInv, NoStreamYet, NothingQueued
<1>4. Muted' /\ CentreKnown' /\ KeyKnown' /\ (Listens' <=> Listens) /\ Told' = Told
  BY <1>1 DEF Knows, Muted, CentreKnown, KeyKnown, Listens, Told, EndsKeyed
<1>5. QueueKnown'
  <2> SUFFICES ASSUME Listens, "moved" \notin Told, ~calHeld, discard # Inf, NEW i \in DOMAIN air',
                      i > discard
               PROVE air'[i].at = freq
    BY <1>1, <1>4 DEF QueueKnown
  <2>1. CASE i \in DOMAIN air
    BY <1>2, <2>1 DEF Knows, QueueKnown
  <2>2. CASE i = Len(air) + 1
    <3>1. lock = "free"
      BY DEF Knows, Muted
    <3>2. centre = freq
      BY <3>1 DEF Knows, CentreKnown
    <3> QED
      BY <1>2, <2>2, <3>2
  <2> QED
    BY <1>2, <2>1, <2>2
<1>6. OwnKnown'
  <2> SUFFICES ASSUME Listens, "keyed" \notin Told, ~transmitting, NEW i \in DOMAIN air', air'[i].keyed
               PROVE i <= hold
    BY <1>1, <1>4 DEF OwnKnown
  <2>1. CASE i \in DOMAIN air
    BY <1>2, <2>1 DEF Knows, OwnKnown
  <2>2. CASE i = Len(air) + 1
    <3>1. keyed
      BY <1>2, <2>2
    <3>2. ~EndsKeyed(inbox)
      BY DEF EndsKeyed, Told, Range
    <3> QED
      BY <3>1, <3>2 DEF Knows, KeyKnown, Told
  <2> QED
    BY <1>2, <2>1, <2>2
<1> QED
  BY <1>3, <1>4, <1>5, <1>6 DEF Knows

\* What the radio does keeps the loop informed.
LEMMA RadioKnown ==
  ASSUME AllOK, IInv, Knows, Radio PROVE Knows'
<1> DEFINE rest == <<link, air, state, pc, freq, calHeld, transmitting, hold, discard, lock, aim,
                     restore, swallowed>>
<1>0. /\ \A l \in Lines : Range(<<l>>) = {l} /\ <<l>> \in Seq(Lines)
      /\ \A l \in Lines, k \in Lines : Range(<<l, k>>) = {l, k} /\ <<l, k>> \in Seq(Lines)
  BY DEF Range
<1>l. "cal_on" \in Lines /\ "cal_off" \in Lines /\ "moved" \in Lines /\ "keyed" \in Lines
      /\ "unkeyed" \in Lines /\ "station_left" \in Lines
  BY DEF Lines
<1>1. CASE Calibrates
  <2>1. UNCHANGED <<rest, keyed>> /\ \/ Tells(<<"cal_on", "moved">>)
                                     \/ Tells(<<"cal_on">>) /\ centre' = centre
    BY <1>1 DEF Calibrates, copy
  <2>2. CASE Tells(<<"cal_on", "moved">>)
    <3>1. "moved" \in Range(<<"cal_on", "moved">>) /\ "unkeyed" \notin Range(<<"cal_on", "moved">>)
          /\ <<"cal_on", "moved">> \in Seq(Lines)
      BY <1>0, <1>l
    <3> QED
      BY <2>1, <2>2, <3>1, RadioTells
  <2>3. CASE Tells(<<"cal_on">>) /\ centre' = centre
    BY <1>0, <1>l, <2>1, <2>3, RadioTells
  <2> QED
    BY <2>1, <2>2, <2>3
<1>2. CASE Calibrated \/ StationLeaves
  <2>1. UNCHANGED <<rest, keyed, centre>> /\ (Tells(<<"cal_off">>) \/ Tells(<<"station_left">>))
    BY <1>2 DEF Calibrated, StationLeaves, copy, pan, onAir
  <2> QED
    BY <1>0, <1>l, <2>1, RadioTells
<1>3. CASE OtherMoves
  <2>1. UNCHANGED <<rest, keyed>> /\ Tells(<<"moved">>)
    BY <1>3 DEF OtherMoves, copy, onAir
  <2> QED
    BY <1>0, <1>l, <2>1, RadioTells
<1>4. CASE Keys
  <2>1. UNCHANGED <<rest, centre>>
    BY <1>4 DEF Keys, copy, pan
  <2>2. \/ Tells(<<"keyed">>) /\ keyed' = TRUE
        \/ Tells(<<"unkeyed">>) /\ keyed' = FALSE
    BY <1>4 DEF Keys
  <2> QED
    BY <1>0, <1>l, <2>1, <2>2, RadioTells
<1>5. CASE StationReturns \/ Stalls
  <2>1. UNCHANGED <<knowledge, inbox>>
    BY <1>5 DEF StationReturns, Stalls, knowledge, pan, onAir, copy
  <2> QED
    BY <2>1, Unchanged
<1>6. CASE Outage
  <2>1. CASE link' = FALSE
    <3>1. ~Listens' /\ NothingQueued' /\ Muted'
      BY <1>6, <2>1 DEF Outage, Knows, NothingQueued, Muted, Listens, copy
    <3> QED
      BY <3>1, Deaf
  <2>2. CASE link' # FALSE
    <3>1. UNCHANGED <<knowledge, inbox>>
      BY <1>6, <2>2 DEF Outage, knowledge, pan, onAir, copy
    <3> QED
      BY <3>1, Unchanged
  <2> QED
    BY <2>1, <2>2
<1>7. CASE Samples
  BY <1>7, PacketSent
<1> QED
  BY <1>1, <1>2, <1>3, <1>4, <1>5, <1>6, <1>7 DEF Radio

\* Reading a move halts the copy, or mutes it for the calibration; reading the key
\* silences it, and key-up holds back what is queued.
LEMMA PollKnown ==
  ASSUME TypeOK, Knows, Poll PROVE Knows'
<1>1. InLoop /\ state = "live" /\ link /\ UNCHANGED <<centre, keyed, pc, freq, aim, restore, swallowed>>
  BY DEF Poll, onAir
<1>2. CASE Halts(TRUE)
  BY <1>1, <1>2, Deaf DEF Halts, Listens, NothingQueued, Muted, InLoop
<1>3. CASE ~Halts(TRUE)
  <2>1. /\ inbox' = <<>> /\ UNCHANGED <<state, lock, link, air>>
        /\ \/ calHeld' = TRUE /\ discard' = Inf
           \/ "moved" \notin Range(inbox) /\ UNCHANGED <<calHeld, discard>>
    BY <1>3 DEF Poll
  <2>2. Told' = swallowed /\ (Listens' <=> Listens) /\ Range(inbox') = {}
    BY <1>1, <2>1 DEF Told, Listens, Range
  <2>3. NothingQueued' /\ Muted'
    BY <1>1, <2>1 DEF Knows, NothingQueued, Muted, InLoop
  <2>4. CentreKnown' /\ QueueKnown'
    <3>1. CASE calHeld' = TRUE /\ discard' = Inf
      BY <1>1, <2>1, <3>1 DEF CentreKnown, QueueKnown, InLoop
    <3>2. CASE "moved" \notin Range(inbox) /\ UNCHANGED <<calHeld, discard>>
      BY <1>1, <2>1, <2>2, <3>2 DEF Knows, CentreKnown, QueueKnown, Told
    <3> QED
      BY <2>1, <3>1, <3>2
  <2>5. KeyKnown'
    BY <1>1, <2>1, <2>2, PollKeys DEF Knows, KeyKnown
  <2>6. OwnKnown'
    <3>1. hold' = hold \/ hold' = Len(air)
      BY DEF Poll
    <3>2. \A i \in DOMAIN air : i <= Len(air)
      BY DEF TypeOK
    <3> QED
      BY <1>1, <2>1, <2>2, <3>1, <3>2, PollKeys DEF Knows, OwnKnown, Told
  <2> QED
    BY <2>3, <2>4, <2>5, <2>6 DEF Knows
<1> QED
  BY <1>2, <1>3

\* A packet the decoders get was taken where they are told; what is queued moves up.
LEMMA ReadKnown ==
  ASSUME TypeOK, Knows, ReadPacket PROVE Knows' /\ heard' \subseteq {"held"}
<1>1. /\ pc = "loop" /\ Listens
      /\ UNCHANGED <<centre, keyed, link, inbox, state, pc, freq, calHeld, transmitting, lock, aim,
                     restore, swallowed>>
  BY DEF ReadPacket, Running, Listens, pan, onAir, change
<1>2. /\ air # <<>> /\ air' = Tail(air) /\ air \in Seq(Packet) /\ discard \in Nat /\ hold \in Nat
      /\ hold' = IF hold = 0 THEN 0 ELSE hold - 1
      /\ discard' = IF discard \in {0, Inf} THEN discard ELSE discard - 1
      /\ discard' = Inf => discard = Inf
  <2>1. discard \in 0..Inf /\ hold \in 0..MaxAir
    BY DEF TypeOK
  <2>2. discard' = IF discard \in {0, Inf} THEN discard ELSE discard - 1
    BY DEF ReadPacket
  <2>3. discard' = Inf => discard = Inf
    BY <2>1, <2>2, Numbers
  <2> QED
    BY <2>1, <2>2, <2>3, Numbers DEF ReadPacket, TypeOK
<1>3. /\ 1 \in DOMAIN air /\ Head(air) = air[1]
      /\ \A i \in DOMAIN air' : i \in Nat /\ i + 1 \in DOMAIN air /\ air'[i] = air[i + 1]
  BY <1>2
<1>4. Told' = Told /\ (Listens' <=> Listens)
  BY <1>1 DEF Told, Listens
<1>5. NothingQueued' /\ Muted' /\ CentreKnown' /\ KeyKnown'
  <2>1. NothingQueued' /\ CentreKnown' /\ KeyKnown'
    BY <1>1, <1>4 DEF Knows, NothingQueued, CentreKnown, KeyKnown, EndsKeyed
  <2>2. discard = Inf => discard' = Inf
    BY <1>2
  <2> QED
    BY <1>1, <1>2, <2>1, <2>2 DEF Knows, Muted
<1>6. QueueKnown'
  <2> SUFFICES ASSUME "moved" \notin Told, ~calHeld, discard' # Inf, NEW i \in DOMAIN air', i > discard'
               PROVE air'[i].at = freq
    BY <1>1, <1>4 DEF QueueKnown
  <2>1. discard # Inf /\ i + 1 > discard
    BY <1>2, <1>3
  <2> QED
    BY <1>1, <1>3, <2>1 DEF Knows, QueueKnown
<1>7. OwnKnown'
  <2> SUFFICES ASSUME "keyed" \notin Told, ~transmitting, NEW i \in DOMAIN air', air'[i].keyed
               PROVE i <= hold'
    BY <1>1, <1>4 DEF OwnKnown
  <2>1. i + 1 <= hold
    BY <1>1, <1>3 DEF Knows, OwnKnown
  <2> QED
    BY <1>2, <1>3, <2>1
<1>8. heard' \subseteq {"held"}
  <2>1. CASE discard # 0
    BY <2>1 DEF ReadPacket
  <2>2. CASE discard = 0
    <3>1. heard' = Hear(air[1])
      BY <1>3, <2>2 DEF ReadPacket
    <3>2. 1 > 0 /\ discard # Inf /\ (1 <= hold => hold > 0)
      BY <2>2, <1>2, Numbers
    <3>3. "moved" \notin Told /\ ~calHeld => air[1].at = freq
      BY <1>1, <1>3, <2>2, <3>2 DEF Knows, QueueKnown
    <3>4. "keyed" \notin Told /\ ~transmitting /\ air[1].keyed => hold > 0
      BY <1>1, <1>3, <3>2 DEF Knows, OwnKnown
    <3> QED
      BY <3>1, <3>3, <3>4 DEF Hear, Told, Faults
  <2> QED
    BY <2>1, <2>2
<1> QED
  BY <1>5, <1>6, <1>7, <1>8 DEF Knows

\* A change mutes the loop before it moves anything.
LEMMA ChangeKnown ==
  ASSUME TypeOK, IInv, Knows, LiveRetune \/ CalRestore \/ SetRx PROVE Knows'
<1>1. ASSUME NEW f, NEW ours, Retune(f, ours), ours => calHeld PROVE Knows'
  <2>1. /\ lock = "free" /\ lock' = "unlock" /\ discard' = Inf /\ restore' = ours
        /\ UNCHANGED <<centre, keyed, link, inbox, air, state, pc, freq, calHeld, transmitting, hold,
                       swallowed>>
    BY <1>1 DEF Retune, InLoop, pan, onAir, ears
  <2>2. (Listens' <=> Listens) /\ Told' = Told
    BY <2>1 DEF Listens, Told
  <2>3. NothingQueued' /\ Muted' /\ QueueKnown'
    BY <1>1, <2>1 DEF Knows, NothingQueued, Muted, QueueKnown
  <2>4. CentreKnown'
    BY <2>1, <2>2 DEF Knows, CentreKnown
  <2>5. KeyKnown' /\ OwnKnown'
    BY <2>1, <2>2 DEF Knows, KeyKnown, OwnKnown, EndsKeyed
  <2> QED
    BY <2>3, <2>4, <2>5 DEF Knows
<1>2. CASE SetRx
  <2>1. /\ Swallow
        /\ UNCHANGED <<centre, keyed, link, air, state, pc, freq, calHeld, transmitting, hold, discard,
                       lock, aim, restore>>
    BY <1>2 DEF SetRx, InLoop, pan, onAir, ears, change
  <2>2. Listens' <=> Listens
    BY <2>1 DEF Listens
  <2>3. KeyKnown' /\ OwnKnown' /\ Told' = Told
    BY <2>1, <2>2, KeysSwallowed
  <2> QED
    BY <2>1, <2>2, <2>3 DEF Knows, NothingQueued, Muted, CentreKnown, QueueKnown
<1> QED
  BY <1>1, <1>2 DEF LiveRetune, CalRestore

\* A change lets IQ through only when the pan is known to be where the copy says.
LEMMA TuneKnown ==
  ASSUME TypeOK, IInv, Knows, TuneStep \/ TuneEnds PROVE Knows'
<1>1. lock # "free" /\ pc' = pc /\ UNCHANGED <<keyed, transmitting, hold, aim, restore>>
  BY DEF TuneStep, TuneUnlock, TunePan, TuneSlice, Undo, TuneEnds, onAir, ears
<1>2. state = "live" /\ pc \in {"loop", "over"} /\ discard = Inf /\ (restore => calHeld)
  BY <1>1 DEF IInv, OneAtATime, Knows, Muted
<1>3. ASSUME state' = "halted" /\ lock' = "free" PROVE Knows'
  BY <1>1, <1>2, <1>3, Deaf DEF Listens, NothingQueued, Muted
<1>4. ASSUME Swallow, UNCHANGED <<state, link>>, air' \in {air, <<>>} 
      PROVE  (Listens' <=> Listens) /\ KeyKnown' /\ OwnKnown' /\ Told' = Told /\ NothingQueued'
  <2>1. Listens' <=> Listens
    BY <1>1, <1>4 DEF Listens
  <2> QED
    BY <1>1, <1>2, <1>4, <2>1, KeysSwallowed DEF NothingQueued
<1>5. CASE TuneStep
  <2>0. UNCHANGED <<discard, calHeld>>
    BY <1>5 DEF TuneStep, ears
  <2>1. \/ state' = "halted" /\ lock' = "free"
        \/ /\ Swallow /\ UNCHANGED <<state, link>> /\ air' \in {air, <<>>} /\ lock' # "free"
           /\ \/ lock = "unlock" /\ lock' \in {"pan", "failed"} /\ UNCHANGED <<centre, freq>>
              \/ lock = "pan" /\ lock' = "slice" /\ centre' = aim
              \/ lock = "pan" /\ lock' = "failed" /\ UNCHANGED <<centre, freq>>
              \/ lock' \in {"undo_pan", "undo_both"}
              \/ lock = "slice" /\ lock' = "done" /\ freq' = aim /\ UNCHANGED centre
              \/ lock' \in {"failed", "undo_slice"} /\ centre' = freq /\ UNCHANGED freq
              \/ lock = "undo_slice" /\ lock' = "failed" /\ UNCHANGED <<centre, freq>>
    <3>1. CASE TuneUnlock
      BY <3>1 DEF TuneUnlock, Goes
    <3>2. CASE TunePan
      BY <3>2 DEF TunePan, Goes
    <3>3. CASE TuneSlice
      BY <3>3 DEF TuneSlice, Goes
    <3>4. CASE Undo
      BY <3>4 DEF Undo, Goes, Halts
    <3> QED
      BY <1>5, <3>1, <3>2, <3>3, <3>4 DEF TuneStep
  <2>2. CASE state' = "halted" /\ lock' = "free"
    BY <1>3, <2>2
  <2>3. CASE ~(state' = "halted" /\ lock' = "free")
    <3>1. (Listens' <=> Listens) /\ KeyKnown' /\ OwnKnown' /\ Told' = Told /\ NothingQueued'
      BY <1>4, <2>1, <2>3
    <3>2. Muted' /\ QueueKnown'
      BY <1>1, <1>2, <2>0, <2>1, <2>3 DEF Knows, Muted, QueueKnown
    <3>3. CentreKnown'
      BY <1>1, <2>0, <2>1, <2>3, <3>1 DEF Knows, CentreKnown
    <3> QED
      BY <3>1, <3>2, <3>3 DEF Knows
  <2> QED
    BY <2>2, <2>3
<1>6. CASE TuneEnds
  <2>1. CASE state' = "halted" /\ lock' = "free"
    BY <1>3, <2>1
  <2>2. CASE ~(state' = "halted" /\ lock' = "free")
    <3>1. /\ lock' = "free" /\ Swallow /\ UNCHANGED <<centre, freq, state, link, air>>
      BY <1>6, <2>2 DEF TuneEnds, Goes, Halts
    <3>2. (Listens' <=> Listens) /\ KeyKnown' /\ OwnKnown' /\ Told' = Told /\ NothingQueued'
      BY <1>4, <3>1
    <3>3. \/ lock = "failed" /\ calHeld' = calHeld
          \/ lock = "done"
      BY <1>6 DEF TuneEnds
    <3>4. \/ discard' = Inf /\ lock = "failed" /\ restore
          \/ discard' = Len(air) /\ discard' # Inf
      BY <1>6, Numbers DEF TuneEnds, LetThrough, TypeOK
    <3>5. Muted'
      BY <1>2, <3>1, <3>3, <3>4 DEF Muted
    <3>6. CentreKnown'
      BY <3>1, <3>2, <3>3 DEF Knows, CentreKnown
    <3>7. QueueKnown'
      <4>1. \A i \in DOMAIN air : ~(i > Len(air))
        BY DEF TypeOK
      <4> QED
        BY <3>1, <3>4, <4>1 DEF QueueKnown
    <3> QED
      BY <3>2, <3>5, <3>6, <3>7 DEF Knows
  <2> QED
    BY <2>1, <2>2
<1> QED
  BY <1>5, <1>6

\* A recovery listens to what it made itself, or to the connection it kept.
LEMMA RecoveryKnown ==
  ASSUME TypeOK, IInv, Knows, RecoverStep PROVE Knows'
<1>1. UNCHANGED <<keyed, freq, calHeld, hold, discard, aim, restore>>
  BY DEF RecoverStep, onAir
<1>2. lock = "free" /\ lock' = "free"
  <2>1. CASE Lost
    BY <2>1 DEF Lost, InLoop, Recover, Halts
  <2>2. CASE ~Lost
    BY <2>2 DEF RecoverStep, AwaitRadio, Look, RemoveStream, CreateStream, Connect, Build, Moves, Fails,
       Again, Unconfirmed, Halts, IInv, OneAtATime
  <2> QED
    BY <2>1, <2>2
<1>3. Muted'
  <2>1. state = "halted" => state' = "halted"
    BY DEF RecoverStep, Lost, Recover, Over, AwaitRadio, Look, RemoveStream, CreateStream, Connect,
       Build, IInv, OneAtATime
  <2> QED
    BY <1>1, <1>2, <2>1 DEF Knows, Muted
<1>4. ASSUME state' = "halted", pc' \in {"loop", "over"} PROVE Knows'
  BY <1>4, <1>3, Deaf DEF Listens, NothingQueued
<1>5. ASSUME air' = <<>>, pc' \in {"await", "connect", "build"} PROVE Knows'
  BY <1>5, <1>3, Deaf DEF Listens, NothingQueued
<1>6. ASSUME UNCHANGED <<link, centre, inbox, air, transmitting, swallowed>>, pc \in {"loop", "await_same"},
             state # "halted" \/ UNCHANGED state, pc' \in {"over", "await_same", "look"}
      PROVE Knows'
  BY <1>1, <1>2, <1>3, <1>6, Same DEF Listens, NothingQueued
<1>7. ASSUME Swallow, UNCHANGED <<link, centre, transmitting>>, air' \in {air, <<>>},
             pc \in {"look", "remove", "create", "finish"}, pc' \in {"loop", "remove", "create"}
      PROVE Knows'
  <2>1. Listens' => Listens
    BY <1>7 DEF Listens, IInv, OneAtATime
  <2>2. KeyKnown' /\ OwnKnown' /\ Told' = Told
    BY <1>1, <1>7, <2>1, KeysSwallowed
  <2>3. CentreKnown' /\ NothingQueued'
    BY <1>1, <1>2, <1>7, <2>1, <2>2 DEF Knows, CentreKnown, NothingQueued
  <2>4. QueueKnown'
    BY <1>1, <1>7, <2>1, <2>2 DEF Knows, QueueKnown
  <2> QED
    BY <1>3, <2>2, <2>3, <2>4 DEF Knows
<1>8. CASE Lost
  <2>1. PICK kind \in {"link", "station", "stream"} : Recover(kind)
    BY <1>8 DEF Lost
  <2>2. pc = "loop" /\ UNCHANGED <<centre, transmitting, swallowed>>
    BY <1>8 DEF Lost, InLoop
  <2>3. \/ state' = "halted" /\ pc' = "loop"
        \/ air' = <<>> /\ pc' = "await"
        \/ UNCHANGED <<link, inbox, air>> /\ pc' \in {"over", "await_same"}
           /\ (state # "halted" \/ UNCHANGED state)
    BY <2>1, <2>2 DEF Recover, Over, Halts, Close
  <2> QED
    BY <1>4, <1>5, <1>6, <2>2, <2>3
<1>9. CASE AwaitRadio
  <2>1. \/ state' = "halted" /\ pc' = "over"
        \/ pc' = "connect" /\ (air' = <<>> \/ (pc = "await" /\ air' = air))
        \/ pc = "await_same" /\ UNCHANGED <<link, centre, inbox, air, transmitting, swallowed>>
           /\ pc' = "look" /\ UNCHANGED state
    BY <1>9 DEF AwaitRadio, Moves, Close, Halts
  <2>2. pc = "await" => air = <<>>
    BY DEF Knows, NothingQueued
  <2> QED
    BY <1>4, <1>5, <1>6, <2>1, <2>2
<1>10. CASE Look
  <2>1. \/ air' = <<>> /\ pc' = "connect"
        \/ Swallow /\ UNCHANGED <<link, centre, transmitting>> /\ air' = air /\ pc = "look"
           /\ pc' \in {"loop", "remove"}
    BY <1>10 DEF Look, Moves, Close
  <2> QED
    BY <1>5, <1>7, <2>1
<1>11. CASE RemoveStream \/ CreateStream
  <2>1. \/ state' = "halted" /\ pc' = "over"
        \/ air' = <<>> /\ pc' = "await"
        \/ /\ Swallow /\ UNCHANGED <<link, centre, transmitting>> /\ air' \in {air, <<>>}
           /\ pc \in {"remove", "create", "finish"} /\ pc' \in {"loop", "create"}
    BY <1>11 DEF RemoveStream, CreateStream, Moves, Fails, Again, Unconfirmed, Close, Halts
  <2> QED
    BY <1>4, <1>5, <1>7, <2>1
<1>12. CASE Connect
  <2>1. \/ state' = "halted" /\ pc' = "over"
        \/ air' = <<>> /\ pc' = "await"
        \/ pc = "connect" /\ pc' = "build" /\ air' = air
    BY <1>12 DEF Connect, Moves, Fails, Again, Close, Halts
  <2>2. pc = "connect" => air = <<>>
    BY DEF Knows, NothingQueued
  <2> QED
    BY <1>4, <1>5, <2>1, <2>2
<1>13. CASE Build
  <2>1. \/ state' = "halted" /\ pc' = "over"
        \/ air' = <<>> /\ pc' = "await"
        \/ /\ air' = air /\ pc' = "finish" /\ centre' = freq /\ (keyed => "keyed" \in swallowed')
    BY <1>13 DEF Build, Moves, Fails, Again, Close, Halts
  <2>2. air = <<>> /\ DOMAIN <<>> = {}
    BY <1>13 DEF Build, Knows, NothingQueued
  <2>3. ASSUME air' = air, pc' = "finish", centre' = freq, keyed => "keyed" \in swallowed' PROVE Knows'
    BY <1>1, <1>2, <1>3, <2>2, <2>3 DEF Knows, NothingQueued, CentreKnown, QueueKnown, KeyKnown, OwnKnown
  <2> QED
    BY <1>4, <1>5, <2>1, <2>3
<1> QED
  BY <1>8, <1>9, <1>10, <1>11, <1>12, <1>13 DEF RecoverStep

\* Time and the stop teach the loop nothing.
LEMMA EndKnown ==
  ASSUME Knows, Forget \/ Stop \/ StopRemoves \/ LoopEnds PROVE Knows'
<1>1. CASE Forget \/ Stop
  <2>1. UNCHANGED <<knowledge, inbox>>
    BY <1>1 DEF Forget, Stop, knowledge, pan, onAir, ears, change
  <2> QED
    BY <2>1, Unchanged
<1>2. CASE StopRemoves
  <2>1. ~Listens' /\ NothingQueued' /\ Muted'
    BY <1>2 DEF StopRemoves, Close, Listens, NothingQueued, Knows, Muted, ears, change
  <2> QED
    BY <2>1, Deaf
<1>3. CASE LoopEnds
  <2>1. UNCHANGED <<centre, keyed, link, inbox, air, state, freq, calHeld, transmitting, hold, discard,
                    lock, aim, restore, swallowed>>
        /\ pc = "loop" /\ pc' = "over"
    BY <1>3 DEF LoopEnds, pan, onAir, ears, change
  <2> QED
    BY <2>1, Same DEF Listens, NothingQueued, Muted, Knows
<1> QED
  BY <1>1, <1>2, <1>3

\* A copy starts on its frequency, with nothing queued.
LEMMA InitKnows == Init => Knows
<1> SUFFICES ASSUME Init PROVE Knows
  OBVIOUS
<1>1. air = <<>> /\ discard # Inf /\ DOMAIN <<>> = {}
  BY Numbers DEF Init
<1>2. centre = freq /\ ~keyed /\ lock = "free" /\ pc = "loop"
  BY DEF Init
<1> QED
  BY <1>1, <1>2 DEF Knows, NothingQueued, Muted, CentreKnown, QueueKnown, KeyKnown, OwnKnown

\* Every step keeps the loop informed, and lets the decoders hear no more than that.
LEMMA HeardStep ==
  ASSUME TypeOK, IInv, Knows, HeardAsTold, [Next]_vars PROVE Knows' /\ HeardAsTold'
<1>1. Knows'
  <2>1. CASE UNCHANGED vars
    BY <2>1, Unchanged DEF vars, knowledge
  <2>2. CASE Next
    BY <2>2, Parts, RadioKnown, PollKnown, ReadKnown, ChangeKnown, TuneKnown, RecoveryKnown, EndKnown
       DEF Next, Copy
  <2> QED
    BY <2>1, <2>2
<1>2. HeardAsTold'
  <2>1. CASE ReadPacket
    BY <2>1, ReadKnown DEF HeardAsTold
  <2>2. CASE ~ReadPacket
    <3>1. heard' = heard
      BY <2>2 DEF Next, Radio, Copy, vars, Calibrates, Calibrated, OtherMoves, Keys, StationLeaves,
         StationReturns, Stalls, Outage, Samples, copy,
        Poll, LiveRetune, CalRestore, SetRx, Retune, TuneStep, TuneEnds, RecoverStep, Forget, Stop,
        StopRemoves, LoopEnds
    <3> QED
      BY <3>1 DEF HeardAsTold
  <2> QED
    BY <2>1, <2>2
<1> QED
  BY <1>1, <1>2

\* The decoders get no packet taken off the frequency the copy names, and none of
\* our own transmission unsilenced, once the loop has read what the radio said of
\* it: through retunes and their undoing, calibration, recoveries, and packets
\* queued before any of them (receive, _poll, _discard_until).
THEOREM DecodersHearAsTold == Spec => []HeardAsTold
<1>1. Init => Knows /\ HeardAsTold
  BY InitKnows DEF Init, HeardAsTold
<1>2. TypeOK /\ IInv /\ Knows /\ HeardAsTold /\ [Next]_vars => Knows' /\ HeardAsTold'
  BY HeardStep
<1> QED
  BY <1>1, <1>2, Types, Invariance, PTL DEF Spec
=============================================================================
