---------------------------- MODULE FlexReceiver ----------------------------
(***************************************************************************)
(* One band's DAX-IQ receiver on a FlexRadio (FlexIQReceiver of            *)
(* flex_iq.py): the receive loop, which reads the radio's status lines and *)
(* the IQ packets and recovers from losses, and the live changes (retune,  *)
(* set_rx) that other threads make on the same control connection.         *)
(*                                                                         *)
(* The radio is external: it is modelled from what the code and            *)
(* tests/flex_fake_radio.py rely on.  It sends a status line of every      *)
(* change; whoever reads the connection next gets the lines, the loop's    *)
(* _poll or a command that waits for its reply.                            *)
(*                                                                         *)
(* Left out: the receive path (antenna, loops, RF gain), of which set_rx   *)
(* keeps the commands only; slices, which go with their pan; addresses;    *)
(* other copies.  A copy starts live: a first start that fails ends the    *)
(* process.  A packet queued when IQ is let through again, or when the key *)
(* is up, is read within RETUNE_SETTLE_S, or within TX_HOLD_S.             *)
(***************************************************************************)
EXTENDS Integers, Sequences, FiniteSets, Functions

CONSTANTS
  Freqs,          \* the centres a copy may be tuned to
  Elsewhere,      \* where calibration or another client takes the pan
  LOSS_BUDGET,
  Events,         \* the kinds of event that may befall the radio
  Changes,        \* the live changes: "retune", "rx"
  MaxEvents,      \* bound: events
  MaxStations,    \* bound: registrations of the station
  MaxAir          \* bound: packets queued

Kinds == {"calibrates", "moved", "keys", "station_leaves", "stalls", "outage", "refuses", "silent"}
Lines == {"cal_on", "cal_off", "moved", "keyed", "unkeyed", "station_left"}
Inf == MaxAir + 1    \* float('inf') of _discard_until

ASSUME FlexReceiverAssumption ==
  /\ Freqs # {} /\ Elsewhere \notin Freqs
  /\ {LOSS_BUDGET, MaxEvents, MaxAir} \subseteq Nat /\ MaxStations \in Nat \ {0}
  /\ Events \subseteq Kinds /\ Changes \subseteq {"retune", "rx"}

VARIABLES
  \* the radio
  centre,       \* where our pan is
  panOf,        \* the station that has our pan, 0 when there is none
  streams,      \* the DAX-IQ streams of our connection
  flowing,      \* it sends IQ on ours
  cal, keyed,   \* it calibrates; it transmits
  station,      \* the station registered, 0 for none
  stations,     \* registrations so far
  answers,      \* it answers
  link,         \* our connection is up
  inbox,        \* status lines on our connection, not read yet
  air,          \* IQ packets in our socket: where and when each was taken
  \* the copy
  state,        \* "live", "reconnecting" or "halted"
  pc,           \* the receive loop: "loop", or where its _recover is
  freq,         \* freq_mhz
  bound,        \* _station_handle
  stationLost, calibrating, calHeld,
  transmitting, \* _tx_since is set
  hold,         \* packets queued at key-up: TX_HOLD_S
  discard,      \* packets _discard_until still drops, or Inf
  losses,       \* of the budget, in the last LOSS_WINDOW_S
  lock,         \* where the change of the receiver under _lock is
  aim, restore, \* where it goes; it is _cal_restore's
  stopping,
  \* observers
  heard,        \* what was wrong with the last packet the decoders got
  swallowed,    \* the lines a command has read, which nobody looks at
  events

vars == <<centre, panOf, streams, flowing, cal, keyed, station, stations, answers, link, inbox, air,
          state, pc, freq, bound, stationLost, calibrating, calHeld, transmitting, hold, discard,
          losses, lock, aim, restore, stopping, heard, swallowed, events>>

\* What the two kinds of step leave alone.
pan == <<centre, panOf, streams, flowing>>
onAir == <<cal, keyed>>
registry == <<station, stations>>
copy == <<state, pc, freq, bound, stationLost, calibrating, calHeld, transmitting, hold, discard,
          losses, lock, aim, restore, stopping, heard, swallowed>>
ears == <<stationLost, calibrating, calHeld, transmitting, hold>>
change == <<lock, aim, restore>>

Packet == [at : Freqs \cup {Elsewhere}, keyed : BOOLEAN]
Faults == {"off_frequency", "held", "own_transmission"}

TypeOK ==
  /\ centre \in Freqs \cup {Elsewhere} /\ panOf \in 0..MaxStations
  /\ streams \in Nat /\ {flowing, cal, keyed, link, answers} \subseteq BOOLEAN
  /\ stations \in 1..MaxStations /\ station \in {0, stations}
  /\ inbox \in Seq(Lines) /\ air \in Seq(Packet) /\ Len(air) <= MaxAir
  /\ state \in {"live", "reconnecting", "halted"}
  /\ pc \in {"loop", "await_same", "look", "remove", "create", "await", "connect", "build", "finish", "over"}
  /\ freq \in Freqs /\ aim \in Freqs /\ bound \in 1..MaxStations
  /\ {stationLost, calibrating, calHeld, transmitting, restore, stopping} \subseteq BOOLEAN
  /\ hold \in 0..MaxAir /\ discard \in 0..Inf /\ losses \in 0..LOSS_BUDGET
  /\ lock \in {"free", "unlock", "pan", "slice", "undo_pan", "undo_both", "undo_slice", "done", "failed"}
  /\ heard \subseteq Faults /\ swallowed \subseteq Lines /\ events \in 0..MaxEvents

Init ==
  /\ centre \in Freqs /\ freq = centre /\ aim = centre
  /\ station = 1 /\ stations = 1 /\ bound = 1 /\ panOf = 1 /\ streams = 1
  /\ flowing = TRUE /\ cal = FALSE /\ keyed = FALSE /\ link = TRUE /\ answers = TRUE
  /\ inbox = <<>> /\ air = <<>>
  /\ state = "live" /\ pc = "loop"
  /\ stationLost = FALSE /\ calibrating = FALSE /\ calHeld = FALSE /\ transmitting = FALSE
  /\ hold = 0 /\ discard = 0 /\ losses = 0 /\ lock = "free" /\ restore = FALSE /\ stopping = FALSE
  /\ heard = {} /\ swallowed = {} /\ events = 0

-----------------------------------------------------------------------------
(* The radio.                                                              *)

Event(k) == k \in Events /\ events < MaxEvents /\ events' = events + 1
Tells(lines) == inbox' = IF link THEN inbox \o lines ELSE inbox

\* It calibrates its frequency (pll_done=0), and may take our pan for it.
Calibrates ==
  /\ Event("calibrates") /\ ~cal /\ cal' = TRUE
  /\ \/ /\ panOf # 0 /\ centre' = Elsewhere
        /\ Tells(<<"cal_on", "moved">>)
     \/ /\ centre' = centre
        /\ Tells(<<"cal_on">>)
  /\ UNCHANGED <<panOf, streams, flowing, keyed, registry, answers, link, air, copy>>

Calibrated ==
  /\ cal /\ cal' = FALSE /\ Tells(<<"cal_off">>)
  /\ UNCHANGED <<pan, keyed, registry, answers, link, air, copy, events>>

\* Another client moves our pan.
OtherMoves ==
  /\ Event("moved") /\ panOf # 0 /\ ~cal
  /\ centre' = Elsewhere /\ Tells(<<"moved">>)
  /\ UNCHANGED <<panOf, streams, flowing, onAir, registry, answers, link, air, copy>>

Keys ==
  /\ \/ Event("keys") /\ ~keyed /\ keyed' = TRUE /\ Tells(<<"keyed">>)
     \/ keyed /\ keyed' = FALSE /\ Tells(<<"unkeyed">>) /\ UNCHANGED events
  /\ UNCHANGED <<pan, cal, registry, answers, link, air, copy>>

\* The station's connection goes: the radio takes its pans with it.
StationLeaves ==
  /\ Event("station_leaves") /\ station # 0
  /\ station' = 0 /\ flowing' = FALSE
  /\ panOf' = IF panOf = station THEN 0 ELSE panOf
  /\ Tells(<<"station_left">>)
  /\ UNCHANGED <<centre, streams, onAir, stations, answers, link, air, copy>>

\* Some process registers it again.
StationReturns ==
  /\ station = 0 /\ answers /\ stations < MaxStations
  /\ stations' = stations + 1 /\ station' = stations'
  /\ UNCHANGED <<pan, onAir, answers, link, inbox, air, copy, events>>

\* IQ stops, and may come back by itself.
Stalls ==
  /\ \/ Event("stalls") /\ flowing /\ flowing' = FALSE
     \/ ~flowing /\ streams > 0 /\ panOf # 0 /\ flowing' = TRUE /\ UNCHANGED events
  /\ UNCHANGED <<centre, panOf, streams, onAir, registry, answers, link, inbox, air, copy>>

\* An outage: the radio does not answer; it may drop us, and it may come back.
Outage ==
  /\ \/ Event("outage") /\ answers /\ answers' = FALSE /\ UNCHANGED <<link, streams, inbox>>
     \/ ~answers /\ answers' = TRUE /\ UNCHANGED <<link, streams, inbox, events>>
     \/ /\ ~answers /\ link
        /\ link' = FALSE /\ streams' = 0 /\ inbox' = <<>> /\ UNCHANGED <<answers, events>>
  /\ UNCHANGED <<centre, panOf, flowing, onAir, registry, air, copy>>

Sends == streams > 0 /\ flowing /\ answers /\ panOf # 0 /\ ~cal

\* It sends a packet; none while it calibrates.
Samples ==
  /\ Sends /\ Len(air) < MaxAir
  /\ air' = Append(air, [at |-> centre, keyed |-> keyed])
  /\ UNCHANGED <<pan, onAir, registry, answers, link, inbox, copy, events>>

Radio ==
  \/ Calibrates \/ Calibrated \/ OtherMoves \/ Keys \/ StationLeaves \/ StationReturns
  \/ Stalls \/ Outage \/ Samples

-----------------------------------------------------------------------------
(* Commands.  One that waits for its reply reads every line before it.     *)

\* The reply to a command the radio can follow when possible holds.
Reply(r, possible) ==
  LET reached == answers /\ link
  IN \/ r = "ok" /\ reached /\ possible /\ UNCHANGED events
     \/ r = "refused" /\ reached /\ ~possible /\ UNCHANGED events
     \/ r = "refused" /\ reached /\ possible /\ Event("refuses")
     \/ r = "none" /\ ~reached /\ UNCHANGED events
     \/ r = "none" /\ reached /\ Event("silent")

Swallow == swallowed' = swallowed \cup Range(inbox) /\ inbox' = <<>>

\* Closing the connection takes its streams; a later stream has another id.
Close == link' = FALSE /\ streams' = 0 /\ inbox' = <<>> /\ air' = <<>>

\* Leave the radio alone: our objects go if it still hears us.
Halts(alive) ==
  /\ state' = "halted" /\ lock' = "free" /\ Close
  /\ panOf' = IF alive /\ link /\ answers /\ panOf = bound THEN 0 ELSE panOf

-----------------------------------------------------------------------------
(* The receive loop.                                                       *)

InLoop == pc = "loop" /\ lock = "free"
Running == state = "live" /\ ~stopping

Poll ==
  LET told == Range(inbox)
      last(on, off) == CHOOSE i \in DOMAIN inbox :
        inbox[i] \in {on, off} /\ \A j \in DOMAIN inbox : inbox[j] \in {on, off} => j <= i
      flag(on, off, was) == IF {on, off} \cap told = {} THEN was ELSE inbox[last(on, off)] = on
  IN
  /\ InLoop /\ state = "live" /\ link /\ inbox # <<>> /\ pc # "over"
  /\ transmitting' = flag("keyed", "unkeyed", transmitting)
  /\ hold' = IF transmitting' \/ "unkeyed" \notin told THEN hold ELSE Len(air)
  /\ stationLost' = (stationLost \/ "station_left" \in told)
  /\ calibrating' = flag("cal_on", "cal_off", calibrating)
  /\ \/ /\ "moved" \in told /\ ~calibrating' /\ ~calHeld
        /\ Halts(TRUE)
        /\ UNCHANGED <<calHeld, discard>>
     \/ /\ "moved" \in told /\ (calibrating' \/ calHeld)
        /\ calHeld' = TRUE /\ discard' = Inf /\ inbox' = <<>>
        /\ UNCHANGED <<state, lock, link, streams, panOf, air>>
     \/ /\ "moved" \notin told
        /\ inbox' = <<>>
        /\ UNCHANGED <<calHeld, discard, state, lock, link, streams, panOf, air>>
  /\ UNCHANGED <<centre, flowing, onAir, registry, answers, pc, freq, bound, losses, aim, restore,
                 stopping, heard, swallowed, events>>

\* A packet taken now, and what the loop does not know of it yet.
Hear(p) ==
  LET untold == Range(inbox) \cup swallowed
      silent == transmitting \/ hold > 0
  IN {f \in Faults :
        \/ f = (IF calHeld THEN "held" ELSE "off_frequency") /\ p.at # freq /\ "moved" \notin untold
        \/ f = "own_transmission" /\ p.keyed /\ ~silent /\ "keyed" \notin untold}

\* Not under the lock; a connection that has gone is noticed first.
ReadPacket ==
  /\ pc = "loop" /\ Running /\ link /\ air # <<>>
  /\ air' = Tail(air)
  /\ heard' = IF discard = 0 THEN Hear(Head(air)) ELSE {}
  /\ discard' = IF discard \in {0, Inf} THEN discard ELSE discard - 1
  /\ hold' = IF hold = 0 THEN 0 ELSE hold - 1
  /\ UNCHANGED <<pan, onAir, registry, answers, link, inbox, state, pc, freq, bound, stationLost,
                 calibrating, calHeld, transmitting, losses, change, stopping, swallowed, events>>

-----------------------------------------------------------------------------
(* Live changes, one at a time under the lock.                             *)

Retune(f, ours) ==
  /\ InLoop /\ state = "live" /\ link
  /\ lock' = "unlock" /\ aim' = f /\ restore' = ours /\ discard' = Inf
  /\ UNCHANGED <<pan, onAir, registry, answers, link, inbox, air, state, pc, freq, bound, ears,
                 losses, stopping, heard, swallowed, events>>

LiveRetune == "retune" \in Changes /\ \E f \in Freqs \ {freq} : Retune(f, FALSE)

\* The radio has finished calibrating: back to our frequency.
CalRestore == ~stopping /\ calHeld /\ ~calibrating /\ Retune(freq, TRUE)

\* The receive path, and what was there before when the radio refuses.
SetRx ==
  /\ "rx" \in Changes /\ InLoop /\ state = "live" /\ link /\ inbox # <<>>
  /\ Swallow
  /\ UNCHANGED <<pan, onAir, registry, answers, link, air, state, pc, freq, bound, ears, discard,
                 losses, change, stopping, heard, events>>

Goes(to) == lock' = to /\ UNCHANGED <<state, link, streams, panOf, air>> /\ Swallow
Ours == panOf = bound

TuneUnlock ==
  /\ lock = "unlock"
  /\ \E r \in {"ok", "refused", "none"} :
       /\ Reply(r, Ours)
       /\ Goes(IF r = "ok" THEN "pan" ELSE "failed")
  /\ UNCHANGED <<centre, freq>>

\* A refusal moved nothing; no reply may have.
TunePan ==
  /\ lock = "pan"
  /\ \E r \in {"ok", "refused", "none"} :
       /\ Reply(r, Ours)
       /\ Goes(CASE r = "ok" -> "slice" [] r = "refused" -> "failed" [] r = "none" -> "undo_pan")
       /\ centre' \in CASE r = "ok" -> {aim} [] r = "refused" -> {centre} [] r = "none" -> {centre, aim}
  /\ UNCHANGED freq

TuneSlice ==
  /\ lock = "slice"
  /\ \E r \in {"ok", "refused", "none"} :
       /\ Reply(r, Ours)
       /\ \/ /\ r = "ok" /\ freq' = aim /\ air' = <<>> /\ lock' = "done" /\ Swallow
             /\ UNCHANGED <<state, link, streams, panOf>>
          \/ /\ r # "ok" /\ UNCHANGED freq
             /\ Goes(IF r = "refused" THEN "undo_pan" ELSE "undo_both")
  /\ UNCHANGED centre

\* Back where we were; unconfirmed, the copy halts.
Undo ==
  /\ lock \in {"undo_pan", "undo_both", "undo_slice"}
  /\ \E r \in {"ok", "refused", "none"} :
       /\ Reply(r, Ours)
       /\ \/ /\ r = "ok" /\ centre' = IF lock = "undo_slice" THEN centre ELSE freq
             /\ Goes(IF lock = "undo_both" THEN "undo_slice" ELSE "failed")
          \/ r # "ok" /\ Halts(TRUE) /\ UNCHANGED <<centre, swallowed>>
  /\ UNCHANGED freq

TuneStep ==
  /\ TuneUnlock \/ TunePan \/ TuneSlice \/ Undo
  /\ UNCHANGED <<flowing, onAir, registry, answers, pc, bound, ears, discard, losses, aim, restore,
                 stopping, heard>>

LetThroughAtOnce == 0                                            \* mutant
LetThroughNever == Inf                                           \* mutant

\* What _discard_until drops after a change: what is queued, or all until the next try.
LetThrough == IF restore /\ lock = "failed" THEN Inf ELSE Len(air)

\* The slice is locked again.  _cal_restore keeps trying for CAL_RESTORE_S.
TuneEnds ==
  /\ lock \in {"done", "failed"}
  /\ \/ Goes("free")
     \/ restore /\ lock = "failed" /\ Halts(TRUE) /\ UNCHANGED swallowed
  /\ discard' = LetThrough
  /\ calHeld' = IF restore /\ lock = "done" THEN FALSE ELSE calHeld
  /\ UNCHANGED <<centre, flowing, onAir, registry, answers, pc, freq, bound, stationLost, calibrating,
                 transmitting, hold, losses, aim, restore, stopping, heard, events>>

-----------------------------------------------------------------------------
(* Losses.                                                                 *)

OverIfStopped == stopping                                        \* mutant
Over == stopping \/ state = "halted"

SpentTooLate == losses > LOSS_BUDGET                             \* mutant
Spent == losses = LOSS_BUDGET

Recover(kind) ==
  \/ /\ Over
     /\ pc' = "over"
     /\ UNCHANGED <<state, losses, link, streams, inbox, air, lock, panOf>>
  \/ /\ ~Over /\ Spent
     /\ Halts(kind = "stream") /\ UNCHANGED <<pc, losses>>
  \/ /\ ~Over /\ ~Spent
     /\ losses' = losses + 1 /\ state' = "reconnecting"
     /\ \/ kind = "stream" /\ pc' = "await_same" /\ UNCHANGED <<link, streams, inbox, air>>
        \/ kind # "stream" /\ pc' = "await" /\ Close
     /\ UNCHANGED <<lock, panOf>>

\* No packet for STALL_S; none is expected while calibration holds the pan.
Lost ==
  /\ InLoop
  /\ \/ state = "live" /\ ~link /\ Recover("link")
     \/ (link \/ state = "halted") /\ stationLost /\ Recover("station")
     \/ state = "live" /\ link /\ ~stationLost /\ ~calHeld /\ ~Sends /\ air = <<>> /\ Recover("stream")
  /\ UNCHANGED <<centre, flowing, registry, bound, stationLost, calibrating, transmitting, swallowed, events>>

\* The radio is not ready: close, and wait for it again; or it refused.
Again == Close /\ pc' = "await" /\ UNCHANGED <<state, lock, panOf>>
Fails == Halts(TRUE) /\ pc' = "over"
Moves(to) == pc' = to /\ UNCHANGED <<state, lock>>

GivesUpIfStopped == stopping                                     \* mutant
GivesUp == ~answers \/ stopping

AwaitRadio ==
  /\ pc \in {"await_same", "await"}
  /\ \/ /\ answers /\ ~stopping
        /\ \/ pc = "await" /\ Moves("connect") /\ UNCHANGED <<link, streams, inbox, air>>
           \/ pc = "await_same" /\ link /\ Moves("look") /\ UNCHANGED <<link, streams, inbox, air>>
           \/ pc = "await_same" /\ ~link /\ Moves("connect") /\ Close
        /\ UNCHANGED panOf
     \/ GivesUp /\ Halts(FALSE) /\ pc' = "over"
  /\ UNCHANGED <<centre, flowing, registry, bound, stationLost, calibrating, transmitting, losses,
                 swallowed, events>>

\* Our station may have registered again meanwhile; our stream may have resumed.
Look ==
  /\ pc = "look"
  /\ \/ /\ link /\ answers /\ station = bound /\ Swallow
        /\ \/ Sends /\ state' = "live" /\ pc' = "loop" /\ UNCHANGED lock
           \/ Moves("remove")
        /\ UNCHANGED <<link, streams, air>>
     \/ /\ ~(link /\ answers /\ station = bound)
        /\ Close /\ Moves("connect") /\ UNCHANGED swallowed
  /\ UNCHANGED <<centre, panOf, flowing, registry, bound, stationLost, calibrating, transmitting, losses, events>>

UnconfirmedMoves == Moves("create") /\ UNCHANGED <<link, streams, inbox, air, panOf>>   \* mutant
Unconfirmed == Again

\* The stalled stream is confirmed gone before another is made.
RemoveStream ==
  /\ pc = "remove"
  /\ \E r \in {"ok", "refused", "none"} :
       /\ Reply(r, TRUE)
       /\ \/ /\ r = "ok" /\ streams' = (IF streams = 0 THEN 0 ELSE streams - 1)
             /\ Swallow /\ Moves("create") /\ UNCHANGED <<link, air, panOf>>
          \/ r = "refused" /\ Fails /\ UNCHANGED swallowed
          \/ r = "none" /\ Unconfirmed /\ UNCHANGED swallowed
  /\ UNCHANGED <<centre, flowing, registry, bound, stationLost, calibrating, transmitting, losses>>

CreateStream ==
  /\ pc \in {"create", "finish"}
  /\ \E r \in {"ok", "refused", "none"} :
       /\ Reply(r, Ours)
       /\ \/ /\ r = "ok" /\ streams' = streams + 1 /\ flowing' = TRUE /\ air' = <<>>
             /\ Swallow /\ state' = "live" /\ pc' = "loop" /\ UNCHANGED <<link, lock, panOf>>
          \/ r = "refused" /\ Fails /\ UNCHANGED <<flowing, swallowed>>
          \/ r = "none" /\ Again /\ UNCHANGED <<flowing, swallowed>>
  /\ UNCHANGED <<centre, registry, bound, stationLost, calibrating, transmitting, losses>>

\* A new connection: the station is found, waited for or taken over, and bound.
Connect ==
  /\ pc = "connect"
  /\ stationLost' = FALSE /\ transmitting' = FALSE
  /\ \/ /\ answers /\ link' = TRUE /\ Moves("build")
        /\ \/ station # 0 /\ UNCHANGED registry
           \/ station = 0 /\ stations < MaxStations /\ stations' = stations + 1 /\ station' = stations'
        /\ bound' = station'
        /\ UNCHANGED <<streams, inbox, air, panOf, events>>
     \/ /\ ~answers \/ station = 0
        /\ Fails /\ UNCHANGED <<registry, bound, events>>
     \/ answers /\ Event("refuses") /\ Fails /\ UNCHANGED <<registry, bound>>
     \/ ~answers /\ Again /\ UNCHANGED <<registry, bound, events>>
     \/ answers /\ Event("silent") /\ Again /\ UNCHANGED <<registry, bound>>
  /\ UNCHANGED <<centre, flowing, calibrating, losses, swallowed>>

\* Our pan; what is left of the old one goes.  Of the status it asks for, _build
\* looks at the calibration but not at the interlock.
Build ==
  /\ pc = "build"
  /\ \E r \in {"ok", "refused", "none"} :
       /\ Reply(r, station = bound)
       /\ \/ /\ r = "ok" /\ panOf' = bound /\ centre' = freq /\ calibrating' = cal
             /\ swallowed' = swallowed \cup (Range(inbox) \ {"cal_on", "cal_off"})
                               \cup (IF keyed THEN {"keyed"} ELSE {})
             /\ inbox' = <<>> /\ Moves("finish") /\ UNCHANGED <<link, streams, air>>
          \/ r = "refused" /\ Fails /\ UNCHANGED <<centre, calibrating, swallowed>>
          \/ r = "none" /\ Again /\ UNCHANGED <<centre, calibrating, swallowed>>
  /\ UNCHANGED <<flowing, registry, bound, stationLost, transmitting, losses>>

RecoverStep ==
  /\ Lost \/ AwaitRadio \/ Look \/ RemoveStream \/ CreateStream \/ Connect \/ Build
  /\ UNCHANGED <<onAir, answers, freq, calHeld, hold, discard, aim, restore, stopping, heard>>

\* LOSS_WINDOW_S passes.
Forget ==
  /\ losses > 0 /\ losses' = losses - 1
  /\ UNCHANGED <<pan, onAir, registry, answers, link, inbox, air, state, pc, freq, bound, ears, discard,
                 change, stopping, heard, swallowed, events>>

\* stop(), and its removal once the loop and every change have let go.
Stop ==
  /\ ~stopping /\ stopping' = TRUE
  /\ UNCHANGED <<pan, onAir, registry, answers, link, inbox, air, state, pc, freq, bound, ears, discard,
                 losses, change, heard, swallowed, events>>

StopRemoves ==
  /\ stopping /\ lock = "free" /\ pc \in {"loop", "over"} /\ link
  /\ Close /\ panOf' = IF answers /\ panOf = bound THEN 0 ELSE panOf
  /\ UNCHANGED <<centre, flowing, onAir, registry, answers, state, pc, freq, bound, ears, discard, losses,
                 change, stopping, heard, swallowed, events>>

LoopEnds ==
  /\ pc = "loop" /\ ~Running /\ state \in {"live", "halted"}
  /\ pc' = "over"
  /\ UNCHANGED <<pan, onAir, registry, answers, link, inbox, air, state, freq, bound, ears, discard, losses,
                 change, stopping, heard, swallowed, events>>

Copy ==
  \/ Poll \/ ReadPacket \/ LiveRetune \/ CalRestore \/ SetRx \/ TuneStep \/ TuneEnds \/ RecoverStep
  \/ Forget \/ Stop \/ StopRemoves \/ LoopEnds

Next == Radio \/ Copy

\* The loop turns, every command returns, every wait of a recovery ends, and
\* _cal_restore does not retry beyond CAL_RESTORE_S.
Fairness ==
  /\ WF_vars(Poll) /\ WF_vars(CalRestore) /\ WF_vars(TuneStep) /\ WF_vars(TuneEnds)
  /\ WF_vars(RecoverStep) /\ SF_vars(TuneEnds /\ state' = "halted")

Spec == Init /\ [][Next]_vars /\ Fairness

-----------------------------------------------------------------------------
(* Properties.                                                             *)

\* The radio never holds two DAX-IQ streams of this copy, however often a
\* stall is answered with a new one and replies are lost (_new_stream).
OneStream == streams <= 1

\* The decoders get no packet taken off the frequency the copy names, and none
\* of our own transmission unsilenced, once the loop has read what the radio
\* said of it: retunes, undos, calibration, packets queued (receive).
HeardAsTold == heard \subseteq {"held"}

\* A halt or a stop is the end: nothing is made on the radio after it, also by
\* a recovery or a change under way (_recover, _live_lock).
EndIsFinal ==
  [][state = "halted" \/ pc = "over" =>
       /\ streams' <= streams /\ panOf' \in {0, panOf} /\ (link' => link)
       /\ (state = "halted" => state' = "halted")]_vars

\* A recovery comes to an end: live, or halted (OUTAGE_MAX_S, the budget).
RecoveryEnds == state = "reconnecting" ~> state # "reconnecting"

\* Muted for a retune or a calibration, the copy hears again, or it halts: as
\* long as no command has read the radio's word that calibration is done.
HearsAgain ==
  discard = Inf ~> discard # Inf \/ state = "halted" \/ stopping \/ cal \/ "cal_off" \in swallowed

\* flex_iq.py of _cal_held: "calibration took our pan: muted until it is done,
\* then retuned back".  Not so after a live change the radio refuses meanwhile.
MutedWhileHeld == "held" \notin heard
=============================================================================
