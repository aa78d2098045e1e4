------------------------------ MODULE GuiFeed -------------------------------
(***************************************************************************)
(* The GUI feed of a live copy (feed_server.py) and the copy's loop that   *)
(* publishes to it and changes band without a restart (sparkgap.py).       *)
(*                                                                         *)
(* The loop drains IQ into the scanner and the spectrum tap, and hands     *)
(* what they make to the feed's own thread, as callbacks in order          *)
(* (call_soon_threadsafe); that thread keeps a snapshot and a queue per    *)
(* client, which a sender task empties.  A live change is asked by a       *)
(* client on the feed's thread and made by the copy's loop, the retune     *)
(* itself in a thread of its own.                                          *)
(*                                                                         *)
(* The receiver is its contract of FlexReceiver: IQ of where the radio is, *)
(* and a retune that moves, is refused, or halts.  Left out: what a band   *)
(* config refuses for good, the counters of the status, subscriptions      *)
(* (every client shows every band), join codes, and the ping frames,       *)
(* which can only bring forward the cut-off of a client that is behind.    *)
(***************************************************************************)
EXTENDS Naturals, Sequences, FiniteSets, SequencesExt

CONSTANTS
  Clients,             \* connections, each made once
  Bands, None,
  Start,               \* the band of its config
  Changes,             \* the bands asked for
  CLIENT_QUEUE_MAX, SPECTRUM_QUEUE_MAX, MAX_CLIENTS, SNAPSHOT_SPOTS,
  Outputs,             \* what one turn of the loop may publish
  MaxTurns,            \* bound: turns that publish
  MaxCalls             \* bound: callbacks queued when it does

ASSUME GuiFeedAssumption ==
  /\ IsFiniteSet(Clients) /\ None \notin Bands /\ Start \in Bands /\ Changes \subseteq Bands
  /\ {CLIENT_QUEUE_MAX, SPECTRUM_QUEUE_MAX, MAX_CLIENTS, SNAPSHOT_SPOTS,
      MaxTurns, MaxCalls} \subseteq Nat \ {0} /\ CLIENT_QUEUE_MAX >= 2
  /\ Outputs \subseteq SUBSET {"window", "spot", "row", "status"}

Kept == {"window", "spot"}

VARIABLES
  \* the copy
  tuned,      \* where the radio is, None once the receiver has halted
  raw,        \* the bands of the IQ in the loop's buffer
  scanner,    \* [centre, iq]: what it was made for, and the IQ it has
  tap,        \* the same of the spectrum tap
  band,       \* _band_meta, and what the telnet server and the link were told
  controls,   \* the live change asked, until it is done
  pc,         \* the loop: "turn", "retune", "moved", "refused", "done", "over"
  turns,
  \* the feed's thread
  calls,      \* callbacks not run yet
  hello,      \* the band of its hello
  store,      \* windows and spots of the snapshot
  status,     \* the band of the last status, or None
  loop,       \* its event loop runs
  \* its clients
  conn,       \* "none", "open", "dying" (cut off, still in the table), "gone"
  text, spectrum,
  asked,      \* what it asked
  view,       \* what it has been sent
  dropped     \* answers that a move took out of its queue

copy == <<tuned, raw, scanner, tap, band, controls, pc, turns>>
feed == <<hello, store, status, loop>>
ends == <<conn, text, spectrum, asked, view, dropped>>
vars == <<copy, calls, feed, ends>>

Served == {c \in Clients : conn[c] \in {"open", "dying"}}   \* clients
Empty == [window |-> <<>>, spot |-> <<>>]

-----------------------------------------------------------------------------
(* Messages, and what a client makes of them.                              *)

Data(k, b, iq) == [type |-> k, band |-> b, iq |-> iq, n |-> turns]
Status(b) == [type |-> "status", band |-> b]
Greeting(b, kept, s) ==
  <<[type |-> "hello", band |-> b], [type |-> "snapshot", store |-> kept, status |-> s]>>
Result(ok) == [type |-> "result", ok |-> ok]

Nothing == [band |-> None, kept |-> Empty, of |-> {}, answer |-> None]

\* A hello is a fresh start, as the protocol asks of the client.
Shown(v, m) ==
  CASE m.type = "hello" -> [v EXCEPT !.band = m.band, !.of = {}, !.kept = Empty]
    [] m.type = "snapshot" -> [v EXCEPT !.kept = m.store, !.of = {m.status} \ {None}]
    [] m.type \in Kept -> [v EXCEPT !.kept[m.type] = Append(@, m)]
    [] m.type \in {"row", "status"} -> [v EXCEPT !.of = @ \cup {m.band}]
    [] m.type = "result" -> [v EXCEPT !.answer = m.ok]

Init ==
  /\ tuned = Start /\ raw = {} /\ band = Start
  /\ scanner = [centre |-> Start, iq |-> {}] /\ tap = scanner
  /\ controls = <<>> /\ pc = "turn" /\ turns = 0
  /\ calls = <<>> /\ hello = band /\ store = Empty /\ status = None /\ loop = TRUE
  /\ conn = [c \in Clients |-> "none"]
  /\ text = [c \in Clients |-> <<>>] /\ spectrum = [c \in Clients |-> <<>>]
  /\ asked = [c \in Clients |-> None]
  /\ view = [c \in Clients |-> Nothing]
  /\ dropped = {}

-----------------------------------------------------------------------------
(* The copy's loop.                                                        *)

\* The receiver's thread hands on a packet (_iq_callback).
Samples ==
  /\ tuned # None /\ raw' = raw \cup {tuned}
  /\ UNCHANGED <<tuned, scanner, tap, band, controls, pc, turns, calls, feed, ends>>

Reply(ok) == [type |-> "queue", to |-> controls[1].by, msg |-> Result(ok)]

\* Drain, decode, collect and publish, with no change asked.
Turn ==
  /\ pc = "turn" /\ controls = <<>> /\ turns < MaxTurns /\ Len(calls) < MaxCalls
  /\ raw' = {}
  /\ scanner' = [scanner EXCEPT !.iq = @ \cup raw]
  /\ tap' = IF Served = {} THEN tap ELSE [tap EXCEPT !.iq = @ \cup raw]
  /\ turns' = turns + 1
  /\ \E out \in Outputs :
       /\ Kept \cap out # {} => scanner'.iq # {}
       /\ "spot" \in out => "window" \in out
       /\ "row" \in out => raw # {} /\ Served # {}
       /\ calls' = calls
            \o (IF "window" \in out THEN <<Data("window", scanner.centre, scanner'.iq)>> ELSE <<>>)
            \o (IF "row" \in out THEN <<Data("row", tap.centre, tap'.iq)>> ELSE <<>>)
            \o (IF "spot" \in out THEN <<Data("spot", scanner.centre, scanner'.iq)>> ELSE <<>>)
            \o (IF "status" \in out THEN <<Status(band)>> ELSE <<>>)
  /\ UNCHANGED <<tuned, band, controls, pc, feed, ends>>

Done(replies) == calls' = calls \o replies /\ pc' = "done"

\* The change leaves the queue (the loop's finally).
Pop ==
  /\ pc = "done" /\ pc' = "turn" /\ controls' = Tail(controls)
  /\ UNCHANGED <<tuned, raw, scanner, tap, band, turns, calls, feed, ends>>

\* The head of _live_change, up to the call it awaits.
TakeChange ==
  /\ pc = "turn" /\ controls # <<>>
  /\ LET to == controls[1].change
     IN \/ to = band /\ Done(<<Reply(TRUE)>>)
        \/ to # band /\ pc' = "retune" /\ UNCHANGED calls
  /\ UNCHANGED <<tuned, raw, scanner, tap, band, controls, turns, feed, ends>>

\* receiver.retune, in its thread.
Retune ==
  /\ pc = "retune"
  /\ \/ tuned # None /\ tuned' = controls[1].change /\ pc' = "moved"
     \/ tuned' = tuned /\ pc' = "refused"
     \/ tuned' = None /\ pc' = "refused"
  /\ UNCHANGED <<raw, scanner, tap, band, controls, turns, calls, feed, ends>>

KeepsBuffer == raw                                               \* mutant
NewBuffer == {}

Tells(to) == <<[type |-> "bands", band |-> to], Reply(TRUE)>>

\* The rest of _live_change, once the radio has moved.
Moved ==
  /\ pc = "moved"
  /\ LET to == controls[1].change
         new == [centre |-> to, iq |-> {}]
     IN /\ raw' = NewBuffer /\ scanner' = new /\ tap' = new /\ band' = to
        /\ Done(Tells(to))
  /\ UNCHANGED <<tuned, controls, turns, feed, ends>>

NoRefusal == <<>>                                                \* mutant
Refusal == <<Reply(FALSE)>>

\* The retune failed: everything stays.
Answers ==
  /\ pc = "refused" /\ Done(Refusal)
  /\ UNCHANGED <<tuned, raw, scanner, tap, band, controls, turns, feed, ends>>

\* The copy stops: the receiver and the decoders first, the feed last (stop).
Stop ==
  /\ pc = "turn" /\ pc' = "over"
  /\ tuned' = None /\ scanner' = [scanner EXCEPT !.iq = {}]
  /\ calls' = Append(calls, [type |-> "shutdown"])
  /\ UNCHANGED <<raw, tap, band, controls, turns, feed, ends>>

Change == TakeChange \/ Retune \/ Moved \/ Answers \/ Pop
Copy == Samples \/ Turn \/ Change \/ Stop

-----------------------------------------------------------------------------
(* The feed's thread: callbacks of the copy.                               *)

LateOnce(S) == {c \in S : Len(text[c]) > CLIENT_QUEUE_MAX}        \* mutant
Late(S) == {c \in S : Len(text[c]) >= CLIENT_QUEUE_MAX}

\* A client that stalls is cut off; its handler ends later (_abort).
CutOff(S) == [c \in Clients |-> IF c \in S THEN "dying" ELSE conn[c]]
Without(queues, S) == [c \in Clients |-> IF c \in S THEN <<>> ELSE queues[c]]
Open == {c \in Clients : conn[c] = "open"}

SkipsLate(S, m) ==                                               \* mutant
  /\ text' = [c \in Clients |-> IF c \in S \ Late(S) THEN Append(text[c], m) ELSE text[c]]
  /\ UNCHANGED <<spectrum, conn>>

\* Queue a frame for each of S, but not for one too far behind (_queue).
Queue(S, m) ==
  /\ text' = [c \in Clients |->
       IF c \in Late(S) THEN <<>> ELSE IF c \in S THEN Append(text[c], m) ELSE text[c]]
  /\ spectrum' = Without(spectrum, Late(S))
  /\ conn' = CutOff(Late(S))

\* A window or a spot is stored; windows too old, and spots beyond the number kept, go.
Publish(m) ==
  /\ \E gone \in 0..Len(store[m.type]) :
       /\ m.type = "spot" => gone = (IF Len(store.spot) = SNAPSHOT_SPOTS THEN 1 ELSE 0)
       /\ store' = [store EXCEPT ![m.type] = Append(SubSeq(@, gone + 1, Len(@)), m)]
  /\ Queue(Open, m)
  /\ UNCHANGED <<status, view, loop, hello, dropped>>

OnStatus(m) ==
  /\ status' = m.band /\ Queue(Open, m)
  /\ UNCHANGED <<store, view, loop, hello, dropped>>

\* The newest rows are kept.
OnSpectrum(m) ==
  /\ spectrum' = [c \in Clients |->
       IF conn[c] # "open" THEN spectrum[c]
       ELSE IF Len(spectrum[c]) < SPECTRUM_QUEUE_MAX THEN Append(spectrum[c], m)
       ELSE Append(Tail(spectrum[c]), m)]
  /\ UNCHANGED <<text, conn, store, status, view, loop, hello, dropped>>

RowsStay == spectrum                                             \* mutant
RowsGo == Without(spectrum, Open)

OldHello(b) == hello                                             \* mutant
NewHello(b) == b

\* A new hello and an empty snapshot; what was queued goes.
OnBands(b) ==
  /\ hello' = NewHello(b) /\ store' = Empty /\ status' = None
  /\ text' = [c \in Clients |-> IF c \in Open THEN Greeting(hello', Empty, None) ELSE text[c]]
  /\ spectrum' = RowsGo
  /\ dropped' = dropped \cup {c \in Open : \E i \in DOMAIN text[c] : text[c][i].type = "result"}
  /\ UNCHANGED <<conn, view, loop>>

\* An answer, for the client that asked.
OnReply(c, m) ==
  /\ IF conn[c] = "open" THEN Queue({c}, m) ELSE UNCHANGED <<text, spectrum, conn>>
  /\ UNCHANGED <<store, status, view, loop, hello, dropped>>

\* The loop stops, and with it every task of a client.
Shutdown ==
  /\ loop' = FALSE
  /\ conn' = [c \in Clients |-> IF c \in Served THEN "gone" ELSE conn[c]]
  /\ view' = [c \in Clients |-> Nothing]
  /\ text' = Without(text, Clients) /\ spectrum' = Without(spectrum, Clients)
  /\ UNCHANGED <<store, status, hello, dropped>>

RunCall ==
  /\ loop /\ calls # <<>> /\ calls' = Tail(calls)
  /\ LET m == Head(calls)
     IN \/ m.type \in Kept /\ Publish(m)
        \/ m.type = "status" /\ OnStatus(m)
        \/ m.type = "row" /\ OnSpectrum(m)
        \/ m.type = "bands" /\ OnBands(m.band)
        \/ m.type = "queue" /\ OnReply(m.to, m.msg)
        \/ m.type = "shutdown" /\ Shutdown
  /\ UNCHANGED <<copy, asked>>

-----------------------------------------------------------------------------
(* The feed's thread: its clients.                                         *)

\* The handshake ends: refused when full, else the hello and the snapshot first.
Join(c) ==
  /\ loop /\ conn[c] = "none"
  /\ \/ /\ Cardinality(Served) >= MAX_CLIENTS
        /\ conn' = [conn EXCEPT ![c] = "gone"] /\ UNCHANGED text
     \/ /\ Cardinality(Served) < MAX_CLIENTS
        /\ conn' = [conn EXCEPT ![c] = "open"]
        /\ text' = [text EXCEPT ![c] = Greeting(hello, store, status)]
  /\ UNCHANGED <<copy, calls, feed, spectrum, asked, view, dropped>>

\* The sender writes what is next, text first.
Sends(c) ==
  /\ loop /\ conn[c] = "open"
  /\ \/ /\ text[c] # <<>>
        /\ view' = [view EXCEPT ![c] = Shown(@, Head(text[c]))]
        /\ text' = [text EXCEPT ![c] = Tail(@)] /\ UNCHANGED spectrum
     \/ /\ text[c] = <<>> /\ spectrum[c] # <<>>
        /\ view' = [view EXCEPT ![c] = Shown(@, Head(spectrum[c]))]
        /\ spectrum' = [spectrum EXCEPT ![c] = Tail(@)] /\ UNCHANGED text
  /\ UNCHANGED <<copy, calls, feed, conn, asked, dropped>>

\* A control message: taken when no change is under way (_take_control), else busy.
Asks(c, change) ==
  /\ loop /\ conn[c] = "open" /\ asked[c] = None
  /\ asked' = [asked EXCEPT ![c] = change]
  /\ \/ controls = <<>> /\ controls' = <<[change |-> change, by |-> c]>> /\ UNCHANGED calls
     \/ /\ controls # <<>> /\ UNCHANGED controls
        /\ calls' = Append(calls, [type |-> "queue", to |-> c, msg |-> Result(FALSE)])
  /\ UNCHANGED <<tuned, raw, scanner, tap, band, pc, turns, feed, conn, text, spectrum, view, dropped>>

\* It is cut off: it has been silent for IDLE_TIMEOUT_S (_keepalive).
Idle(c) ==
  /\ loop /\ conn[c] = "open"
  /\ conn' = CutOff({c}) /\ text' = Without(text, {c}) /\ spectrum' = Without(spectrum, {c})
  /\ UNCHANGED <<copy, calls, feed, asked, view, dropped>>

\* Its handler ends: it leaves the table.
Leaves(c) ==
  /\ loop /\ conn[c] \in {"open", "dying"}
  /\ conn' = [conn EXCEPT ![c] = "gone"] /\ view' = [view EXCEPT ![c] = Nothing]
  /\ text' = Without(text, {c}) /\ spectrum' = Without(spectrum, {c})
  /\ asked' = [asked EXCEPT ![c] = None] /\ dropped' = dropped \ {c}
  /\ UNCHANGED <<copy, calls, feed>>

Client(c) ==
  Join(c) \/ Sends(c) \/ Idle(c) \/ Leaves(c) \/ \E change \in Changes : Asks(c, change)

Next == Copy \/ RunCall \/ \E c \in Clients : Client(c)

\* Something of the following goes on while any of it can: the loop turns and its
\* threads return, the feed's loop runs what is queued, a client reads what it is
\* sent, a connection cut off ends.
Fairness ==
  WF_vars(Change \/ RunCall \/ \E c \in Clients : Sends(c) \/ (conn[c] = "dying" /\ Leaves(c)))

Spec == Init /\ [][Next]_vars /\ Fairness

-----------------------------------------------------------------------------
(* Properties.                                                             *)

Iq == SUBSET Bands
Messages(k) == [type : {k}, band : Bands, iq : Iq, n : 0..MaxTurns]
Results == [type : {"result"}, ok : BOOLEAN]
Stores == [window : Seq(Messages("window")), spot : Seq(Messages("spot"))]
Texts ==
  Messages("window") \cup Messages("spot") \cup Results
    \cup [type : {"status", "hello"}, band : Bands]
    \cup [type : {"snapshot"}, store : Stores, status : Bands \cup {None}]
Calls ==
  Messages("window") \cup Messages("spot") \cup Messages("row")
    \cup [type : {"status", "bands"}, band : Bands]
    \cup [type : {"queue"}, to : Clients, msg : Results] \cup [type : {"shutdown"}]

TypeOK ==
  /\ tuned \in Bands \cup {None} /\ raw \in Iq /\ band \in Bands /\ turns \in 0..MaxTurns
  /\ {scanner, tap} \subseteq [centre : Bands, iq : Iq]
  /\ controls \in Seq([change : Changes, by : Clients]) /\ Len(controls) <= 1
  /\ pc \in {"turn", "retune", "moved", "refused", "done", "over"}
  /\ calls \in Seq(Calls) /\ hello \in Bands /\ store \in Stores
  /\ Len(store.spot) <= SNAPSHOT_SPOTS
  /\ status \in Bands \cup {None} /\ loop \in BOOLEAN
  /\ conn \in [Clients -> {"none", "open", "dying", "gone"}]
  /\ Cardinality(Served) <= MAX_CLIENTS
  /\ text \in [Clients -> Seq(Texts)] /\ spectrum \in [Clients -> Seq(Messages("row"))]
  /\ \A c \in Clients : Len(text[c]) <= CLIENT_QUEUE_MAX /\ Len(spectrum[c]) <= SPECTRUM_QUEUE_MAX
  /\ dropped \subseteq Clients
  /\ asked \in [Clients -> Changes \cup {None}]
  /\ view \in [Clients ->
       [band : Bands \cup {None}, kept : Stores, of : Iq,
        answer : BOOLEAN \cup {None}]]

\* What is published under a band's frequencies was decoded from that band's IQ
\* only: the radio moves first, and what was buffered, fed or drawn goes with
\* the old band (_live_change).
TrueToBand ==
  \A i \in DOMAIN calls :
    calls[i].type \in {"window", "spot", "row"} => calls[i].iq \subseteq {calls[i].band}

\* "nothing from the old bands (stored or queued) reaches a client after" a new
\* hello, however slow its sender (set_bands).
NothingOldAfterHello ==
  \A c \in Clients :
    LET v == view[c]
    IN /\ v.of \subseteq {v.band}
       /\ \A k \in Kept : \A i \in DOMAIN v.kept[k] : v.kept[k][i].band = v.band

\* What it will show once it has been sent its queue.
After(v, frames) ==
  LET shown[i \in 0..Len(frames)] == IF i = 0 THEN v ELSE Shown(shown[i - 1], frames[i])
  IN shown[Len(frames)]
WillShow(c) == After(view[c], text[c])

\* A client that stays has every window and every spot the feed keeps, once and
\* in order: the snapshot and the messages after it leave no gap, when it joins,
\* when it is slow and when the band changes (_handle, _queue, _on_bands).
NoneMissed ==
  \A c \in Open :
    LET v == WillShow(c)
    IN \A k \in Kept :
         /\ IsSuffix(store[k], v.kept[k])
         /\ \A i, j \in DOMAIN v.kept[k] : i < j => v.kept[k][i].n < v.kept[k][j].n

\* Again and again every change asked has been answered, so that the next can be
\* asked, unless a move took the answer out of the asker's queue.
AskAnswered ==
  []<>(\A c \in Open : asked[c] = None \/ view[c].answer # None \/ c \in dropped)

\* Again and again every client shows the band the copy is on.
EveryoneMoves == []<>(\A c \in Open : view[c].band = band)
=============================================================================
