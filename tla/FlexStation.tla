---------------------------- MODULE FlexStation -----------------------------
(***************************************************************************)
(* Who holds SparkGap's one GUI client on a FlexRadio: the station process *)
(* (flex_station.py) or one of the copies, which bind to it whoever it is  *)
(* (FlexStation and the head of FlexIQReceiver in flex_iq.py), and the     *)
(* seat's starts and stops with the reaper's (seat.py, sparkgap_server.py).*)
(* FlexReceiver is one copy once it is bound; this is several copies, each *)
(* of which may take the station's place.                                  *)
(*                                                                         *)
(* The radio is external: registering with the station's client id evicts  *)
(* whoever had it, an entry goes with its connection, a connection that    *)
(* breaks unseen leaves a stale one for the 15 s of the radio's keepalive. *)
(* A copy that reads of its station's end and one that only sees its IQ    *)
(* stall do the same, so the line is left out; so are the loss budgets,    *)
(* which FlexReceiver has, commands refused, and restart, a stop and a     *)
(* start under one lock.                                                   *)
(***************************************************************************)
EXTENDS Naturals, FiniteSets

CONSTANTS
  Copies,      \* by their DAX-IQ channels
  None,
  Faults,      \* what may go wrong
  MaxEvents    \* bound: starts, stops and faults

Process == 0
Holders == Copies \cup {Process}
Kinds == {"station dies", "copy dies", "station cut", "copy cut", "outage"}

Entries == [by : Holders, stale : BOOLEAN]
Operations == [do : {"start", "stop"}, c : Copies, at : {"station", "launch", "copy"}]

ASSUME FlexStationAssumption ==
  /\ Copies \subseteq Nat \ {0} /\ Faults \subseteq Kinds /\ MaxEvents \in Nat
  /\ None \notin Entries \cup Operations

VARIABLES
  \* the radio
  up,         \* it answers
  gui,        \* its GUI client of our name: the holder, and whether its connection is gone
  bound,      \* the copies bound to it
  \* the stations: the process's, and those that copies hold themselves
  st,         \* "none" when there is no such object
  \* the copies
  pc,         \* where FlexIQReceiver is; "off" without a process
  first,      \* still in their first start
  stopping,   \* told to stop
  \* the seat
  op,         \* the start or stop under the radio's lock
  asked,      \* the process is told to stop
  \* bounds and observers
  events,
  upset,      \* since the last rest "one" thing has happened, or "more"
  blind       \* holders about to register that looked before the entry was made

radio == <<up, gui, bound, blind>>
seat == <<op, asked>>
vars == <<radio, st, pc, first, stopping, seat, events, upset>>

Registering == {"registers", "reregisters"}

TypeOK ==
  /\ up \in BOOLEAN /\ gui \in Entries \cup {None}
  /\ bound \subseteq {c \in Copies : pc[c] \in {"builds", "live"}} /\ (gui = None => bound = {})
  /\ st \in [Holders -> {"none", "looks", "live", "settles", "halted"} \cup Registering]
  /\ pc \in [Copies -> {"off", "connects", "waits", "makes", "looks again", "binds", "builds",
                        "live", "settles", "ends"}]
  /\ \A c \in Copies : pc[c] = "makes" <=> st[c] \in {"looks", "registers"}
  /\ first \subseteq Copies /\ stopping \subseteq {c \in Copies : pc[c] # "off"}
  /\ op \in Operations \cup {None}
  /\ asked \in BOOLEAN /\ (asked => st[Process] # "none")
  /\ events \in 0..MaxEvents /\ upset \in {"one", "more"} /\ blind \subseteq Holders

Init ==
  /\ up = TRUE /\ gui = None /\ bound = {} /\ blind = {}
  /\ st = [h \in Holders |-> "none"] /\ pc = [c \in Copies |-> "off"]
  /\ first = {} /\ stopping = {} /\ op = None /\ asked = FALSE
  /\ events = 0 /\ upset = "one"

\* Nothing is under way: one station at most, every copy bound to it.
Rest ==
  /\ up /\ op = None /\ ~asked /\ stopping = {}
  /\ \A c \in Copies : pc[c] = "off" \/ (pc[c] = "live" /\ c \in bound)
  /\ gui = None \/ ~gui.stale
  /\ \A h \in Holders :
       \/ st[h] \in {"none", "halted"}
       \/ st[h] = "live" /\ gui # None /\ gui.by = h

Upsets(together) ==
  /\ events < MaxEvents /\ events' = events + 1
  /\ upset' = IF Rest /\ together THEN "one" ELSE "more"

-----------------------------------------------------------------------------
(* The radio.                                                              *)

Holds(h) == gui # None /\ gui.by = h /\ ~gui.stale

\* The entry goes, and with it the pans of the copies bound to it.
Leaves == gui' = None /\ bound' = {} /\ blind' = {}

\* h lets go of its connection, and of its copy's; an unreachable radio does not notice.
LetsGo(h) ==
  \/ Holds(h) /\ up /\ Leaves
  \/ Holds(h) /\ ~up /\ gui' = [gui EXCEPT !.stale = TRUE] /\ bound' = bound \ {h} /\ UNCHANGED blind
  \/ ~Holds(h) /\ bound' = bound \ {h} /\ UNCHANGED <<gui, blind>>

\* Its keepalive drops a client that does not ping.
Dropped ==
  /\ gui # None /\ (gui.stale \/ ~up) /\ Leaves
  /\ UNCHANGED <<up, st, pc, first, stopping, seat, events, upset>>

Back ==
  /\ ~up /\ up' = TRUE
  /\ UNCHANGED <<gui, bound, blind, st, pc, first, stopping, seat, events, upset>>

-----------------------------------------------------------------------------
(* A station: FlexStation, in the process or in a copy.                    *)

Free(h) == gui = None

\* The process's start is over when it holds the station, or leaves it to another.
ProcessUp(h) ==
  op' = IF h = Process /\ op # None /\ op.do = "start" /\ op.at = "station"
        THEN [op EXCEPT !.at = "launch"] ELSE op

ThenNot(h, at) == UNCHANGED pc                                   \* mutant
Then(h, at) == pc' = IF h \in Copies THEN [pc EXCEPT ![h] = at] ELSE pc

\* A first start (StationExists when the radio has the station).
Look(h) ==
  /\ st[h] = "looks" /\ up
  /\ \/ /\ Free(h) /\ st' = [st EXCEPT ![h] = "registers"] /\ UNCHANGED <<pc, op>>
     \/ /\ ~Free(h) /\ st' = [st EXCEPT ![h] = "none"] /\ Then(h, "looks again") /\ ProcessUp(h)
  /\ asked' = (asked /\ st'[Process] # "none")
  /\ UNCHANGED <<radio, first, stopping, events, upset>>

\* client gui: an entry with our client id is evicted.
Register(h) ==
  /\ st[h] \in Registering /\ up
  /\ gui' = [by |-> h, stale |-> FALSE] /\ bound' = {}
  /\ blind' = {k \in Holders \ {h} : st[k] \in Registering}
  /\ st' = [st EXCEPT ![h] = "live"]
  /\ IF st[h] = "registers" THEN Then(h, "looks again") ELSE UNCHANGED pc
  /\ ProcessUp(h)
  /\ UNCHANGED <<up, first, stopping, asked, events, upset>>

SilentOnly(h) == ~up                                             \* mutant
Silent(h) == ~up \/ ~Holds(h)

\* A beat finds the connection gone, or the radio silent for KEEPALIVE_DROP_S.
BeatLost(h) ==
  /\ st[h] = "live" /\ Silent(h)
  /\ st' = [st EXCEPT ![h] = "settles"]
  /\ IF Holds(h) THEN gui' = [gui EXCEPT !.stale = TRUE] ELSE UNCHANGED gui
  /\ UNCHANGED <<up, bound, blind, pc, first, stopping, seat, events, upset>>

OursOrAnyones(h) == TRUE                                         \* mutant
OursOrNone(h) == gui = None \/ gui.by = h

\* The radio is steady again: register over our own stale entry, but leave a
\* station another holds.
Returns(h) ==
  /\ st[h] = "settles" /\ up
  /\ st' = [st EXCEPT ![h] = IF OursOrNone(h) THEN "reregisters" ELSE "halted"]
  /\ UNCHANGED <<radio, pc, first, stopping, seat, events, upset>>

\* No answer: a first start fails, a return is tried again, up to OUTAGE_MAX_S.
\* A copy whose own station got no answer tries again only if it missed one itself.
NoAnswer(h) ==
  /\ ~up
  /\ \/ /\ st[h] \in {"looks", "registers"} /\ st' = [st EXCEPT ![h] = "none"]
        /\ \/ h \in Copies \ first /\ Then(h, "settles")
           \/ Then(h, "ends")
     \/ /\ st[h] = "reregisters" /\ st' = [st EXCEPT ![h] = "settles"] /\ UNCHANGED pc
     \/ /\ st[h] = "settles" /\ st' = [st EXCEPT ![h] = "halted"] /\ UNCHANGED pc
  /\ asked' = (asked /\ st'[Process] # "none")
  /\ UNCHANGED <<radio, first, stopping, op, events, upset>>

\* The process ends when it halts or is told to.
ProcessEnds ==
  /\ st[Process] # "none" /\ (asked \/ st[Process] = "halted")
  /\ st' = [st EXCEPT ![Process] = "none"] /\ asked' = FALSE /\ LetsGo(Process)
  /\ UNCHANGED <<up, pc, first, stopping, op, events, upset>>

Station(h) == Look(h) \/ Register(h) \/ BeatLost(h) \/ Returns(h) \/ NoAnswer(h)

-----------------------------------------------------------------------------
(* A copy: the head of FlexIQReceiver.                                     *)

Goes(c, at) == pc' = [pc EXCEPT ![c] = at]
copyOnly == <<up, gui, bound, blind, first, stopping, seat, events, upset>>

\* _connect: find the station; at the first start hold it at once when there is
\* none, else wait for it.  A station of its own that has halted is let go.
Connect(c) ==
  /\ pc[c] = "connects" /\ up
  /\ \/ /\ gui # None /\ Goes(c, "binds") /\ st' = [st EXCEPT ![c] = IF @ = "halted" THEN "none" ELSE @]
     \/ /\ gui = None /\ c \in first /\ Goes(c, "makes") /\ st' = [st EXCEPT ![c] = "looks"]
     \/ /\ gui = None /\ c \notin first /\ Goes(c, "waits")
        /\ st' = [st EXCEPT ![c] = IF @ = "halted" THEN "none" ELSE @]
  /\ UNCHANGED copyOnly

Poll(c) ==
  /\ pc[c] = "waits" /\ up /\ gui # None /\ Goes(c, "binds")
  /\ UNCHANGED <<copyOnly, st>>

AnyTurn(c) == TRUE                                               \* mutant

\* The takeover waits are STATION_TAKEOVER_S times the channel: after one loss that all
\* saw at the same time, a station that returns is first, then the lowest channel.
Turn(c) ==
  upset = "one" =>
    /\ \A h \in Holders : st[h] \notin {"live", "settles", "reregisters"}
    /\ \A d \in Copies : d < c => pc[d] \in {"off", "ends"}

\* The station stayed away: hold it.  One of its own is waited for longer
\* (STATION_WAIT_S) than it takes to return; one that halted meanwhile is not let go.
WaitEnds(c) ==
  /\ pc[c] = "waits" /\ up /\ gui = None
  /\ \/ st[c] = "none" /\ Turn(c) /\ Goes(c, "makes") /\ st' = [st EXCEPT ![c] = "looks"]
     \/ st[c] = "halted" /\ Goes(c, "ends") /\ UNCHANGED st
  /\ UNCHANGED copyOnly

\* After its own station's start; the other that existed may have left.
LooksAgain(c) ==
  /\ pc[c] = "looks again" /\ up
  /\ Goes(c, IF gui = None THEN "ends" ELSE "binds")
  /\ UNCHANGED <<copyOnly, st>>

Bind(c) ==
  /\ pc[c] = "binds" /\ up
  /\ \/ gui = None /\ Goes(c, "ends") /\ UNCHANGED bound
     \/ gui # None /\ Goes(c, "builds") /\ bound' = bound \cup {c}
  /\ UNCHANGED <<up, gui, blind, st, first, stopping, seat, events, upset>>

Build(c) ==
  /\ pc[c] = "builds" /\ up
  /\ \/ c \in bound /\ Goes(c, "live") /\ first' = first \ {c}
     \/ c \notin bound /\ Goes(c, "ends") /\ UNCHANGED first
  /\ UNCHANGED <<radio, st, stopping, seat, events, upset>>

\* No reply: the first start fails, a recovery waits again (_start_missed).
Missed(c) ==
  /\ pc[c] \in {"connects", "waits", "looks again", "binds", "builds"} /\ ~up
  /\ Goes(c, IF c \in first THEN "ends" ELSE "settles") /\ bound' = bound \ {c}
  /\ UNCHANGED <<up, gui, blind, st, first, stopping, seat, events, upset>>

\* Its station has left with its pan, or the radio is silent.
Lost(c) ==
  /\ pc[c] = "live" /\ c \notin bound /\ Goes(c, "settles")
  /\ UNCHANGED <<copyOnly, st>>

Stalls(c) ==
  /\ pc[c] = "live" /\ ~up /\ Goes(c, "settles") /\ bound' = bound \ {c}
  /\ UNCHANGED <<up, gui, blind, st, first, stopping, seat, events, upset>>

\* await_radio: steady for SETTLE_S, or away for OUTAGE_MAX_S.
Settles(c) ==
  /\ pc[c] = "settles" /\ Goes(c, IF up THEN "connects" ELSE "ends")
  /\ UNCHANGED <<copyOnly, st>>

\* Told to stop, or halted: stop() and the end of the process.
Ends(c) ==
  /\ pc[c] # "off" /\ (c \in stopping \/ pc[c] = "ends")
  /\ Goes(c, "off") /\ st' = [st EXCEPT ![c] = "none"] /\ LetsGo(c)
  /\ first' = first \ {c} /\ stopping' = stopping \ {c}
  /\ UNCHANGED <<up, seat, events, upset>>

Copy(c) ==
  \/ Connect(c) \/ Poll(c) \/ WaitEnds(c) \/ LooksAgain(c) \/ Bind(c) \/ Build(c) \/ Missed(c)
  \/ Lost(c) \/ Settles(c) \/ Ends(c)

-----------------------------------------------------------------------------
(* The seat's operations on a radio, and the reaper.                       *)

Running == {c \in Copies : pc[c] # "off"}
Doing(do, at) == op # None /\ op.do = do /\ op.at = at

\* start: the station's process first (station_up).
Start(c) ==
  /\ op = None /\ pc[c] = "off" /\ Upsets(TRUE)
  /\ \/ /\ st[Process] # "none" /\ op' = [do |-> "start", c |-> c, at |-> "launch"] /\ UNCHANGED st
     \/ /\ st[Process] = "none" /\ op' = [do |-> "start", c |-> c, at |-> "station"]
        /\ st' = [st EXCEPT ![Process] = "looks"]
  /\ UNCHANGED <<radio, pc, first, stopping, asked>>

\* The station did not start: the copy is not started.
StationFailed ==
  /\ Doing("start", "station") /\ st[Process] = "none" /\ op' = None
  /\ UNCHANGED <<radio, st, pc, first, stopping, asked, events, upset>>

Launch ==
  /\ Doing("start", "launch") /\ Goes(op.c, "connects") /\ first' = first \cup {op.c}
  /\ op' = [op EXCEPT !.at = "copy"]
  /\ UNCHANGED <<radio, st, stopping, asked, events, upset>>

Started ==
  /\ Doing("start", "copy") /\ op.c \notin first /\ op' = None
  /\ UNCHANGED <<radio, st, pc, first, stopping, asked, events, upset>>

Stop(c) ==
  /\ op = None /\ pc[c] # "off" /\ Upsets(TRUE)
  /\ stopping' = stopping \cup {c} /\ op' = [do |-> "stop", c |-> c, at |-> "copy"]
  /\ UNCHANGED <<radio, st, pc, first, asked>>

LastStays == TRUE                                                \* mutant
InUse == Running # {}

\* The station after the radio's last copy (station_down).
Stopped ==
  /\ Doing("stop", "copy") /\ pc[op.c] = "off"
  /\ \/ /\ InUse \/ st[Process] = "none"
        /\ op' = None /\ UNCHANGED asked
     \/ ~InUse /\ st[Process] # "none" /\ op' = [op EXCEPT !.at = "station"] /\ asked' = TRUE
  /\ UNCHANGED <<radio, st, pc, first, stopping, events, upset>>

StationStopped ==
  /\ Doing("stop", "station") /\ st[Process] = "none" /\ op' = None
  /\ UNCHANGED <<radio, st, pc, first, stopping, asked, events, upset>>

\* A station whose radio has no copy left is stopped (_reap).
Reap ==
  /\ op = None /\ ~InUse /\ st[Process] \in {"live", "settles", "reregisters"} /\ ~asked /\ asked' = TRUE
  /\ UNCHANGED <<radio, st, pc, first, stopping, op, events, upset>>

Seat == StationFailed \/ Launch \/ Started \/ Stopped \/ StationStopped \/ Reap

-----------------------------------------------------------------------------
(* Faults.                                                                 *)

Fault(k) == k \in Faults /\ Upsets(k # "outage")

StationDies ==
  /\ Fault("station dies") /\ st[Process] # "none"
  /\ st' = [st EXCEPT ![Process] = "none"] /\ asked' = FALSE /\ LetsGo(Process)
  /\ UNCHANGED <<up, pc, first, stopping, op>>

CopyDies(c) ==
  /\ Fault("copy dies") /\ pc[c] # "off"
  /\ Goes(c, "off") /\ st' = [st EXCEPT ![c] = "none"] /\ LetsGo(c)
  /\ first' = first \ {c} /\ stopping' = stopping \ {c}
  /\ UNCHANGED <<up, seat>>

\* A connection breaks where it is held: the radio has not noticed.
StationCut(h) ==
  /\ Fault("station cut") /\ st[h] = "live" /\ Holds(h)
  /\ gui' = [gui EXCEPT !.stale = TRUE]
  /\ UNCHANGED <<up, bound, blind, st, pc, first, stopping, seat>>

CopyCut(c) ==
  /\ Fault("copy cut") /\ pc[c] = "live" /\ Goes(c, "settles") /\ bound' = bound \ {c}
  /\ UNCHANGED <<up, gui, blind, st, first, stopping, seat>>

Outage ==
  /\ Fault("outage") /\ up /\ up' = FALSE
  /\ UNCHANGED <<gui, bound, blind, st, pc, first, stopping, seat>>

Environment ==
  \/ Dropped \/ Back \/ StationDies \/ Outage
  \/ \E c \in Copies : Start(c) \/ Stop(c) \/ CopyDies(c) \/ CopyCut(c) \/ Stalls(c)
  \/ \E h \in Holders : StationCut(h)

Next ==
  \/ Environment \/ Seat \/ ProcessEnds
  \/ \E h \in Holders : Station(h)
  \/ \E c \in Copies : Copy(c)

\* Every wait of a station, a copy and an operation ends, the server's loop turns,
\* and the radio's keepalive drops what is gone.
Fairness ==
  /\ WF_vars(Dropped) /\ WF_vars(Seat) /\ WF_vars(ProcessEnds)
  /\ \A h \in Holders : WF_vars(Station(h))
  /\ \A c \in Copies : WF_vars(Copy(c))

Spec == Init /\ [][Next]_vars /\ Fairness

-----------------------------------------------------------------------------
(* Properties.                                                             *)

\* A station evicts another only when that one came after its look: it never takes
\* the place of one it has seen, the process's own return included (start).
EvictsUnseen ==
  [][\A h \in Holders : gui # None /\ gui' # None /\ gui'.by = h /\ gui.by # h => h \in blind]_vars

\* "copies never race for the GUI client and the copies left keep running when
\* the one holding it stops" (_connect): when one thing happens at rest, a start,
\* a stop, a death, a broken connection, no other copy ends by itself.
KeepsRunning ==
  [][upset = "one" => \A c \in Copies : pc'[c] = "ends" => pc[c] = "ends"]_vars

\* Again and again all are agreed, unless the radio stays away: one station at
\* most, every copy that runs bound to it, and no other station on its way.
AgreeAgain == []<>(~up \/ Rest)

\* The station is not left holding the radio after the last copy (station_down,
\* _reap), whoever held it.
StationGoes == []<>(op # None \/ gui = None \/ Running # {})
=============================================================================
