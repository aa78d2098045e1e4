------------------------- MODULE FlexStationProofs --------------------------
(* Of FlexStation: its types, that no station takes the place of one it has   *)
(* seen, and that of one thing that happens at rest no other copy ends by     *)
(* itself, for any number of copies and of events.                            *)
EXTENDS FlexStation, TLAPS

\* The copy of a start that has not launched it does not run.
NotYetLaunched ==
  op # None /\ op.do = "start" /\ op.at # "copy" => pc[op.c] = "off"

\* A holder that is about to register has found the place free or its own, or
\* someone has registered since its look.
FreeOrBlind ==
  \A h \in Holders : st[h] \in Registering /\ gui # None /\ gui.by # h => h \in blind

\* The types in four parts.
RadioTypes ==
  /\ up \in BOOLEAN /\ gui \in Entries \cup {None}
  /\ bound \subseteq {c \in Copies : pc[c] \in {"builds", "live"}} /\ (gui = None => bound = {})

CopyTypes ==
  /\ st \in [Holders -> {"none", "looks", "live", "settles", "halted"} \cup Registering]
  /\ pc \in [Copies -> {"off", "connects", "waits", "makes", "looks again", "binds", "builds",
                        "live", "settles", "ends"}]
  /\ \A c \in Copies : pc[c] = "makes" <=> st[c] \in {"looks", "registers"}

SeatTypes ==
  /\ first \subseteq Copies /\ stopping \subseteq {c \in Copies : pc[c] # "off"}
  /\ op \in Operations \cup {None}
  /\ asked \in BOOLEAN /\ (asked => st[Process] # "none")

BoundTypes ==
  events \in 0..MaxEvents /\ upset \in {"one", "more"} /\ blind \subseteq Holders

\* TypeOK is its parts.
LEMMA Parts == TypeOK <=> RadioTypes /\ CopyTypes /\ SeatTypes /\ BoundTypes
BY DEF TypeOK, RadioTypes, CopyTypes, SeatTypes, BoundTypes

IInv == TypeOK /\ NotYetLaunched /\ FreeOrBlind

-----------------------------------------------------------------------------
(* What the operators of the actions do.                                   *)

\* The entry stays its holder's, or goes.
EntryKept ==
  /\ gui' \in Entries \cup {None} /\ bound' \subseteq bound
  /\ gui' = None => bound' = {}
  /\ gui' # None => gui # None /\ gui'.by = gui.by
  /\ blind' \in {blind, {}} /\ (gui' # None => blind' = blind)

\* A holder that lets go leaves no pan of its own.
LEMMA LetsGoKeeps ==
  ASSUME TypeOK, NEW h \in Holders, LetsGo(h)
  PROVE  EntryKept /\ h \notin bound'
<1>1. CASE Leaves
  BY <1>1 DEF EntryKept, Leaves
<1>2. CASE gui # None /\ gui' = [gui EXCEPT !.stale = TRUE] /\ bound' = bound \ {h} /\ UNCHANGED blind
  <2>1. gui \in Entries
    BY <1>2 DEF TypeOK
  <2>2. gui' \in Entries /\ gui'.by = gui.by
    BY <1>2, <2>1 DEF Entries
  <2>3. gui' # None
    BY <2>2, FlexStationAssumption
  <2> QED
    BY <1>2, <2>2, <2>3 DEF EntryKept
<1>3. CASE bound' = bound \ {h} /\ UNCHANGED <<gui, blind>>
  BY <1>3 DEF EntryKept, TypeOK
<1> QED
  BY <1>1, <1>2, <1>3 DEF LetsGo, Holds

\* A start, a stop or a fault keeps the types of the bounds.
LEMMA UpsetsTypes ==
  ASSUME TypeOK, NEW t \in BOOLEAN, Upsets(t)
  PROVE  events' \in 0..MaxEvents /\ upset' \in {"one", "more"}
<1>1. events \in 0..MaxEvents /\ events < MaxEvents /\ events' = events + 1 /\ MaxEvents \in Nat
  BY FlexStationAssumption DEF TypeOK, Upsets
<1>2. events' \in 0..MaxEvents
  BY <1>1
<1> QED
  BY <1>2 DEF Upsets

\* The operation goes on, the same one.
LEMMA ProcessUpKeeps ==
  ASSUME TypeOK, NEW h, ProcessUp(h)
  PROVE  /\ op' \in Operations \cup {None}
         /\ op' # None => op # None /\ op'.do = op.do /\ op'.c = op.c /\ (op'.at = "copy" <=> op.at = "copy")
<1>1. CASE op' = op
  BY <1>1 DEF TypeOK
<1>2. CASE op # None /\ op.at = "station" /\ op' = [op EXCEPT !.at = "launch"]
  <2>1. op \in Operations
    BY <1>2 DEF TypeOK
  <2> QED
    BY <1>2, <2>1 DEF Operations
<1> QED
  BY <1>1, <1>2 DEF ProcessUp

-----------------------------------------------------------------------------
(* Every step.                                                             *)

\* Every step keeps the types, and who looked before the entry was made.
LEMMA Step == IInv /\ [Next]_vars => IInv'
<1> SUFFICES ASSUME IInv, [Next]_vars PROVE IInv'
  OBVIOUS
<1>0. TypeOK /\ NotYetLaunched /\ FreeOrBlind /\ MaxEvents \in Nat /\ Process \in Holders /\ Process \notin Copies
  BY FlexStationAssumption DEF IInv, Holders, Process
<1>1. CASE Dropped
  <2>5. TypeOK'
    BY <1>0, <1>1 DEF TypeOK, Registering, Dropped, Leaves, radio, seat, Holders, Process
  <2>6. NotYetLaunched'
    BY <1>0, <1>1 DEF TypeOK, NotYetLaunched, Operations, Dropped, Leaves, radio, seat, Holders,
                      Process
  <2>7. FreeOrBlind'
    BY <1>0, <1>1 DEF TypeOK, FreeOrBlind, Registering, Dropped, Leaves, radio, seat, Holders,
                      Process
  <2> QED
    BY <2>5, <2>6, <2>7 DEF IInv
<1>2. CASE Back
  <2>5. TypeOK'
    BY <1>0, <1>2 DEF TypeOK, Registering, Back, radio, seat, Holders, Process
  <2>6. NotYetLaunched'
    BY <1>0, <1>2 DEF TypeOK, NotYetLaunched, Operations, Back, radio, seat, Holders, Process
  <2>7. FreeOrBlind'
    BY <1>0, <1>2 DEF TypeOK, FreeOrBlind, Registering, Back, radio, seat, Holders, Process
  <2> QED
    BY <2>5, <2>6, <2>7 DEF IInv
<1>3. CASE StationDies
  <2>1. EntryKept /\ Process \notin bound'
    BY <1>0, <1>3, LetsGoKeeps DEF StationDies, Holders
  <2>2. events' \in 0..MaxEvents /\ upset' \in {"one", "more"}
    BY <1>0, <1>3, UpsetsTypes DEF StationDies, Fault
  <2>5. TypeOK'
    <3>1. RadioTypes'
      BY <1>0, <1>3, <2>1, <2>2, Parts DEF RadioTypes, CopyTypes, EntryKept, Registering,
                                           StationDies, Fault, radio, seat, Holders, Process
    <3>2. CopyTypes'
      BY <1>0, <1>3, <2>1, <2>2, Parts DEF CopyTypes, Registering, StationDies, Fault, radio, seat,
                                           Holders, Process
    <3>3. SeatTypes'
      BY <1>0, <1>3, <2>1, <2>2, Parts DEF SeatTypes, CopyTypes, Registering, StationDies, Fault,
                                           radio, seat, Holders, Process
    <3>4. BoundTypes'
      BY <1>0, <1>3, <2>1, <2>2, Parts DEF BoundTypes, EntryKept, StationDies, Fault, radio, seat,
                                           Holders, Process
    <3> QED
      BY <3>1, <3>2, <3>3, <3>4, Parts DEF TypeOK, RadioTypes, CopyTypes, SeatTypes, BoundTypes
  <2>6. NotYetLaunched'
    BY <1>0, <1>3, <2>1, <2>2 DEF TypeOK, NotYetLaunched, Operations, StationDies, Fault, radio,
                                  seat, Holders, Process
  <2>7. FreeOrBlind'
    BY <1>0, <1>3, <2>1, <2>2 DEF TypeOK, FreeOrBlind, Registering, StationDies, Fault, radio,
                                  seat, Holders, Process, EntryKept
  <2> QED
    BY <2>5, <2>6, <2>7 DEF IInv
<1>4. CASE Outage
  <2>2. events' \in 0..MaxEvents /\ upset' \in {"one", "more"}
    BY <1>0, <1>4, UpsetsTypes DEF Outage, Fault
  <2>5. TypeOK'
    <3>1. RadioTypes'
      BY <1>0, <1>4, <2>2, Parts DEF RadioTypes, CopyTypes, Registering, Outage, Fault, radio,
                                     seat, Holders, Process
    <3>2. CopyTypes'
      BY <1>0, <1>4, <2>2, Parts DEF CopyTypes, Registering, Outage, Fault, radio, seat, Holders,
                                     Process
    <3>3. SeatTypes'
      BY <1>0, <1>4, <2>2, Parts DEF SeatTypes, CopyTypes, Registering, Outage, Fault, radio, seat,
                                     Holders, Process
    <3>4. BoundTypes'
      BY <1>0, <1>4, <2>2, Parts DEF BoundTypes, Outage, Fault, radio, seat, Holders, Process
    <3> QED
      BY <3>1, <3>2, <3>3, <3>4, Parts DEF TypeOK, RadioTypes, CopyTypes, SeatTypes, BoundTypes
  <2>6. NotYetLaunched'
    BY <1>0, <1>4, <2>2 DEF TypeOK, NotYetLaunched, Operations, Outage, Fault, radio, seat,
                            Holders, Process
  <2>7. FreeOrBlind'
    BY <1>0, <1>4, <2>2 DEF TypeOK, FreeOrBlind, Registering, Outage, Fault, radio, seat, Holders,
                            Process
  <2> QED
    BY <2>5, <2>6, <2>7 DEF IInv
<1>5. CASE StationFailed
  <2>5. TypeOK'
    BY <1>0, <1>5 DEF TypeOK, Registering, StationFailed, Doing, radio, seat, Holders, Process
  <2>6. NotYetLaunched'
    BY <1>0, <1>5 DEF TypeOK, NotYetLaunched, Operations, StationFailed, Doing, radio, seat,
                      Holders, Process
  <2>7. FreeOrBlind'
    BY <1>0, <1>5 DEF TypeOK, FreeOrBlind, Registering, StationFailed, Doing, radio, seat, Holders,
                      Process
  <2> QED
    BY <2>5, <2>6, <2>7 DEF IInv
<1>6. CASE Launch
  <2>3. op \in Operations /\ op.c \in Copies /\ pc[op.c] = "off"
    BY <1>0, <1>6 DEF TypeOK, NotYetLaunched, Launch, Doing, Operations
  <2>4. /\ op' \in Operations
        /\ op'.at = "copy"
    BY <1>0, <1>6, <2>3 DEF Launch, Operations
  <2>5. TypeOK'
    <3>1. RadioTypes'
      BY <1>0, <1>6, <2>3, <2>4, Parts DEF RadioTypes, CopyTypes, Registering, Launch, Doing, Goes,
                                           radio, seat, Holders, Process
    <3>2. CopyTypes'
      BY <1>0, <1>6, <2>3, <2>4, Parts DEF CopyTypes, Registering, Launch, Doing, Goes, radio,
                                           seat, Holders, Process
    <3>3. SeatTypes'
      BY <1>0, <1>6, <2>3, <2>4, Parts DEF SeatTypes, CopyTypes, Registering, Launch, Doing, Goes,
                                           radio, seat, Holders, Process
    <3>4. BoundTypes'
      BY <1>0, <1>6, <2>3, <2>4, Parts DEF BoundTypes, Launch, Doing, Goes, radio, seat, Holders,
                                           Process
    <3> QED
      BY <3>1, <3>2, <3>3, <3>4, Parts DEF TypeOK, RadioTypes, CopyTypes, SeatTypes, BoundTypes
  <2>6. NotYetLaunched'
    BY <1>0, <1>6, <2>3, <2>4 DEF TypeOK, NotYetLaunched, Operations, Launch, Doing, Goes, radio,
                                  seat, Holders, Process
  <2>7. FreeOrBlind'
    BY <1>0, <1>6, <2>3, <2>4 DEF TypeOK, FreeOrBlind, Registering, Launch, Doing, Goes, radio,
                                  seat, Holders, Process
  <2> QED
    BY <2>5, <2>6, <2>7 DEF IInv
<1>7. CASE Started
  <2>5. TypeOK'
    BY <1>0, <1>7 DEF TypeOK, Registering, Started, Doing, radio, seat, Holders, Process
  <2>6. NotYetLaunched'
    BY <1>0, <1>7 DEF TypeOK, NotYetLaunched, Operations, Started, Doing, radio, seat, Holders,
                      Process
  <2>7. FreeOrBlind'
    BY <1>0, <1>7 DEF TypeOK, FreeOrBlind, Registering, Started, Doing, radio, seat, Holders,
                      Process
  <2> QED
    BY <2>5, <2>6, <2>7 DEF IInv
<1>8. CASE Stopped
  <2>3. /\ op' \in Operations \cup {None}
        /\ op' # None => op'.do = "stop"
    <3>1. op \in Operations /\ op.do = "stop"
      BY <1>0, <1>8 DEF Stopped, Doing, TypeOK
    <3> QED
      BY <1>0, <1>8, <3>1 DEF Stopped, Operations
  <2>4. asked' \in BOOLEAN /\ (asked' => st'[Process] # "none")
    <3>1. CASE UNCHANGED asked
      BY <1>0, <1>8, <3>1 DEF Stopped, TypeOK
    <3>2. CASE st[Process] # "none" /\ asked' = TRUE
      BY <1>0, <1>8, <3>2 DEF Stopped
    <3> QED
      BY <1>0, <1>8, <3>1, <3>2 DEF Stopped
  <2>5. TypeOK'
    <3>1. RadioTypes'
      BY <1>0, <1>8, <2>3, <2>4, Parts DEF RadioTypes, CopyTypes, Registering, Stopped, Doing,
                                           radio, seat, Holders, Process
    <3>2. CopyTypes'
      BY <1>0, <1>8, <2>3, <2>4, Parts DEF CopyTypes, Registering, Stopped, Doing, radio, seat,
                                           Holders, Process
    <3>3. SeatTypes'
      BY <1>0, <1>8, <2>3, <2>4, Parts DEF SeatTypes, CopyTypes, Registering, Stopped, Doing,
                                           radio, seat, Holders, Process
    <3>4. BoundTypes'
      BY <1>0, <1>8, <2>3, <2>4, Parts DEF BoundTypes, Stopped, Doing, radio, seat, Holders, Process
    <3> QED
      BY <3>1, <3>2, <3>3, <3>4, Parts DEF TypeOK, RadioTypes, CopyTypes, SeatTypes, BoundTypes
  <2>6. NotYetLaunched'
    BY <1>0, <1>8, <2>3, <2>4 DEF TypeOK, NotYetLaunched, Operations, Stopped, Doing, radio, seat,
                                  Holders, Process
  <2>7. FreeOrBlind'
    BY <1>0, <1>8, <2>3, <2>4 DEF TypeOK, FreeOrBlind, Registering, Stopped, Doing, radio, seat,
                                  Holders, Process
  <2> QED
    BY <2>5, <2>6, <2>7 DEF IInv
<1>9. CASE StationStopped
  <2>5. TypeOK'
    BY <1>0, <1>9 DEF TypeOK, Registering, StationStopped, Doing, radio, seat, Holders, Process
  <2>6. NotYetLaunched'
    BY <1>0, <1>9 DEF TypeOK, NotYetLaunched, Operations, StationStopped, Doing, radio, seat,
                      Holders, Process
  <2>7. FreeOrBlind'
    BY <1>0, <1>9 DEF TypeOK, FreeOrBlind, Registering, StationStopped, Doing, radio, seat,
                      Holders, Process
  <2> QED
    BY <2>5, <2>6, <2>7 DEF IInv
<1>10. CASE Reap
  <2>5. TypeOK'
    BY <1>0, <1>10 DEF TypeOK, Registering, Reap, InUse, Running, radio, seat, Holders, Process
  <2>6. NotYetLaunched'
    BY <1>0, <1>10 DEF TypeOK, NotYetLaunched, Operations, Reap, InUse, Running, radio, seat,
                       Holders, Process
  <2>7. FreeOrBlind'
    BY <1>0, <1>10 DEF TypeOK, FreeOrBlind, Registering, Reap, InUse, Running, radio, seat,
                       Holders, Process
  <2> QED
    BY <2>5, <2>6, <2>7 DEF IInv
<1>11. CASE ProcessEnds
  <2>1. EntryKept /\ Process \notin bound'
    BY <1>0, <1>11, LetsGoKeeps DEF ProcessEnds, Holders
  <2>5. TypeOK'
    <3>1. RadioTypes'
      BY <1>0, <1>11, <2>1, Parts DEF RadioTypes, CopyTypes, EntryKept, Registering, ProcessEnds,
                                      radio, seat, Holders, Process
    <3>2. CopyTypes'
      BY <1>0, <1>11, <2>1, Parts DEF CopyTypes, Registering, ProcessEnds, radio, seat, Holders,
                                      Process
    <3>3. SeatTypes'
      BY <1>0, <1>11, <2>1, Parts DEF SeatTypes, CopyTypes, Registering, ProcessEnds, radio, seat,
                                      Holders, Process
    <3>4. BoundTypes'
      BY <1>0, <1>11, <2>1, Parts DEF BoundTypes, EntryKept, ProcessEnds, radio, seat, Holders,
                                      Process
    <3> QED
      BY <3>1, <3>2, <3>3, <3>4, Parts DEF TypeOK, RadioTypes, CopyTypes, SeatTypes, BoundTypes
  <2>6. NotYetLaunched'
    BY <1>0, <1>11, <2>1 DEF TypeOK, NotYetLaunched, Operations, ProcessEnds, radio, seat, Holders,
                             Process
  <2>7. FreeOrBlind'
    BY <1>0, <1>11, <2>1 DEF TypeOK, FreeOrBlind, Registering, ProcessEnds, radio, seat, Holders,
                             Process, EntryKept
  <2> QED
    BY <2>5, <2>6, <2>7 DEF IInv
<1>12. ASSUME NEW c \in Copies, Start(c) PROVE IInv'
  <2>2. events' \in 0..MaxEvents /\ upset' \in {"one", "more"}
    BY <1>0, <1>12, UpsetsTypes DEF Start
  <2>3. /\ op' \in Operations
        /\ op'.c = c
    BY <1>0, <1>12 DEF Start, Operations
  <2>5. TypeOK'
    <3>1. RadioTypes'
      BY <1>0, <1>12, <2>2, <2>3, Parts DEF RadioTypes, CopyTypes, Registering, Start, radio, seat,
                                            Holders, Process
    <3>2. CopyTypes'
      BY <1>0, <1>12, <2>2, <2>3, Parts DEF CopyTypes, Registering, Start, radio, seat, Holders,
                                            Process
    <3>3. SeatTypes'
      BY <1>0, <1>12, <2>2, <2>3, Parts DEF SeatTypes, CopyTypes, Registering, Start, radio, seat,
                                            Holders, Process
    <3>4. BoundTypes'
      BY <1>0, <1>12, <2>2, <2>3, Parts DEF BoundTypes, Start, radio, seat, Holders, Process
    <3> QED
      BY <3>1, <3>2, <3>3, <3>4, Parts DEF TypeOK, RadioTypes, CopyTypes, SeatTypes, BoundTypes
  <2>6. NotYetLaunched'
    <3> SUFFICES ASSUME op' # None, op'.do = "start", op'.at # "copy" PROVE pc'[op'.c] = "off"
      BY DEF NotYetLaunched
    <3>1. pc'[c] = "off"
      BY <1>0, <1>12 DEF Start
    <3> QED
      BY <2>3, <3>1
  <2>7. FreeOrBlind'
    BY <1>0, <1>12, <2>2, <2>3 DEF TypeOK, FreeOrBlind, Registering, Start, radio, seat, Holders,
                                   Process
  <2> QED
    BY <2>5, <2>6, <2>7 DEF IInv
<1>13. ASSUME NEW c \in Copies, Stop(c) PROVE IInv'
  <2>2. events' \in 0..MaxEvents /\ upset' \in {"one", "more"}
    BY <1>0, <1>13, UpsetsTypes DEF Stop
  <2>5. TypeOK'
    <3>1. RadioTypes'
      BY <1>0, <1>13, <2>2, Parts DEF RadioTypes, CopyTypes, Registering, Stop, Operations, radio,
                                      seat, Holders, Process
    <3>2. CopyTypes'
      BY <1>0, <1>13, <2>2, Parts DEF CopyTypes, Registering, Stop, Operations, radio, seat,
                                      Holders, Process
    <3>3. SeatTypes'
      BY <1>0, <1>13, <2>2, Parts DEF SeatTypes, CopyTypes, Registering, Stop, Operations, radio,
                                      seat, Holders, Process
    <3>4. BoundTypes'
      BY <1>0, <1>13, <2>2, Parts DEF BoundTypes, Stop, Operations, radio, seat, Holders, Process
    <3> QED
      BY <3>1, <3>2, <3>3, <3>4, Parts DEF TypeOK, RadioTypes, CopyTypes, SeatTypes, BoundTypes
  <2>6. NotYetLaunched'
    BY <1>0, <1>13, <2>2 DEF TypeOK, NotYetLaunched, Operations, Stop, Operations, radio, seat,
                             Holders, Process
  <2>7. FreeOrBlind'
    BY <1>0, <1>13, <2>2 DEF TypeOK, FreeOrBlind, Registering, Stop, Operations, radio, seat,
                             Holders, Process
  <2> QED
    BY <2>5, <2>6, <2>7 DEF IInv
<1>14. ASSUME NEW c \in Copies, CopyDies(c) PROVE IInv'
  <2>1. EntryKept /\ c \notin bound'
    BY <1>0, <1>14, LetsGoKeeps DEF CopyDies, Holders
  <2>2. events' \in 0..MaxEvents /\ upset' \in {"one", "more"}
    BY <1>0, <1>14, UpsetsTypes DEF CopyDies, Fault
  <2>5. TypeOK'
    <3>1. RadioTypes'
      BY <1>0, <1>14, <2>1, <2>2, Parts DEF RadioTypes, CopyTypes, EntryKept, Registering,
                                            CopyDies, Fault, Goes, radio, seat, Holders, Process
    <3>2. CopyTypes'
      BY <1>0, <1>14, <2>1, <2>2, Parts DEF CopyTypes, Registering, CopyDies, Fault, Goes, radio,
                                            seat, Holders, Process
    <3>3. SeatTypes'
      BY <1>0, <1>14, <2>1, <2>2, Parts DEF SeatTypes, CopyTypes, Registering, CopyDies, Fault,
                                            Goes, radio, seat, Holders, Process
    <3>4. BoundTypes'
      BY <1>0, <1>14, <2>1, <2>2, Parts DEF BoundTypes, EntryKept, CopyDies, Fault, Goes, radio,
                                            seat, Holders, Process
    <3> QED
      BY <3>1, <3>2, <3>3, <3>4, Parts DEF TypeOK, RadioTypes, CopyTypes, SeatTypes, BoundTypes
  <2>6. NotYetLaunched'
    BY <1>0, <1>14, <2>1, <2>2 DEF TypeOK, NotYetLaunched, Operations, CopyDies, Fault, Goes,
                                   radio, seat, Holders, Process
  <2>7. FreeOrBlind'
    BY <1>0, <1>14, <2>1, <2>2 DEF TypeOK, FreeOrBlind, Registering, CopyDies, Fault, Goes, radio,
                                   seat, Holders, Process, EntryKept
  <2> QED
    BY <2>5, <2>6, <2>7 DEF IInv
<1>15. ASSUME NEW c \in Copies, CopyCut(c) PROVE IInv'
  <2>2. events' \in 0..MaxEvents /\ upset' \in {"one", "more"}
    BY <1>0, <1>15, UpsetsTypes DEF CopyCut, Fault
  <2>5. TypeOK'
    <3>1. RadioTypes'
      BY <1>0, <1>15, <2>2, Parts DEF RadioTypes, CopyTypes, Registering, CopyCut, Fault, Goes,
                                      radio, seat, Holders, Process
    <3>2. CopyTypes'
      BY <1>0, <1>15, <2>2, Parts DEF CopyTypes, Registering, CopyCut, Fault, Goes, radio, seat,
                                      Holders, Process
    <3>3. SeatTypes'
      BY <1>0, <1>15, <2>2, Parts DEF SeatTypes, CopyTypes, Registering, CopyCut, Fault, Goes,
                                      radio, seat, Holders, Process
    <3>4. BoundTypes'
      BY <1>0, <1>15, <2>2, Parts DEF BoundTypes, CopyCut, Fault, Goes, radio, seat, Holders,
                                      Process
    <3> QED
      BY <3>1, <3>2, <3>3, <3>4, Parts DEF TypeOK, RadioTypes, CopyTypes, SeatTypes, BoundTypes
  <2>6. NotYetLaunched'
    BY <1>0, <1>15, <2>2 DEF TypeOK, NotYetLaunched, Operations, CopyCut, Fault, Goes, radio, seat,
                             Holders, Process
  <2>7. FreeOrBlind'
    BY <1>0, <1>15, <2>2 DEF TypeOK, FreeOrBlind, Registering, CopyCut, Fault, Goes, radio, seat,
                             Holders, Process
  <2> QED
    BY <2>5, <2>6, <2>7 DEF IInv
<1>16. ASSUME NEW c \in Copies, Stalls(c) PROVE IInv'
  <2>5. TypeOK'
    BY <1>0, <1>16 DEF TypeOK, Registering, Stalls, Goes, radio, seat, Holders, Process
  <2>6. NotYetLaunched'
    BY <1>0, <1>16 DEF TypeOK, NotYetLaunched, Operations, Stalls, Goes, radio, seat, Holders,
                       Process
  <2>7. FreeOrBlind'
    BY <1>0, <1>16 DEF TypeOK, FreeOrBlind, Registering, Stalls, Goes, radio, seat, Holders, Process
  <2> QED
    BY <2>5, <2>6, <2>7 DEF IInv
<1>17. ASSUME NEW c \in Copies, Connect(c) PROVE IInv'
  <2>5. TypeOK'
    <3>1. RadioTypes'
      BY <1>0, <1>17, Parts DEF RadioTypes, CopyTypes, Registering, Connect, Goes, copyOnly, radio,
                                seat, Holders, Process
    <3>2. CopyTypes'
      BY <1>0, <1>17, Parts DEF CopyTypes, Registering, Connect, Goes, copyOnly, radio, seat,
                                Holders, Process
    <3>3. SeatTypes'
      BY <1>0, <1>17, Parts DEF SeatTypes, CopyTypes, Registering, Connect, Goes, copyOnly, radio,
                                seat, Holders, Process
    <3>4. BoundTypes'
      BY <1>0, <1>17, Parts DEF BoundTypes, Connect, Goes, copyOnly, radio, seat, Holders, Process
    <3> QED
      BY <3>1, <3>2, <3>3, <3>4, Parts DEF TypeOK, RadioTypes, CopyTypes, SeatTypes, BoundTypes
  <2>6. NotYetLaunched'
    BY <1>0, <1>17 DEF TypeOK, NotYetLaunched, Operations, Connect, Goes, copyOnly, radio, seat,
                       Holders, Process
  <2>7. FreeOrBlind'
    BY <1>0, <1>17 DEF TypeOK, FreeOrBlind, Registering, Connect, Goes, copyOnly, radio, seat,
                       Holders, Process
  <2> QED
    BY <2>5, <2>6, <2>7 DEF IInv
<1>18. ASSUME NEW c \in Copies, Poll(c) PROVE IInv'
  <2>5. TypeOK'
    BY <1>0, <1>18 DEF TypeOK, Registering, Poll, Goes, copyOnly, radio, seat, Holders, Process
  <2>6. NotYetLaunched'
    BY <1>0, <1>18 DEF TypeOK, NotYetLaunched, Operations, Poll, Goes, copyOnly, radio, seat,
                       Holders, Process
  <2>7. FreeOrBlind'
    BY <1>0, <1>18 DEF TypeOK, FreeOrBlind, Registering, Poll, Goes, copyOnly, radio, seat,
                       Holders, Process
  <2> QED
    BY <2>5, <2>6, <2>7 DEF IInv
<1>19. ASSUME NEW c \in Copies, WaitEnds(c) PROVE IInv'
  <2>5. TypeOK'
    <3>1. RadioTypes'
      BY <1>0, <1>19, Parts DEF RadioTypes, CopyTypes, Registering, WaitEnds, Goes, copyOnly,
                                radio, seat, Holders, Process
    <3>2. CopyTypes'
      BY <1>0, <1>19, Parts DEF CopyTypes, Registering, WaitEnds, Goes, copyOnly, radio, seat,
                                Holders, Process
    <3>3. SeatTypes'
      BY <1>0, <1>19, Parts DEF SeatTypes, CopyTypes, Registering, WaitEnds, Goes, copyOnly, radio,
                                seat, Holders, Process
    <3>4. BoundTypes'
      BY <1>0, <1>19, Parts DEF BoundTypes, WaitEnds, Goes, copyOnly, radio, seat, Holders, Process
    <3> QED
      BY <3>1, <3>2, <3>3, <3>4, Parts DEF TypeOK, RadioTypes, CopyTypes, SeatTypes, BoundTypes
  <2>6. NotYetLaunched'
    BY <1>0, <1>19 DEF TypeOK, NotYetLaunched, Operations, WaitEnds, Goes, copyOnly, radio, seat,
                       Holders, Process
  <2>7. FreeOrBlind'
    BY <1>0, <1>19 DEF TypeOK, FreeOrBlind, Registering, WaitEnds, Goes, copyOnly, radio, seat,
                       Holders, Process
  <2> QED
    BY <2>5, <2>6, <2>7 DEF IInv
<1>20. ASSUME NEW c \in Copies, LooksAgain(c) PROVE IInv'
  <2>5. TypeOK'
    BY <1>0, <1>20 DEF TypeOK, Registering, LooksAgain, Goes, copyOnly, radio, seat, Holders,
                       Process
  <2>6. NotYetLaunched'
    BY <1>0, <1>20 DEF TypeOK, NotYetLaunched, Operations, LooksAgain, Goes, copyOnly, radio, seat,
                       Holders, Process
  <2>7. FreeOrBlind'
    BY <1>0, <1>20 DEF TypeOK, FreeOrBlind, Registering, LooksAgain, Goes, copyOnly, radio, seat,
                       Holders, Process
  <2> QED
    BY <2>5, <2>6, <2>7 DEF IInv
<1>21. ASSUME NEW c \in Copies, Bind(c) PROVE IInv'
  <2>5. TypeOK'
    <3>1. RadioTypes'
      BY <1>0, <1>21, Parts DEF RadioTypes, CopyTypes, Registering, Bind, Goes, radio, seat,
                                Holders, Process
    <3>2. CopyTypes'
      BY <1>0, <1>21, Parts DEF CopyTypes, Registering, Bind, Goes, radio, seat, Holders, Process
    <3>3. SeatTypes'
      BY <1>0, <1>21, Parts DEF SeatTypes, CopyTypes, Registering, Bind, Goes, radio, seat,
                                Holders, Process
    <3>4. BoundTypes'
      BY <1>0, <1>21, Parts DEF BoundTypes, Bind, Goes, radio, seat, Holders, Process
    <3> QED
      BY <3>1, <3>2, <3>3, <3>4, Parts DEF TypeOK, RadioTypes, CopyTypes, SeatTypes, BoundTypes
  <2>6. NotYetLaunched'
    BY <1>0, <1>21 DEF TypeOK, NotYetLaunched, Operations, Bind, Goes, radio, seat, Holders, Process
  <2>7. FreeOrBlind'
    BY <1>0, <1>21 DEF TypeOK, FreeOrBlind, Registering, Bind, Goes, radio, seat, Holders, Process
  <2> QED
    BY <2>5, <2>6, <2>7 DEF IInv
<1>22. ASSUME NEW c \in Copies, Build(c) PROVE IInv'
  <2>5. TypeOK'
    <3>1. RadioTypes'
      BY <1>0, <1>22, Parts DEF RadioTypes, CopyTypes, Registering, Build, Goes, radio, seat,
                                Holders, Process
    <3>2. CopyTypes'
      BY <1>0, <1>22, Parts DEF CopyTypes, Registering, Build, Goes, radio, seat, Holders, Process
    <3>3. SeatTypes'
      BY <1>0, <1>22, Parts DEF SeatTypes, CopyTypes, Registering, Build, Goes, radio, seat,
                                Holders, Process
    <3>4. BoundTypes'
      BY <1>0, <1>22, Parts DEF BoundTypes, Build, Goes, radio, seat, Holders, Process
    <3> QED
      BY <3>1, <3>2, <3>3, <3>4, Parts DEF TypeOK, RadioTypes, CopyTypes, SeatTypes, BoundTypes
  <2>6. NotYetLaunched'
    BY <1>0, <1>22 DEF TypeOK, NotYetLaunched, Operations, Build, Goes, radio, seat, Holders,
                       Process
  <2>7. FreeOrBlind'
    BY <1>0, <1>22 DEF TypeOK, FreeOrBlind, Registering, Build, Goes, radio, seat, Holders, Process
  <2> QED
    BY <2>5, <2>6, <2>7 DEF IInv
<1>23. ASSUME NEW c \in Copies, Missed(c) PROVE IInv'
  <2>5. TypeOK'
    BY <1>0, <1>23 DEF TypeOK, Registering, Missed, Goes, radio, seat, Holders, Process
  <2>6. NotYetLaunched'
    BY <1>0, <1>23 DEF TypeOK, NotYetLaunched, Operations, Missed, Goes, radio, seat, Holders,
                       Process
  <2>7. FreeOrBlind'
    BY <1>0, <1>23 DEF TypeOK, FreeOrBlind, Registering, Missed, Goes, radio, seat, Holders, Process
  <2> QED
    BY <2>5, <2>6, <2>7 DEF IInv
<1>24. ASSUME NEW c \in Copies, Lost(c) PROVE IInv'
  <2>5. TypeOK'
    BY <1>0, <1>24 DEF TypeOK, Registering, Lost, Goes, copyOnly, radio, seat, Holders, Process
  <2>6. NotYetLaunched'
    BY <1>0, <1>24 DEF TypeOK, NotYetLaunched, Operations, Lost, Goes, copyOnly, radio, seat,
                       Holders, Process
  <2>7. FreeOrBlind'
    BY <1>0, <1>24 DEF TypeOK, FreeOrBlind, Registering, Lost, Goes, copyOnly, radio, seat,
                       Holders, Process
  <2> QED
    BY <2>5, <2>6, <2>7 DEF IInv
<1>25. ASSUME NEW c \in Copies, Settles(c) PROVE IInv'
  <2>5. TypeOK'
    BY <1>0, <1>25 DEF TypeOK, Registering, Settles, Goes, copyOnly, radio, seat, Holders, Process
  <2>6. NotYetLaunched'
    BY <1>0, <1>25 DEF TypeOK, NotYetLaunched, Operations, Settles, Goes, copyOnly, radio, seat,
                       Holders, Process
  <2>7. FreeOrBlind'
    BY <1>0, <1>25 DEF TypeOK, FreeOrBlind, Registering, Settles, Goes, copyOnly, radio, seat,
                       Holders, Process
  <2> QED
    BY <2>5, <2>6, <2>7 DEF IInv
<1>26. ASSUME NEW c \in Copies, Ends(c) PROVE IInv'
  <2>1. EntryKept /\ c \notin bound'
    BY <1>0, <1>26, LetsGoKeeps DEF Ends, Holders
  <2>5. TypeOK'
    <3>1. RadioTypes'
      BY <1>0, <1>26, <2>1, Parts DEF RadioTypes, CopyTypes, EntryKept, Registering, Ends, Goes,
                                      radio, seat, Holders, Process
    <3>2. CopyTypes'
      BY <1>0, <1>26, <2>1, Parts DEF CopyTypes, Registering, Ends, Goes, radio, seat, Holders,
                                      Process
    <3>3. SeatTypes'
      BY <1>0, <1>26, <2>1, Parts DEF SeatTypes, CopyTypes, Registering, Ends, Goes, radio, seat,
                                      Holders, Process
    <3>4. BoundTypes'
      BY <1>0, <1>26, <2>1, Parts DEF BoundTypes, EntryKept, Ends, Goes, radio, seat, Holders,
                                      Process
    <3> QED
      BY <3>1, <3>2, <3>3, <3>4, Parts DEF TypeOK, RadioTypes, CopyTypes, SeatTypes, BoundTypes
  <2>6. NotYetLaunched'
    BY <1>0, <1>26, <2>1 DEF TypeOK, NotYetLaunched, Operations, Ends, Goes, radio, seat, Holders,
                             Process
  <2>7. FreeOrBlind'
    BY <1>0, <1>26, <2>1 DEF TypeOK, FreeOrBlind, Registering, Ends, Goes, radio, seat, Holders,
                             Process, EntryKept
  <2> QED
    BY <2>5, <2>6, <2>7 DEF IInv
<1>27. ASSUME NEW h \in Holders, StationCut(h) PROVE IInv'
  <2>1. EntryKept
    <3>1. CASE gui # None /\ gui' = [gui EXCEPT !.stale = TRUE]
      <4>1. gui \in Entries
        BY <1>0, <3>1 DEF TypeOK
      <4>2. gui' \in Entries /\ gui'.by = gui.by
        BY <3>1, <4>1 DEF Entries
      <4> QED
        BY <1>0, <1>27, <3>1, <4>2, FlexStationAssumption DEF EntryKept, TypeOK, StationCut, radio
    <3>2. CASE UNCHANGED gui
      BY <1>0, <1>27, <3>2 DEF EntryKept, TypeOK, StationCut, radio
    <3> QED
      BY <1>0, <1>27, <3>1, <3>2 DEF StationCut, Holds
  <2>2. events' \in 0..MaxEvents /\ upset' \in {"one", "more"}
    BY <1>0, <1>27, UpsetsTypes DEF StationCut, Fault
  <2>5. TypeOK'
    <3>1. RadioTypes'
      BY <1>0, <1>27, <2>1, <2>2, Parts DEF RadioTypes, CopyTypes, EntryKept, Registering,
                                            StationCut, Fault, radio, seat, Holders, Process
    <3>2. CopyTypes'
      BY <1>0, <1>27, <2>1, <2>2, Parts DEF CopyTypes, Registering, StationCut, Fault, radio, seat,
                                            Holders, Process
    <3>3. SeatTypes'
      BY <1>0, <1>27, <2>1, <2>2, Parts DEF SeatTypes, CopyTypes, Registering, StationCut, Fault,
                                            radio, seat, Holders, Process
    <3>4. BoundTypes'
      BY <1>0, <1>27, <2>1, <2>2, Parts DEF BoundTypes, EntryKept, StationCut, Fault, radio, seat,
                                            Holders, Process
    <3> QED
      BY <3>1, <3>2, <3>3, <3>4, Parts DEF TypeOK, RadioTypes, CopyTypes, SeatTypes, BoundTypes
  <2>6. NotYetLaunched'
    BY <1>0, <1>27, <2>1, <2>2 DEF TypeOK, NotYetLaunched, Operations, StationCut, Fault, radio,
                                   seat, Holders, Process
  <2>7. FreeOrBlind'
    BY <1>0, <1>27, <2>1, <2>2 DEF TypeOK, FreeOrBlind, Registering, StationCut, Fault, radio,
                                   seat, Holders, Process, EntryKept
  <2> QED
    BY <2>5, <2>6, <2>7 DEF IInv
<1>28. ASSUME NEW h \in Holders, Look(h) PROVE IInv'
  <2>3. /\ op' \in Operations \cup {None}
        /\ op' # None => op # None /\ op'.do = op.do /\ op'.c = op.c /\ (op'.at = "copy" <=> op.at = "copy")
    BY <1>0, <1>28, ProcessUpKeeps DEF Look, TypeOK
  <2>5. TypeOK'
    <3>1. RadioTypes'
      BY <1>0, <1>28, <2>3, Parts DEF RadioTypes, CopyTypes, Registering, Look, Free, Then, radio,
                                      seat, Holders, Process
    <3>2. CopyTypes'
      BY <1>0, <1>28, <2>3, Parts DEF CopyTypes, Registering, Look, Free, Then, radio, seat,
                                      Holders, Process
    <3>3. SeatTypes'
      BY <1>0, <1>28, <2>3, Parts DEF SeatTypes, CopyTypes, Registering, Look, Free, Then, radio,
                                      seat, Holders, Process
    <3>4. BoundTypes'
      BY <1>0, <1>28, <2>3, Parts DEF BoundTypes, Look, Free, Then, radio, seat, Holders, Process
    <3> QED
      BY <3>1, <3>2, <3>3, <3>4, Parts DEF TypeOK, RadioTypes, CopyTypes, SeatTypes, BoundTypes
  <2>6. NotYetLaunched'
    <3> SUFFICES ASSUME op' # None, op'.do = "start", op'.at # "copy" PROVE pc'[op'.c] = "off"
      BY DEF NotYetLaunched
    <3>1. op # None /\ op'.c = op.c /\ pc[op.c] = "off" /\ op.c \in Copies
      BY <1>0, <1>28, <2>3 DEF NotYetLaunched, TypeOK, Operations
    <3>2. st[op.c] \notin {"looks", "registers"}
      BY <1>0, <3>1 DEF TypeOK
    <3>3. pc'[op.c] = pc[op.c]
      BY <1>0, <1>28, <3>1, <3>2 DEF Look, Then, TypeOK, Registering
    <3> QED
      BY <3>1, <3>3
  <2>7. FreeOrBlind'
    BY <1>0, <1>28, <2>3 DEF TypeOK, FreeOrBlind, Registering, Look, Free, Then, radio, seat,
                             Holders, Process
  <2> QED
    BY <2>5, <2>6, <2>7 DEF IInv
<1>29. ASSUME NEW h \in Holders, Register(h) PROVE IInv'
  <2>3. /\ op' \in Operations \cup {None}
        /\ op' # None => op # None /\ op'.do = op.do /\ op'.c = op.c /\ (op'.at = "copy" <=> op.at = "copy")
    BY <1>0, <1>29, ProcessUpKeeps DEF Register, TypeOK
  <2>5. TypeOK'
    <3>1. RadioTypes'
      BY <1>0, <1>29, <2>3, Parts DEF RadioTypes, CopyTypes, Registering, Register, Then, Entries,
                                      radio, seat, Holders, Process
    <3>2. CopyTypes'
      BY <1>0, <1>29, <2>3, Parts DEF CopyTypes, Registering, Register, Then, Entries, radio, seat,
                                      Holders, Process
    <3>3. SeatTypes'
      BY <1>0, <1>29, <2>3, Parts DEF SeatTypes, CopyTypes, Registering, Register, Then, Entries,
                                      radio, seat, Holders, Process
    <3>4. BoundTypes'
      BY <1>0, <1>29, <2>3, Parts DEF BoundTypes, Register, Then, Entries, radio, seat, Holders,
                                      Process
    <3> QED
      BY <3>1, <3>2, <3>3, <3>4, Parts DEF TypeOK, RadioTypes, CopyTypes, SeatTypes, BoundTypes
  <2>6. NotYetLaunched'
    <3> SUFFICES ASSUME op' # None, op'.do = "start", op'.at # "copy" PROVE pc'[op'.c] = "off"
      BY DEF NotYetLaunched
    <3>1. op # None /\ op'.c = op.c /\ pc[op.c] = "off" /\ op.c \in Copies
      BY <1>0, <1>29, <2>3 DEF NotYetLaunched, TypeOK, Operations
    <3>2. st[op.c] \notin {"looks", "registers"}
      BY <1>0, <3>1 DEF TypeOK
    <3>3. pc'[op.c] = pc[op.c]
      BY <1>0, <1>29, <3>1, <3>2 DEF Register, Then, TypeOK, Registering
    <3> QED
      BY <3>1, <3>3
  <2>7. FreeOrBlind'
    BY <1>0, <1>29, <2>3 DEF TypeOK, FreeOrBlind, Registering, Register, Then, Entries, radio,
                             seat, Holders, Process
  <2> QED
    BY <2>5, <2>6, <2>7 DEF IInv
<1>30. ASSUME NEW h \in Holders, BeatLost(h) PROVE IInv'
  <2>1. EntryKept
    <3>1. CASE gui # None /\ gui' = [gui EXCEPT !.stale = TRUE]
      <4>1. gui \in Entries
        BY <1>0, <3>1 DEF TypeOK
      <4>2. gui' \in Entries /\ gui'.by = gui.by
        BY <3>1, <4>1 DEF Entries
      <4> QED
        BY <1>0, <1>30, <3>1, <4>2, FlexStationAssumption DEF EntryKept, TypeOK, BeatLost, radio
    <3>2. CASE UNCHANGED gui
      BY <1>0, <1>30, <3>2 DEF EntryKept, TypeOK, BeatLost, radio
    <3> QED
      BY <1>0, <1>30, <3>1, <3>2 DEF BeatLost, Holds
  <2>5. TypeOK'
    <3>1. RadioTypes'
      BY <1>0, <1>30, <2>1, Parts DEF RadioTypes, CopyTypes, EntryKept, Registering, BeatLost,
                                      Silent, radio, seat, Holders, Process
    <3>2. CopyTypes'
      BY <1>0, <1>30, <2>1, Parts DEF CopyTypes, Registering, BeatLost, Silent, radio, seat,
                                      Holders, Process
    <3>3. SeatTypes'
      BY <1>0, <1>30, <2>1, Parts DEF SeatTypes, CopyTypes, Registering, BeatLost, Silent, radio,
                                      seat, Holders, Process
    <3>4. BoundTypes'
      BY <1>0, <1>30, <2>1, Parts DEF BoundTypes, EntryKept, BeatLost, Silent, radio, seat,
                                      Holders, Process
    <3> QED
      BY <3>1, <3>2, <3>3, <3>4, Parts DEF TypeOK, RadioTypes, CopyTypes, SeatTypes, BoundTypes
  <2>6. NotYetLaunched'
    BY <1>0, <1>30, <2>1 DEF TypeOK, NotYetLaunched, Operations, BeatLost, Silent, radio, seat,
                             Holders, Process
  <2>7. FreeOrBlind'
    BY <1>0, <1>30, <2>1 DEF TypeOK, FreeOrBlind, Registering, BeatLost, Silent, radio, seat,
                             Holders, Process, EntryKept
  <2> QED
    BY <2>5, <2>6, <2>7 DEF IInv
<1>31. ASSUME NEW h \in Holders, Returns(h) PROVE IInv'
  <2>5. TypeOK'
    <3>1. RadioTypes'
      BY <1>0, <1>31, Parts DEF RadioTypes, CopyTypes, Registering, Returns, OursOrNone, radio,
                                seat, Holders, Process
    <3>2. CopyTypes'
      BY <1>0, <1>31, Parts DEF CopyTypes, Registering, Returns, OursOrNone, radio, seat, Holders,
                                Process
    <3>3. SeatTypes'
      BY <1>0, <1>31, Parts DEF SeatTypes, CopyTypes, Registering, Returns, OursOrNone, radio,
                                seat, Holders, Process
    <3>4. BoundTypes'
      BY <1>0, <1>31, Parts DEF BoundTypes, Returns, OursOrNone, radio, seat, Holders, Process
    <3> QED
      BY <3>1, <3>2, <3>3, <3>4, Parts DEF TypeOK, RadioTypes, CopyTypes, SeatTypes, BoundTypes
  <2>6. NotYetLaunched'
    BY <1>0, <1>31 DEF TypeOK, NotYetLaunched, Operations, Returns, OursOrNone, radio, seat,
                       Holders, Process
  <2>7. FreeOrBlind'
    BY <1>0, <1>31 DEF TypeOK, FreeOrBlind, Registering, Returns, OursOrNone, radio, seat, Holders,
                       Process
  <2> QED
    BY <2>5, <2>6, <2>7 DEF IInv
<1>32. ASSUME NEW h \in Holders, NoAnswer(h) PROVE IInv'
  <2>5. TypeOK'
    <3>1. RadioTypes'
      BY <1>0, <1>32, Parts DEF RadioTypes, CopyTypes, Registering, NoAnswer, Then, radio, seat,
                                Holders, Process
    <3>2. CopyTypes'
      BY <1>0, <1>32, Parts DEF CopyTypes, Registering, NoAnswer, Then, radio, seat, Holders,
                                Process
    <3>3. SeatTypes'
      BY <1>0, <1>32, Parts DEF SeatTypes, CopyTypes, Registering, NoAnswer, Then, radio, seat,
                                Holders, Process
    <3>4. BoundTypes'
      BY <1>0, <1>32, Parts DEF BoundTypes, NoAnswer, Then, radio, seat, Holders, Process
    <3> QED
      BY <3>1, <3>2, <3>3, <3>4, Parts DEF TypeOK, RadioTypes, CopyTypes, SeatTypes, BoundTypes
  <2>6. NotYetLaunched'
    <3> SUFFICES ASSUME op' # None, op'.do = "start", op'.at # "copy" PROVE pc'[op'.c] = "off"
      BY DEF NotYetLaunched
    <3>1. op # None /\ op'.c = op.c /\ pc[op.c] = "off" /\ op.c \in Copies
      BY <1>0, <1>32 DEF NotYetLaunched, TypeOK, Operations, NoAnswer
    <3>2. st[op.c] \notin {"looks", "registers"}
      BY <1>0, <3>1 DEF TypeOK
    <3>3. pc'[op.c] = pc[op.c]
      BY <1>0, <1>32, <3>1, <3>2 DEF NoAnswer, Then, TypeOK, Registering
    <3> QED
      BY <3>1, <3>3
  <2>7. FreeOrBlind'
    BY <1>0, <1>32 DEF TypeOK, FreeOrBlind, Registering, NoAnswer, Then, radio, seat, Holders,
                       Process
  <2> QED
    BY <2>5, <2>6, <2>7 DEF IInv
<1>33. CASE UNCHANGED vars
  BY <1>0, <1>33 DEF IInv, TypeOK, NotYetLaunched, FreeOrBlind, vars, radio, seat
<1> QED
  BY <1>1, <1>2, <1>3, <1>4, <1>5, <1>6, <1>7, <1>8, <1>9, <1>10, <1>11, <1>12, <1>13, <1>14,
     <1>15, <1>16, <1>17, <1>18, <1>19, <1>20, <1>21, <1>22, <1>23, <1>24, <1>25, <1>26, <1>27,
     <1>28, <1>29, <1>30, <1>31, <1>32, <1>33
  DEF Next, Environment, Seat, Station, Copy

\* The invariant holds in every state the radio, the stations and the copies reach.
THEOREM Invariance == Spec => []IInv
<1>1. Init => IInv
  <2> SUFFICES ASSUME Init PROVE IInv
    OBVIOUS
  <2>1. RadioTypes /\ CopyTypes
    BY DEF Init, RadioTypes, CopyTypes, Registering, Holders
  <2>2. SeatTypes /\ BoundTypes
    <3>1. MaxEvents \in Nat /\ 0 \in 0..MaxEvents
      BY FlexStationAssumption
    <3> QED
      BY <3>1 DEF Init, SeatTypes, BoundTypes
  <2>3. NotYetLaunched /\ FreeOrBlind
    BY DEF Init, NotYetLaunched, FreeOrBlind, Registering
  <2> QED
    BY <2>1, <2>2, <2>3, Parts DEF IInv
<1> QED
  BY <1>1, Step, PTL DEF Spec

\* TypeOK: a copy makes a station exactly while its own starts, only a copy that
\* is bound has a pan, and nothing is asked of a process that is not there.
THEOREM TypeCorrect == Spec => []TypeOK
<1>1. IInv => TypeOK
  BY DEF IInv
<1> QED
  BY <1>1, Invariance, PTL

\* EvictsUnseen: only a registration makes another the holder (start), and the one
\* that registers had found the place free or its own.
THEOREM EvictsOnlyUnseen == Spec => EvictsUnseen
<1> DEFINE A == \A h \in Holders : gui # None /\ gui' # None /\ gui'.by = h /\ gui.by # h => h \in blind
<1>1. IInv /\ [Next]_vars => [A]_vars
  <2> SUFFICES ASSUME IInv, [Next]_vars,
                      NEW h \in Holders, gui # None, gui' # None, gui'.by = h, gui.by # h
               PROVE  h \in blind
    OBVIOUS
  <2>1. CASE \E k \in Holders : Register(k)
    <3>1. PICK k \in Holders : Register(k)
      BY <2>1
    <3>2. k = h
      BY <3>1 DEF Register
    <3> QED
      BY <3>1, <3>2 DEF IInv, FreeOrBlind, Register
  <2>2. CASE gui' = gui
    BY <2>2
  <2>3. CASE \E k \in Holders : LetsGo(k)
    BY <2>3, LetsGoKeeps DEF EntryKept, IInv
  <2>4. CASE gui' = [gui EXCEPT !.stale = TRUE]
    <3>1. gui \in Entries
      BY DEF IInv, TypeOK
    <3> QED
      BY <2>4, <3>1
  <2>5. CASE Dropped
    BY <2>5 DEF Dropped, Leaves
  <2> QED
    <3>1. Process \in Holders /\ Copies \subseteq Holders
      BY DEF Holders
    <3>2. CASE Environment
      BY <3>1, <3>2, <2>2, <2>3, <2>4, <2>5
      DEF Environment, Back, StationDies, Outage, Start, Stop, CopyDies, CopyCut, Stalls,
          StationCut, radio
    <3>3. CASE Seat
      BY <3>3, <2>2 DEF Seat, StationFailed, Launch, Started, Stopped, StationStopped, Reap, radio
    <3>4. CASE ProcessEnds
      BY <3>1, <3>4, <2>3 DEF ProcessEnds
    <3>5. CASE \E k \in Holders : Station(k)
      BY <3>5, <2>1, <2>2, <2>4 DEF Station, Look, BeatLost, Returns, NoAnswer, radio
    <3>6. CASE \E c \in Copies : Copy(c)
      BY <3>1, <3>6, <2>2, <2>3
      DEF Copy, Connect, Poll, WaitEnds, LooksAgain, Bind, Build, Missed, Lost, Settles, Ends,
          copyOnly, radio
    <3>7. CASE UNCHANGED vars
      BY <3>7, <2>2 DEF vars, radio
    <3> QED
      BY <3>2, <3>3, <3>4, <3>5, <3>6, <3>7 DEF Next
<1> QED
  BY <1>1, Invariance, PTL DEF Spec, EvictsUnseen

-----------------------------------------------------------------------------
(* That one thing that happens at rest ends no other copy.  First the order in *)
(* which the seat and a copy work, whatever happens; then where all are while  *)
(* no more than one thing has happened.                                        *)

\* The station of h is gone, or was never made.
Idle(h) == st[h] \in {"none", "halted"}

\* Every copy that runs has its pan.
Still == \A d \in Copies : pc[d] = "off" \/ (pc[d] = "live" /\ d \in bound)

\* Only the copy being started is a first run, on its way to its first pan.
FirstOp == \A d \in first : Doing("start", "copy") /\ op.c = d
Begun(d) ==
  /\ pc[d] \notin {"off", "waits", "live", "settles"}
  /\ pc[d] = "connects" => st[d] = "none"
FirstPc == \A d \in first : Begun(d)

\* Only the copy being stopped was told to.
StoppingIn == \A d \in stopping : Doing("stop", "copy") /\ op.c = d

\* A copy that does not run has no station; the holder's is live; the process
\* makes one only for a start.
OffIdle == \A d \in Copies : pc[d] = "off" => st[d] = "none"
HolderLive == \A k \in Holders : Holds(k) => st[k] = "live"
ProcessStarts == st[Process] \in {"looks", "registers"} => Doing("start", "station")

Order == FirstOp /\ FirstPc /\ StoppingIn /\ OffIdle /\ HolderLive /\ ProcessStarts

\* No copy ends by itself; the process is asked to end when none runs; the copies
\* are bound while one is told to stop.
Quiet ==
  /\ up /\ \A d \in Copies : pc[d] # "ends"
  /\ asked => (\A d \in Copies : pc[d] = "off") /\ (op = None \/ op.do = "stop")
  /\ stopping # {} => Still

\* While the radio has not dropped the holder's broken connection the copies keep
\* their pans, and no other station is on its way.
CutOff ==
  gui # None /\ gui.stale =>
    /\ Still /\ op = None /\ \A h \in Holders : h # gui.by => Idle(h)
    /\ st[gui.by] \in {"live", "settles", "reregisters"} \/ \A d \in Copies : pc[d] = "off"

\* While there is a holder no copy takes its place: the process may look, and
\* will find it.
Served ==
  gui # None /\ ~gui.stale =>
    /\ \A h \in Holders : h # gui.by => Idle(h) \/ (h = Process /\ st[h] = "looks")
    /\ \A d \in Copies : pc[d] # "makes" /\ (pc[d] = "builds" => d \in bound)

\* While there is none: the copies are bound no more, or look for the station; one
\* station at most is there or on its way; a copy that waits has none that halted;
\* the one that makes a station is the lowest that runs (Turn); and a copy that is
\* started is the only one.
Seeking == \A d \in Copies : pc[d] \in {"off", "live", "settles", "connects", "waits", "makes"}
OneStation == \A h, k \in Holders : Idle(h) \/ Idle(k) \/ h = k
Patient == \A d \in Copies : pc[d] = "waits" => st[d] # "halted"
LowestMakes == \A d, e \in Copies : pc[d] = "makes" /\ pc[e] # "off" => d <= e
StartsAlone ==
  op # None /\ op.do = "start" =>
    (\A d \in Copies : d # op.c => pc[d] = "off") /\ (op.at # "station" => Idle(Process))
Vacant == gui = None => Seeking /\ OneStation /\ Patient /\ LowestMakes /\ StartsAlone

Orderly == Quiet /\ CutOff /\ Served /\ Vacant
OneThing == upset = "one" => Orderly

\* The operation that is asked for.
LEMMA Asked ==
  ASSUME NEW c \in Copies
  PROVE  /\ Start(c) => /\ op' \in Operations /\ op' # None /\ op'.c = c /\ op'.do = "start"
                        /\ (st[Process] # "none" /\ UNCHANGED st) \/ op'.at = "station"
         /\ Stop(c) => op' \in Operations /\ op' # None /\ op'.c = c /\ op'.do = "stop"
<1>1. None \notin Operations
  BY FlexStationAssumption
<1>2. ASSUME Start(c), st[Process] # "none"
             PROVE  UNCHANGED st /\ op' = [do |-> "start", c |-> c, at |-> "launch"]
  BY <1>2 DEF Start
<1>3. ASSUME Start(c), st[Process] = "none" PROVE op' = [do |-> "start", c |-> c, at |-> "station"]
  BY <1>3 DEF Start
<1>4. ASSUME Stop(c) PROVE op' = [do |-> "stop", c |-> c, at |-> "copy"]
  BY <1>4 DEF Stop
<1> QED
  BY <1>1, <1>2, <1>3, <1>4 DEF Operations

\* Every step keeps the order of the work.
LEMMA StepOrder == IInv /\ Order /\ [Next]_vars => Order'
<1> SUFFICES ASSUME IInv, Order, [Next]_vars PROVE Order'
  OBVIOUS
<1>0. /\ TypeOK /\ NotYetLaunched /\ Process \in Holders /\ Process \notin Copies
     /\ None \notin Entries \cup Operations
  BY FlexStationAssumption DEF IInv, Holders, Process
<1>p. FirstOp /\ FirstPc /\ StoppingIn /\ OffIdle /\ HolderLive /\ ProcessStarts
  BY DEF Order
<1> USE <1>0, <1>p DEF TypeOK, Registering, Holders, Process, seat, radio
<1>1. ASSUME Dropped PROVE Order'
  <2>1. FirstOp'
    <3> SUFFICES ASSUME NEW d \in first' PROVE Doing("start", "copy")' /\ op'.c = d
      BY DEF FirstOp
    <3> QED
      BY <1>1 DEF FirstOp, Doing, Operations, Dropped, Leaves
  <2>2. FirstPc'
    <3> SUFFICES ASSUME NEW d \in first' PROVE Begun(d)'
      BY DEF FirstPc
    <3> QED
      BY <1>1 DEF FirstPc, Begun, OffIdle, Dropped, Leaves
  <2>3. StoppingIn'
    <3> SUFFICES ASSUME NEW d \in stopping' PROVE Doing("stop", "copy")' /\ op'.c = d
      BY DEF StoppingIn
    <3> QED
      BY <1>1 DEF StoppingIn, Doing, Operations, Dropped, Leaves
  <2>4. OffIdle'
    <3> SUFFICES ASSUME NEW d \in Copies, pc'[d] = "off" PROVE st'[d] = "none"
      BY DEF OffIdle
    <3> QED
      BY <1>1 DEF OffIdle, NotYetLaunched, Dropped, Leaves
  <2>5. HolderLive'
    <3> SUFFICES ASSUME NEW k \in Holders, Holds(k)' PROVE st'[k] = "live"
      BY DEF HolderLive
    <3> QED
      BY <1>1 DEF HolderLive, Holds, Entries, Dropped, Leaves
  <2>6. ProcessStarts'
    BY <1>1 DEF ProcessStarts, Doing, Operations, Dropped, Leaves
  <2> QED
    BY <2>1, <2>2, <2>3, <2>4, <2>5, <2>6 DEF Order
<1>2. ASSUME Back PROVE Order'
  <2>1. FirstOp'
    <3> SUFFICES ASSUME NEW d \in first' PROVE Doing("start", "copy")' /\ op'.c = d
      BY DEF FirstOp
    <3> QED
      BY <1>2 DEF FirstOp, Doing, Operations, Back
  <2>2. FirstPc'
    <3> SUFFICES ASSUME NEW d \in first' PROVE Begun(d)'
      BY DEF FirstPc
    <3> QED
      BY <1>2 DEF FirstPc, Begun, OffIdle, Back
  <2>3. StoppingIn'
    <3> SUFFICES ASSUME NEW d \in stopping' PROVE Doing("stop", "copy")' /\ op'.c = d
      BY DEF StoppingIn
    <3> QED
      BY <1>2 DEF StoppingIn, Doing, Operations, Back
  <2>4. OffIdle'
    <3> SUFFICES ASSUME NEW d \in Copies, pc'[d] = "off" PROVE st'[d] = "none"
      BY DEF OffIdle
    <3> QED
      BY <1>2 DEF OffIdle, NotYetLaunched, Back
  <2>5. HolderLive'
    <3> SUFFICES ASSUME NEW k \in Holders, Holds(k)' PROVE st'[k] = "live"
      BY DEF HolderLive
    <3> QED
      BY <1>2 DEF HolderLive, Holds, Entries, Back
  <2>6. ProcessStarts'
    BY <1>2 DEF ProcessStarts, Doing, Operations, Back
  <2> QED
    BY <2>1, <2>2, <2>3, <2>4, <2>5, <2>6 DEF Order
<1>3. ASSUME StationDies PROVE Order'
  <2>1. FirstOp'
    <3> SUFFICES ASSUME NEW d \in first' PROVE Doing("start", "copy")' /\ op'.c = d
      BY DEF FirstOp
    <3> QED
      BY <1>3 DEF FirstOp, Doing, Operations, StationDies, Fault, LetsGo, Leaves
  <2>2. FirstPc'
    <3> SUFFICES ASSUME NEW d \in first' PROVE Begun(d)'
      BY DEF FirstPc
    <3> QED
      BY <1>3 DEF FirstPc, Begun, OffIdle, StationDies, Fault, LetsGo, Leaves
  <2>3. StoppingIn'
    <3> SUFFICES ASSUME NEW d \in stopping' PROVE Doing("stop", "copy")' /\ op'.c = d
      BY DEF StoppingIn
    <3> QED
      BY <1>3 DEF StoppingIn, Doing, Operations, StationDies, Fault, LetsGo, Leaves
  <2>4. OffIdle'
    <3> SUFFICES ASSUME NEW d \in Copies, pc'[d] = "off" PROVE st'[d] = "none"
      BY DEF OffIdle
    <3> QED
      BY <1>3 DEF OffIdle, NotYetLaunched, StationDies, Fault, LetsGo, Leaves
  <2>5. HolderLive'
    <3> SUFFICES ASSUME NEW k \in Holders, Holds(k)' PROVE st'[k] = "live"
      BY DEF HolderLive
    <3> QED
      BY <1>3 DEF HolderLive, Holds, Entries, StationDies, Fault, LetsGo, Leaves
  <2>6. ProcessStarts'
    BY <1>3 DEF ProcessStarts, Doing, Operations, StationDies, Fault, LetsGo, Leaves
  <2> QED
    BY <2>1, <2>2, <2>3, <2>4, <2>5, <2>6 DEF Order
<1>4. ASSUME Outage PROVE Order'
  <2>1. FirstOp'
    <3> SUFFICES ASSUME NEW d \in first' PROVE Doing("start", "copy")' /\ op'.c = d
      BY DEF FirstOp
    <3> QED
      BY <1>4 DEF FirstOp, Doing, Operations, Outage, Fault
  <2>2. FirstPc'
    <3> SUFFICES ASSUME NEW d \in first' PROVE Begun(d)'
      BY DEF FirstPc
    <3> QED
      BY <1>4 DEF FirstPc, Begun, OffIdle, Outage, Fault
  <2>3. StoppingIn'
    <3> SUFFICES ASSUME NEW d \in stopping' PROVE Doing("stop", "copy")' /\ op'.c = d
      BY DEF StoppingIn
    <3> QED
      BY <1>4 DEF StoppingIn, Doing, Operations, Outage, Fault
  <2>4. OffIdle'
    <3> SUFFICES ASSUME NEW d \in Copies, pc'[d] = "off" PROVE st'[d] = "none"
      BY DEF OffIdle
    <3> QED
      BY <1>4 DEF OffIdle, NotYetLaunched, Outage, Fault
  <2>5. HolderLive'
    <3> SUFFICES ASSUME NEW k \in Holders, Holds(k)' PROVE st'[k] = "live"
      BY DEF HolderLive
    <3> QED
      BY <1>4 DEF HolderLive, Holds, Entries, Outage, Fault
  <2>6. ProcessStarts'
    BY <1>4 DEF ProcessStarts, Doing, Operations, Outage, Fault
  <2> QED
    BY <2>1, <2>2, <2>3, <2>4, <2>5, <2>6 DEF Order
<1>5. ASSUME StationFailed PROVE Order'
  <2>1. FirstOp'
    <3> SUFFICES ASSUME NEW d \in first' PROVE Doing("start", "copy")' /\ op'.c = d
      BY DEF FirstOp
    <3> QED
      BY <1>5 DEF FirstOp, Doing, Operations, StationFailed
  <2>2. FirstPc'
    <3> SUFFICES ASSUME NEW d \in first' PROVE Begun(d)'
      BY DEF FirstPc
    <3> QED
      BY <1>5 DEF FirstPc, Begun, OffIdle, StationFailed
  <2>3. StoppingIn'
    <3> SUFFICES ASSUME NEW d \in stopping' PROVE Doing("stop", "copy")' /\ op'.c = d
      BY DEF StoppingIn
    <3> QED
      BY <1>5 DEF StoppingIn, Doing, Operations, StationFailed
  <2>4. OffIdle'
    <3> SUFFICES ASSUME NEW d \in Copies, pc'[d] = "off" PROVE st'[d] = "none"
      BY DEF OffIdle
    <3> QED
      BY <1>5 DEF OffIdle, NotYetLaunched, StationFailed
  <2>5. HolderLive'
    <3> SUFFICES ASSUME NEW k \in Holders, Holds(k)' PROVE st'[k] = "live"
      BY DEF HolderLive
    <3> QED
      BY <1>5 DEF HolderLive, Holds, Entries, StationFailed
  <2>6. ProcessStarts'
    BY <1>5 DEF ProcessStarts, Doing, Operations, StationFailed
  <2> QED
    BY <2>1, <2>2, <2>3, <2>4, <2>5, <2>6 DEF Order
<1>6. ASSUME Launch PROVE Order'
  <2>1. FirstOp'
    <3> SUFFICES ASSUME NEW d \in first' PROVE Doing("start", "copy")' /\ op'.c = d
      BY DEF FirstOp
    <3> QED
      BY <1>6 DEF FirstOp, Doing, Operations, Launch, Goes
  <2>2. FirstPc'
    <3> SUFFICES ASSUME NEW d \in first' PROVE Begun(d)'
      BY DEF FirstPc
    <3>1. op \in Operations /\ op.c \in Copies /\ pc[op.c] = "off" /\ st[op.c] = "none"
      BY <1>6 DEF Launch, Doing, Operations, OffIdle, NotYetLaunched
    <3>2. d \in Copies /\ st' = st /\ (d # op.c => pc'[d] = pc[d] /\ d \in first) /\ pc'[op.c] = "connects"
      BY <1>6, <3>1 DEF Launch, Goes, TypeOK
    <3> QED
      BY <3>1, <3>2 DEF FirstPc, Begun
  <2>3. StoppingIn'
    <3> SUFFICES ASSUME NEW d \in stopping' PROVE Doing("stop", "copy")' /\ op'.c = d
      BY DEF StoppingIn
    <3> QED
      BY <1>6 DEF StoppingIn, Doing, Operations, Launch, Goes
  <2>4. OffIdle'
    <3> SUFFICES ASSUME NEW d \in Copies, pc'[d] = "off" PROVE st'[d] = "none"
      BY DEF OffIdle
    <3> QED
      BY <1>6 DEF OffIdle, NotYetLaunched, Launch, Goes
  <2>5. HolderLive'
    <3> SUFFICES ASSUME NEW k \in Holders, Holds(k)' PROVE st'[k] = "live"
      BY DEF HolderLive
    <3> QED
      BY <1>6 DEF HolderLive, Holds, Entries, Launch, Goes
  <2>6. ProcessStarts'
    BY <1>6 DEF ProcessStarts, Doing, Operations, Launch, Goes
  <2> QED
    BY <2>1, <2>2, <2>3, <2>4, <2>5, <2>6 DEF Order
<1>7. ASSUME Started PROVE Order'
  <2>1. FirstOp'
    <3> SUFFICES ASSUME NEW d \in first' PROVE Doing("start", "copy")' /\ op'.c = d
      BY DEF FirstOp
    <3> QED
      BY <1>7 DEF FirstOp, Doing, Operations, Started
  <2>2. FirstPc'
    <3> SUFFICES ASSUME NEW d \in first' PROVE Begun(d)'
      BY DEF FirstPc
    <3> QED
      BY <1>7 DEF FirstPc, Begun, OffIdle, Started
  <2>3. StoppingIn'
    <3> SUFFICES ASSUME NEW d \in stopping' PROVE Doing("stop", "copy")' /\ op'.c = d
      BY DEF StoppingIn
    <3> QED
      BY <1>7 DEF StoppingIn, Doing, Operations, Started
  <2>4. OffIdle'
    <3> SUFFICES ASSUME NEW d \in Copies, pc'[d] = "off" PROVE st'[d] = "none"
      BY DEF OffIdle
    <3> QED
      BY <1>7 DEF OffIdle, NotYetLaunched, Started
  <2>5. HolderLive'
    <3> SUFFICES ASSUME NEW k \in Holders, Holds(k)' PROVE st'[k] = "live"
      BY DEF HolderLive
    <3> QED
      BY <1>7 DEF HolderLive, Holds, Entries, Started
  <2>6. ProcessStarts'
    BY <1>7 DEF ProcessStarts, Doing, Operations, Started
  <2> QED
    BY <2>1, <2>2, <2>3, <2>4, <2>5, <2>6 DEF Order
<1>8. ASSUME Stopped PROVE Order'
  <2>1. FirstOp'
    <3> SUFFICES ASSUME NEW d \in first' PROVE Doing("start", "copy")' /\ op'.c = d
      BY DEF FirstOp
    <3> QED
      BY <1>8 DEF FirstOp, Doing, Operations, Stopped, InUse
  <2>2. FirstPc'
    <3> SUFFICES ASSUME NEW d \in first' PROVE Begun(d)'
      BY DEF FirstPc
    <3> QED
      BY <1>8 DEF FirstPc, Begun, OffIdle, Stopped, InUse
  <2>3. StoppingIn'
    <3> SUFFICES ASSUME NEW d \in stopping' PROVE Doing("stop", "copy")' /\ op'.c = d
      BY DEF StoppingIn
    <3> QED
      BY <1>8 DEF StoppingIn, Doing, Stopped
  <2>4. OffIdle'
    <3> SUFFICES ASSUME NEW d \in Copies, pc'[d] = "off" PROVE st'[d] = "none"
      BY DEF OffIdle
    <3> QED
      BY <1>8 DEF OffIdle, NotYetLaunched, Stopped, InUse
  <2>5. HolderLive'
    <3> SUFFICES ASSUME NEW k \in Holders, Holds(k)' PROVE st'[k] = "live"
      BY DEF HolderLive
    <3> QED
      BY <1>8 DEF HolderLive, Holds, Entries, Stopped, InUse
  <2>6. ProcessStarts'
    BY <1>8 DEF ProcessStarts, Doing, Operations, Stopped, InUse
  <2> QED
    BY <2>1, <2>2, <2>3, <2>4, <2>5, <2>6 DEF Order
<1>9. ASSUME StationStopped PROVE Order'
  <2>1. FirstOp'
    <3> SUFFICES ASSUME NEW d \in first' PROVE Doing("start", "copy")' /\ op'.c = d
      BY DEF FirstOp
    <3> QED
      BY <1>9 DEF FirstOp, Doing, Operations, StationStopped
  <2>2. FirstPc'
    <3> SUFFICES ASSUME NEW d \in first' PROVE Begun(d)'
      BY DEF FirstPc
    <3> QED
      BY <1>9 DEF FirstPc, Begun, OffIdle, StationStopped
  <2>3. StoppingIn'
    <3> SUFFICES ASSUME NEW d \in stopping' PROVE Doing("stop", "copy")' /\ op'.c = d
      BY DEF StoppingIn
    <3> QED
      BY <1>9 DEF StoppingIn, Doing, Operations, StationStopped
  <2>4. OffIdle'
    <3> SUFFICES ASSUME NEW d \in Copies, pc'[d] = "off" PROVE st'[d] = "none"
      BY DEF OffIdle
    <3> QED
      BY <1>9 DEF OffIdle, NotYetLaunched, StationStopped
  <2>5. HolderLive'
    <3> SUFFICES ASSUME NEW k \in Holders, Holds(k)' PROVE st'[k] = "live"
      BY DEF HolderLive
    <3> QED
      BY <1>9 DEF HolderLive, Holds, Entries, StationStopped
  <2>6. ProcessStarts'
    BY <1>9 DEF ProcessStarts, Doing, Operations, StationStopped
  <2> QED
    BY <2>1, <2>2, <2>3, <2>4, <2>5, <2>6 DEF Order
<1>10. ASSUME Reap PROVE Order'
  <2>1. FirstOp'
    <3> SUFFICES ASSUME NEW d \in first' PROVE Doing("start", "copy")' /\ op'.c = d
      BY DEF FirstOp
    <3> QED
      BY <1>10 DEF FirstOp, Doing, Operations, Reap, InUse
  <2>2. FirstPc'
    <3> SUFFICES ASSUME NEW d \in first' PROVE Begun(d)'
      BY DEF FirstPc
    <3> QED
      BY <1>10 DEF FirstPc, Begun, OffIdle, Reap, InUse
  <2>3. StoppingIn'
    <3> SUFFICES ASSUME NEW d \in stopping' PROVE Doing("stop", "copy")' /\ op'.c = d
      BY DEF StoppingIn
    <3> QED
      BY <1>10 DEF StoppingIn, Doing, Operations, Reap, InUse
  <2>4. OffIdle'
    <3> SUFFICES ASSUME NEW d \in Copies, pc'[d] = "off" PROVE st'[d] = "none"
      BY DEF OffIdle
    <3> QED
      BY <1>10 DEF OffIdle, NotYetLaunched, Reap, InUse
  <2>5. HolderLive'
    <3> SUFFICES ASSUME NEW k \in Holders, Holds(k)' PROVE st'[k] = "live"
      BY DEF HolderLive
    <3> QED
      BY <1>10 DEF HolderLive, Holds, Entries, Reap, InUse
  <2>6. ProcessStarts'
    BY <1>10 DEF ProcessStarts, Doing, Operations, Reap, InUse
  <2> QED
    BY <2>1, <2>2, <2>3, <2>4, <2>5, <2>6 DEF Order
<1>11. ASSUME ProcessEnds PROVE Order'
  <2>1. FirstOp'
    <3> SUFFICES ASSUME NEW d \in first' PROVE Doing("start", "copy")' /\ op'.c = d
      BY DEF FirstOp
    <3> QED
      BY <1>11 DEF FirstOp, Doing, Operations, ProcessEnds, LetsGo, Leaves
  <2>2. FirstPc'
    <3> SUFFICES ASSUME NEW d \in first' PROVE Begun(d)'
      BY DEF FirstPc
    <3> QED
      BY <1>11 DEF FirstPc, Begun, OffIdle, ProcessEnds, LetsGo, Leaves
  <2>3. StoppingIn'
    <3> SUFFICES ASSUME NEW d \in stopping' PROVE Doing("stop", "copy")' /\ op'.c = d
      BY DEF StoppingIn
    <3> QED
      BY <1>11 DEF StoppingIn, Doing, Operations, ProcessEnds, LetsGo, Leaves
  <2>4. OffIdle'
    <3> SUFFICES ASSUME NEW d \in Copies, pc'[d] = "off" PROVE st'[d] = "none"
      BY DEF OffIdle
    <3> QED
      BY <1>11 DEF OffIdle, NotYetLaunched, ProcessEnds, LetsGo, Leaves
  <2>5. HolderLive'
    <3> SUFFICES ASSUME NEW k \in Holders, Holds(k)' PROVE st'[k] = "live"
      BY DEF HolderLive
    <3> QED
      BY <1>11 DEF HolderLive, Holds, Entries, ProcessEnds, LetsGo, Leaves
  <2>6. ProcessStarts'
    BY <1>11 DEF ProcessStarts, Doing, Operations, ProcessEnds, LetsGo, Leaves
  <2> QED
    BY <2>1, <2>2, <2>3, <2>4, <2>5, <2>6 DEF Order
<1>12. ASSUME NEW c \in Copies, Start(c) PROVE Order'
  <2>a. op' \in Operations /\ op' # None /\ op'.c = c /\ op'.do = "start"
    BY <1>12, Asked
  <2>1. FirstOp'
    <3> SUFFICES ASSUME NEW d \in first' PROVE Doing("start", "copy")' /\ op'.c = d
      BY DEF FirstOp
    <3> QED
      BY <1>12, <2>a DEF FirstOp, Doing, Operations, Start
  <2>2. FirstPc'
    <3> SUFFICES ASSUME NEW d \in first' PROVE Begun(d)'
      BY DEF FirstPc
    <3> QED
      BY <1>12, <2>a DEF FirstPc, Begun, OffIdle, Start
  <2>3. StoppingIn'
    <3> SUFFICES ASSUME NEW d \in stopping' PROVE Doing("stop", "copy")' /\ op'.c = d
      BY DEF StoppingIn
    <3> QED
      BY <1>12, <2>a DEF StoppingIn, Doing, Operations, Start
  <2>4. OffIdle'
    <3> SUFFICES ASSUME NEW d \in Copies, pc'[d] = "off" PROVE st'[d] = "none"
      BY DEF OffIdle
    <3> QED
      BY <1>12, <2>a DEF OffIdle, NotYetLaunched, Start
  <2>5. HolderLive'
    <3> SUFFICES ASSUME NEW k \in Holders, Holds(k)' PROVE st'[k] = "live"
      BY DEF HolderLive
    <3> QED
      BY <1>12, <2>a DEF HolderLive, Holds, Entries, Start
  <2>6. ProcessStarts'
    <3>1. CASE st[Process] # "none" /\ UNCHANGED st
      BY <1>12, <3>1 DEF Start, ProcessStarts, Doing
    <3>2. CASE op'.at = "station"
      BY <2>a, <3>2 DEF ProcessStarts, Doing
    <3> QED
      BY <1>12, <3>1, <3>2, Asked
  <2> QED
    BY <2>1, <2>2, <2>3, <2>4, <2>5, <2>6 DEF Order
<1>13. ASSUME NEW c \in Copies, Stop(c) PROVE Order'
  <2>a. op' \in Operations /\ op' # None /\ op'.c = c /\ op'.do = "stop"
    BY <1>13, Asked
  <2>1. FirstOp'
    <3> SUFFICES ASSUME NEW d \in first' PROVE Doing("start", "copy")' /\ op'.c = d
      BY DEF FirstOp
    <3> QED
      BY <1>13, <2>a DEF FirstOp, Doing, Operations, Stop
  <2>2. FirstPc'
    <3> SUFFICES ASSUME NEW d \in first' PROVE Begun(d)'
      BY DEF FirstPc
    <3> QED
      BY <1>13, <2>a DEF FirstPc, Begun, OffIdle, Stop
  <2>3. StoppingIn'
    <3> SUFFICES ASSUME NEW d \in stopping' PROVE Doing("stop", "copy")' /\ op'.c = d
      BY DEF StoppingIn
    <3> QED
      BY <1>13, <2>a DEF StoppingIn, Doing, Operations, Stop
  <2>4. OffIdle'
    <3> SUFFICES ASSUME NEW d \in Copies, pc'[d] = "off" PROVE st'[d] = "none"
      BY DEF OffIdle
    <3> QED
      BY <1>13, <2>a DEF OffIdle, NotYetLaunched, Stop
  <2>5. HolderLive'
    <3> SUFFICES ASSUME NEW k \in Holders, Holds(k)' PROVE st'[k] = "live"
      BY DEF HolderLive
    <3> QED
      BY <1>13, <2>a DEF HolderLive, Holds, Entries, Stop
  <2>6. ProcessStarts'
    BY <1>13, <2>a DEF ProcessStarts, Doing, Operations, Stop
  <2> QED
    BY <2>1, <2>2, <2>3, <2>4, <2>5, <2>6 DEF Order
<1>14. ASSUME NEW c \in Copies, CopyDies(c) PROVE Order'
  <2>1. FirstOp'
    <3> SUFFICES ASSUME NEW d \in first' PROVE Doing("start", "copy")' /\ op'.c = d
      BY DEF FirstOp
    <3> QED
      BY <1>14 DEF FirstOp, Doing, Operations, CopyDies, Fault, Goes, LetsGo, Leaves
  <2>2. FirstPc'
    <3> SUFFICES ASSUME NEW d \in first' PROVE Begun(d)'
      BY DEF FirstPc
    <3> QED
      BY <1>14 DEF FirstPc, Begun, OffIdle, CopyDies, Fault, Goes, LetsGo, Leaves
  <2>3. StoppingIn'
    <3> SUFFICES ASSUME NEW d \in stopping' PROVE Doing("stop", "copy")' /\ op'.c = d
      BY DEF StoppingIn
    <3> QED
      BY <1>14 DEF StoppingIn, Doing, Operations, CopyDies, Fault, Goes, LetsGo, Leaves
  <2>4. OffIdle'
    <3> SUFFICES ASSUME NEW d \in Copies, pc'[d] = "off" PROVE st'[d] = "none"
      BY DEF OffIdle
    <3> QED
      BY <1>14 DEF OffIdle, NotYetLaunched, CopyDies, Fault, Goes, LetsGo, Leaves
  <2>5. HolderLive'
    <3> SUFFICES ASSUME NEW k \in Holders, Holds(k)' PROVE st'[k] = "live"
      BY DEF HolderLive
    <3> QED
      BY <1>14 DEF HolderLive, Holds, Entries, CopyDies, Fault, Goes, LetsGo, Leaves
  <2>6. ProcessStarts'
    BY <1>14 DEF ProcessStarts, Doing, Operations, CopyDies, Fault, Goes, LetsGo, Leaves
  <2> QED
    BY <2>1, <2>2, <2>3, <2>4, <2>5, <2>6 DEF Order
<1>15. ASSUME NEW c \in Copies, CopyCut(c) PROVE Order'
  <2>1. FirstOp'
    <3> SUFFICES ASSUME NEW d \in first' PROVE Doing("start", "copy")' /\ op'.c = d
      BY DEF FirstOp
    <3> QED
      BY <1>15 DEF FirstOp, Doing, Operations, CopyCut, Fault, Goes
  <2>2. FirstPc'
    <3> SUFFICES ASSUME NEW d \in first' PROVE Begun(d)'
      BY DEF FirstPc
    <3> QED
      BY <1>15 DEF FirstPc, Begun, OffIdle, CopyCut, Fault, Goes
  <2>3. StoppingIn'
    <3> SUFFICES ASSUME NEW d \in stopping' PROVE Doing("stop", "copy")' /\ op'.c = d
      BY DEF StoppingIn
    <3> QED
      BY <1>15 DEF StoppingIn, Doing, Operations, CopyCut, Fault, Goes
  <2>4. OffIdle'
    <3> SUFFICES ASSUME NEW d \in Copies, pc'[d] = "off" PROVE st'[d] = "none"
      BY DEF OffIdle
    <3> QED
      BY <1>15 DEF OffIdle, NotYetLaunched, CopyCut, Fault, Goes
  <2>5. HolderLive'
    <3> SUFFICES ASSUME NEW k \in Holders, Holds(k)' PROVE st'[k] = "live"
      BY DEF HolderLive
    <3> QED
      BY <1>15 DEF HolderLive, Holds, Entries, CopyCut, Fault, Goes
  <2>6. ProcessStarts'
    BY <1>15 DEF ProcessStarts, Doing, Operations, CopyCut, Fault, Goes
  <2> QED
    BY <2>1, <2>2, <2>3, <2>4, <2>5, <2>6 DEF Order
<1>16. ASSUME NEW c \in Copies, Stalls(c) PROVE Order'
  <2>1. FirstOp'
    <3> SUFFICES ASSUME NEW d \in first' PROVE Doing("start", "copy")' /\ op'.c = d
      BY DEF FirstOp
    <3> QED
      BY <1>16 DEF FirstOp, Doing, Operations, Stalls, Goes
  <2>2. FirstPc'
    <3> SUFFICES ASSUME NEW d \in first' PROVE Begun(d)'
      BY DEF FirstPc
    <3> QED
      BY <1>16 DEF FirstPc, Begun, OffIdle, Stalls, Goes
  <2>3. StoppingIn'
    <3> SUFFICES ASSUME NEW d \in stopping' PROVE Doing("stop", "copy")' /\ op'.c = d
      BY DEF StoppingIn
    <3> QED
      BY <1>16 DEF StoppingIn, Doing, Operations, Stalls, Goes
  <2>4. OffIdle'
    <3> SUFFICES ASSUME NEW d \in Copies, pc'[d] = "off" PROVE st'[d] = "none"
      BY DEF OffIdle
    <3> QED
      BY <1>16 DEF OffIdle, NotYetLaunched, Stalls, Goes
  <2>5. HolderLive'
    <3> SUFFICES ASSUME NEW k \in Holders, Holds(k)' PROVE st'[k] = "live"
      BY DEF HolderLive
    <3> QED
      BY <1>16 DEF HolderLive, Holds, Entries, Stalls, Goes
  <2>6. ProcessStarts'
    BY <1>16 DEF ProcessStarts, Doing, Operations, Stalls, Goes
  <2> QED
    BY <2>1, <2>2, <2>3, <2>4, <2>5, <2>6 DEF Order
<1>17. ASSUME NEW c \in Copies, Connect(c) PROVE Order'
  <2>1. FirstOp'
    <3> SUFFICES ASSUME NEW d \in first' PROVE Doing("start", "copy")' /\ op'.c = d
      BY DEF FirstOp
    <3> QED
      BY <1>17 DEF FirstOp, Doing, Operations, Connect, Goes, copyOnly
  <2>2. FirstPc'
    <3> SUFFICES ASSUME NEW d \in first' PROVE Begun(d)'
      BY DEF FirstPc
    <3>1. CASE d = c
      BY <1>17, <3>1 DEF Connect, Goes, FirstPc, Begun, copyOnly
    <3>2. CASE d # c
      <4>1. pc'[d] = pc[d] /\ st'[d] = st[d] /\ d \in first
        BY <1>17, <3>2 DEF Connect, Goes, TypeOK, copyOnly, Holders
      <4> QED
        BY <4>1 DEF FirstPc, Begun
    <3> QED
      BY <3>1, <3>2
  <2>3. StoppingIn'
    <3> SUFFICES ASSUME NEW d \in stopping' PROVE Doing("stop", "copy")' /\ op'.c = d
      BY DEF StoppingIn
    <3> QED
      BY <1>17 DEF StoppingIn, Doing, Operations, Connect, Goes, copyOnly
  <2>4. OffIdle'
    <3> SUFFICES ASSUME NEW d \in Copies, pc'[d] = "off" PROVE st'[d] = "none"
      BY DEF OffIdle
    <3> QED
      BY <1>17 DEF OffIdle, NotYetLaunched, Connect, Goes, copyOnly
  <2>5. HolderLive'
    <3> SUFFICES ASSUME NEW k \in Holders, Holds(k)' PROVE st'[k] = "live"
      BY DEF HolderLive
    <3>1. Holds(k) /\ st[k] = "live" /\ gui # None
      BY <1>17 DEF Connect, copyOnly, Holds, HolderLive
    <3>2. st'[k] = st[k]
      BY <1>17, <3>1 DEF Connect, TypeOK, Holders
    <3> QED
      BY <3>1, <3>2
  <2>6. ProcessStarts'
    BY <1>17 DEF ProcessStarts, Doing, Operations, Connect, Goes, copyOnly
  <2> QED
    BY <2>1, <2>2, <2>3, <2>4, <2>5, <2>6 DEF Order
<1>18. ASSUME NEW c \in Copies, Poll(c) PROVE Order'
  <2>1. FirstOp'
    <3> SUFFICES ASSUME NEW d \in first' PROVE Doing("start", "copy")' /\ op'.c = d
      BY DEF FirstOp
    <3> QED
      BY <1>18 DEF FirstOp, Doing, Operations, Poll, Goes, copyOnly
  <2>2. FirstPc'
    <3> SUFFICES ASSUME NEW d \in first' PROVE Begun(d)'
      BY DEF FirstPc
    <3> QED
      BY <1>18 DEF FirstPc, Begun, OffIdle, Poll, Goes, copyOnly
  <2>3. StoppingIn'
    <3> SUFFICES ASSUME NEW d \in stopping' PROVE Doing("stop", "copy")' /\ op'.c = d
      BY DEF StoppingIn
    <3> QED
      BY <1>18 DEF StoppingIn, Doing, Operations, Poll, Goes, copyOnly
  <2>4. OffIdle'
    <3> SUFFICES ASSUME NEW d \in Copies, pc'[d] = "off" PROVE st'[d] = "none"
      BY DEF OffIdle
    <3> QED
      BY <1>18 DEF OffIdle, NotYetLaunched, Poll, Goes, copyOnly
  <2>5. HolderLive'
    <3> SUFFICES ASSUME NEW k \in Holders, Holds(k)' PROVE st'[k] = "live"
      BY DEF HolderLive
    <3> QED
      BY <1>18 DEF HolderLive, Holds, Entries, Poll, Goes, copyOnly
  <2>6. ProcessStarts'
    BY <1>18 DEF ProcessStarts, Doing, Operations, Poll, Goes, copyOnly
  <2> QED
    BY <2>1, <2>2, <2>3, <2>4, <2>5, <2>6 DEF Order
<1>19. ASSUME NEW c \in Copies, WaitEnds(c) PROVE Order'
  <2>1. FirstOp'
    <3> SUFFICES ASSUME NEW d \in first' PROVE Doing("start", "copy")' /\ op'.c = d
      BY DEF FirstOp
    <3> QED
      BY <1>19 DEF FirstOp, Doing, Operations, WaitEnds, Goes, copyOnly, Turn
  <2>2. FirstPc'
    <3> SUFFICES ASSUME NEW d \in first' PROVE Begun(d)'
      BY DEF FirstPc
    <3> QED
      BY <1>19 DEF FirstPc, Begun, OffIdle, WaitEnds, Goes, copyOnly, Turn
  <2>3. StoppingIn'
    <3> SUFFICES ASSUME NEW d \in stopping' PROVE Doing("stop", "copy")' /\ op'.c = d
      BY DEF StoppingIn
    <3> QED
      BY <1>19 DEF StoppingIn, Doing, Operations, WaitEnds, Goes, copyOnly, Turn
  <2>4. OffIdle'
    <3> SUFFICES ASSUME NEW d \in Copies, pc'[d] = "off" PROVE st'[d] = "none"
      BY DEF OffIdle
    <3> QED
      BY <1>19 DEF OffIdle, NotYetLaunched, WaitEnds, Goes, copyOnly, Turn
  <2>5. HolderLive'
    <3> SUFFICES ASSUME NEW k \in Holders, Holds(k)' PROVE st'[k] = "live"
      BY DEF HolderLive
    <3> QED
      BY <1>19 DEF HolderLive, Holds, Entries, WaitEnds, Goes, copyOnly, Turn
  <2>6. ProcessStarts'
    BY <1>19 DEF ProcessStarts, Doing, Operations, WaitEnds, Goes, copyOnly, Turn
  <2> QED
    BY <2>1, <2>2, <2>3, <2>4, <2>5, <2>6 DEF Order
<1>20. ASSUME NEW c \in Copies, LooksAgain(c) PROVE Order'
  <2>1. FirstOp'
    <3> SUFFICES ASSUME NEW d \in first' PROVE Doing("start", "copy")' /\ op'.c = d
      BY DEF FirstOp
    <3> QED
      BY <1>20 DEF FirstOp, Doing, Operations, LooksAgain, Goes, copyOnly
  <2>2. FirstPc'
    <3> SUFFICES ASSUME NEW d \in first' PROVE Begun(d)'
      BY DEF FirstPc
    <3> QED
      BY <1>20 DEF FirstPc, Begun, OffIdle, LooksAgain, Goes, copyOnly
  <2>3. StoppingIn'
    <3> SUFFICES ASSUME NEW d \in stopping' PROVE Doing("stop", "copy")' /\ op'.c = d
      BY DEF StoppingIn
    <3> QED
      BY <1>20 DEF StoppingIn, Doing, Operations, LooksAgain, Goes, copyOnly
  <2>4. OffIdle'
    <3> SUFFICES ASSUME NEW d \in Copies, pc'[d] = "off" PROVE st'[d] = "none"
      BY DEF OffIdle
    <3> QED
      BY <1>20 DEF OffIdle, NotYetLaunched, LooksAgain, Goes, copyOnly
  <2>5. HolderLive'
    <3> SUFFICES ASSUME NEW k \in Holders, Holds(k)' PROVE st'[k] = "live"
      BY DEF HolderLive
    <3> QED
      BY <1>20 DEF HolderLive, Holds, Entries, LooksAgain, Goes, copyOnly
  <2>6. ProcessStarts'
    BY <1>20 DEF ProcessStarts, Doing, Operations, LooksAgain, Goes, copyOnly
  <2> QED
    BY <2>1, <2>2, <2>3, <2>4, <2>5, <2>6 DEF Order
<1>21. ASSUME NEW c \in Copies, Bind(c) PROVE Order'
  <2>1. FirstOp'
    <3> SUFFICES ASSUME NEW d \in first' PROVE Doing("start", "copy")' /\ op'.c = d
      BY DEF FirstOp
    <3> QED
      BY <1>21 DEF FirstOp, Doing, Operations, Bind, Goes
  <2>2. FirstPc'
    <3> SUFFICES ASSUME NEW d \in first' PROVE Begun(d)'
      BY DEF FirstPc
    <3> QED
      BY <1>21 DEF FirstPc, Begun, OffIdle, Bind, Goes
  <2>3. StoppingIn'
    <3> SUFFICES ASSUME NEW d \in stopping' PROVE Doing("stop", "copy")' /\ op'.c = d
      BY DEF StoppingIn
    <3> QED
      BY <1>21 DEF StoppingIn, Doing, Operations, Bind, Goes
  <2>4. OffIdle'
    <3> SUFFICES ASSUME NEW d \in Copies, pc'[d] = "off" PROVE st'[d] = "none"
      BY DEF OffIdle
    <3> QED
      BY <1>21 DEF OffIdle, NotYetLaunched, Bind, Goes
  <2>5. HolderLive'
    <3> SUFFICES ASSUME NEW k \in Holders, Holds(k)' PROVE st'[k] = "live"
      BY DEF HolderLive
    <3> QED
      BY <1>21 DEF HolderLive, Holds, Entries, Bind, Goes
  <2>6. ProcessStarts'
    BY <1>21 DEF ProcessStarts, Doing, Operations, Bind, Goes
  <2> QED
    BY <2>1, <2>2, <2>3, <2>4, <2>5, <2>6 DEF Order
<1>22. ASSUME NEW c \in Copies, Build(c) PROVE Order'
  <2>1. FirstOp'
    <3> SUFFICES ASSUME NEW d \in first' PROVE Doing("start", "copy")' /\ op'.c = d
      BY DEF FirstOp
    <3> QED
      BY <1>22 DEF FirstOp, Doing, Operations, Build, Goes
  <2>2. FirstPc'
    <3> SUFFICES ASSUME NEW d \in first' PROVE Begun(d)'
      BY DEF FirstPc
    <3> QED
      BY <1>22 DEF FirstPc, Begun, OffIdle, Build, Goes
  <2>3. StoppingIn'
    <3> SUFFICES ASSUME NEW d \in stopping' PROVE Doing("stop", "copy")' /\ op'.c = d
      BY DEF StoppingIn
    <3> QED
      BY <1>22 DEF StoppingIn, Doing, Operations, Build, Goes
  <2>4. OffIdle'
    <3> SUFFICES ASSUME NEW d \in Copies, pc'[d] = "off" PROVE st'[d] = "none"
      BY DEF OffIdle
    <3> QED
      BY <1>22 DEF OffIdle, NotYetLaunched, Build, Goes
  <2>5. HolderLive'
    <3> SUFFICES ASSUME NEW k \in Holders, Holds(k)' PROVE st'[k] = "live"
      BY DEF HolderLive
    <3> QED
      BY <1>22 DEF HolderLive, Holds, Entries, Build, Goes
  <2>6. ProcessStarts'
    BY <1>22 DEF ProcessStarts, Doing, Operations, Build, Goes
  <2> QED
    BY <2>1, <2>2, <2>3, <2>4, <2>5, <2>6 DEF Order
<1>23. ASSUME NEW c \in Copies, Missed(c) PROVE Order'
  <2>1. FirstOp'
    <3> SUFFICES ASSUME NEW d \in first' PROVE Doing("start", "copy")' /\ op'.c = d
      BY DEF FirstOp
    <3> QED
      BY <1>23 DEF FirstOp, Doing, Operations, Missed, Goes
  <2>2. FirstPc'
    <3> SUFFICES ASSUME NEW d \in first' PROVE Begun(d)'
      BY DEF FirstPc
    <3> QED
      BY <1>23 DEF FirstPc, Begun, OffIdle, Missed, Goes
  <2>3. StoppingIn'
    <3> SUFFICES ASSUME NEW d \in stopping' PROVE Doing("stop", "copy")' /\ op'.c = d
      BY DEF StoppingIn
    <3> QED
      BY <1>23 DEF StoppingIn, Doing, Operations, Missed, Goes
  <2>4. OffIdle'
    <3> SUFFICES ASSUME NEW d \in Copies, pc'[d] = "off" PROVE st'[d] = "none"
      BY DEF OffIdle
    <3> QED
      BY <1>23 DEF OffIdle, NotYetLaunched, Missed, Goes
  <2>5. HolderLive'
    <3> SUFFICES ASSUME NEW k \in Holders, Holds(k)' PROVE st'[k] = "live"
      BY DEF HolderLive
    <3> QED
      BY <1>23 DEF HolderLive, Holds, Entries, Missed, Goes
  <2>6. ProcessStarts'
    BY <1>23 DEF ProcessStarts, Doing, Operations, Missed, Goes
  <2> QED
    BY <2>1, <2>2, <2>3, <2>4, <2>5, <2>6 DEF Order
<1>24. ASSUME NEW c \in Copies, Lost(c) PROVE Order'
  <2>1. FirstOp'
    <3> SUFFICES ASSUME NEW d \in first' PROVE Doing("start", "copy")' /\ op'.c = d
      BY DEF FirstOp
    <3> QED
      BY <1>24 DEF FirstOp, Doing, Operations, Lost, Goes, copyOnly
  <2>2. FirstPc'
    <3> SUFFICES ASSUME NEW d \in first' PROVE Begun(d)'
      BY DEF FirstPc
    <3> QED
      BY <1>24 DEF FirstPc, Begun, OffIdle, Lost, Goes, copyOnly
  <2>3. StoppingIn'
    <3> SUFFICES ASSUME NEW d \in stopping' PROVE Doing("stop", "copy")' /\ op'.c = d
      BY DEF StoppingIn
    <3> QED
      BY <1>24 DEF StoppingIn, Doing, Operations, Lost, Goes, copyOnly
  <2>4. OffIdle'
    <3> SUFFICES ASSUME NEW d \in Copies, pc'[d] = "off" PROVE st'[d] = "none"
      BY DEF OffIdle
    <3> QED
      BY <1>24 DEF OffIdle, NotYetLaunched, Lost, Goes, copyOnly
  <2>5. HolderLive'
    <3> SUFFICES ASSUME NEW k \in Holders, Holds(k)' PROVE st'[k] = "live"
      BY DEF HolderLive
    <3> QED
      BY <1>24 DEF HolderLive, Holds, Entries, Lost, Goes, copyOnly
  <2>6. ProcessStarts'
    BY <1>24 DEF ProcessStarts, Doing, Operations, Lost, Goes, copyOnly
  <2> QED
    BY <2>1, <2>2, <2>3, <2>4, <2>5, <2>6 DEF Order
<1>25. ASSUME NEW c \in Copies, Settles(c) PROVE Order'
  <2>1. FirstOp'
    <3> SUFFICES ASSUME NEW d \in first' PROVE Doing("start", "copy")' /\ op'.c = d
      BY DEF FirstOp
    <3> QED
      BY <1>25 DEF FirstOp, Doing, Operations, Settles, Goes, copyOnly
  <2>2. FirstPc'
    <3> SUFFICES ASSUME NEW d \in first' PROVE Begun(d)'
      BY DEF FirstPc
    <3> QED
      BY <1>25 DEF FirstPc, Begun, OffIdle, Settles, Goes, copyOnly
  <2>3. StoppingIn'
    <3> SUFFICES ASSUME NEW d \in stopping' PROVE Doing("stop", "copy")' /\ op'.c = d
      BY DEF StoppingIn
    <3> QED
      BY <1>25 DEF StoppingIn, Doing, Operations, Settles, Goes, copyOnly
  <2>4. OffIdle'
    <3> SUFFICES ASSUME NEW d \in Copies, pc'[d] = "off" PROVE st'[d] = "none"
      BY DEF OffIdle
    <3> QED
      BY <1>25 DEF OffIdle, NotYetLaunched, Settles, Goes, copyOnly
  <2>5. HolderLive'
    <3> SUFFICES ASSUME NEW k \in Holders, Holds(k)' PROVE st'[k] = "live"
      BY DEF HolderLive
    <3> QED
      BY <1>25 DEF HolderLive, Holds, Entries, Settles, Goes, copyOnly
  <2>6. ProcessStarts'
    BY <1>25 DEF ProcessStarts, Doing, Operations, Settles, Goes, copyOnly
  <2> QED
    BY <2>1, <2>2, <2>3, <2>4, <2>5, <2>6 DEF Order
<1>26. ASSUME NEW c \in Copies, Ends(c) PROVE Order'
  <2>1. FirstOp'
    <3> SUFFICES ASSUME NEW d \in first' PROVE Doing("start", "copy")' /\ op'.c = d
      BY DEF FirstOp
    <3> QED
      BY <1>26 DEF FirstOp, Doing, Operations, Ends, Goes, LetsGo, Leaves
  <2>2. FirstPc'
    <3> SUFFICES ASSUME NEW d \in first' PROVE Begun(d)'
      BY DEF FirstPc
    <3> QED
      BY <1>26 DEF FirstPc, Begun, OffIdle, Ends, Goes, LetsGo, Leaves
  <2>3. StoppingIn'
    <3> SUFFICES ASSUME NEW d \in stopping' PROVE Doing("stop", "copy")' /\ op'.c = d
      BY DEF StoppingIn
    <3> QED
      BY <1>26 DEF StoppingIn, Doing, Operations, Ends, Goes, LetsGo, Leaves
  <2>4. OffIdle'
    <3> SUFFICES ASSUME NEW d \in Copies, pc'[d] = "off" PROVE st'[d] = "none"
      BY DEF OffIdle
    <3> QED
      BY <1>26 DEF OffIdle, NotYetLaunched, Ends, Goes, LetsGo, Leaves
  <2>5. HolderLive'
    <3> SUFFICES ASSUME NEW k \in Holders, Holds(k)' PROVE st'[k] = "live"
      BY DEF HolderLive
    <3> QED
      BY <1>26 DEF HolderLive, Holds, Entries, Ends, Goes, LetsGo, Leaves
  <2>6. ProcessStarts'
    BY <1>26 DEF ProcessStarts, Doing, Operations, Ends, Goes, LetsGo, Leaves
  <2> QED
    BY <2>1, <2>2, <2>3, <2>4, <2>5, <2>6 DEF Order
<1>27. ASSUME NEW h \in Holders, StationCut(h) PROVE Order'
  <2>1. FirstOp'
    <3> SUFFICES ASSUME NEW d \in first' PROVE Doing("start", "copy")' /\ op'.c = d
      BY DEF FirstOp
    <3> QED
      BY <1>27 DEF FirstOp, Doing, Operations, StationCut, Fault
  <2>2. FirstPc'
    <3> SUFFICES ASSUME NEW d \in first' PROVE Begun(d)'
      BY DEF FirstPc
    <3> QED
      BY <1>27 DEF FirstPc, Begun, OffIdle, StationCut, Fault
  <2>3. StoppingIn'
    <3> SUFFICES ASSUME NEW d \in stopping' PROVE Doing("stop", "copy")' /\ op'.c = d
      BY DEF StoppingIn
    <3> QED
      BY <1>27 DEF StoppingIn, Doing, Operations, StationCut, Fault
  <2>4. OffIdle'
    <3> SUFFICES ASSUME NEW d \in Copies, pc'[d] = "off" PROVE st'[d] = "none"
      BY DEF OffIdle
    <3> QED
      BY <1>27 DEF OffIdle, NotYetLaunched, StationCut, Fault
  <2>5. HolderLive'
    <3> SUFFICES ASSUME NEW k \in Holders, Holds(k)' PROVE st'[k] = "live"
      BY DEF HolderLive
    <3> QED
      BY <1>27 DEF HolderLive, Holds, Entries, StationCut, Fault
  <2>6. ProcessStarts'
    BY <1>27 DEF ProcessStarts, Doing, Operations, StationCut, Fault
  <2> QED
    BY <2>1, <2>2, <2>3, <2>4, <2>5, <2>6 DEF Order
<1>28. ASSUME NEW h \in Holders, Look(h) PROVE Order'
  <2>a. /\ op' \in Operations \cup {None}
        /\ op' # None => op # None /\ op'.do = op.do /\ op'.c = op.c /\ (op'.at = "copy" <=> op.at = "copy")
    BY <1>28, ProcessUpKeeps DEF Look, TypeOK
  <2>b. op' = op \/ (op # None /\ op.do = "start" /\ op.at = "station" /\ op'.at = "launch" /\ op'.do = "start")
    BY <1>28, <2>a DEF Look, ProcessUp, TypeOK, Operations
  <2>1. FirstOp'
    <3> SUFFICES ASSUME NEW d \in first' PROVE Doing("start", "copy")' /\ op'.c = d
      BY DEF FirstOp
    <3>1. d \in first /\ op # None /\ op.do = "start" /\ op.at = "copy" /\ op.c = d
      BY <1>28 DEF Look, FirstOp, Doing, radio
    <3> QED
      BY <2>b, <3>1 DEF Doing
  <2>2. FirstPc'
    <3> SUFFICES ASSUME NEW d \in first' PROVE Begun(d)'
      BY DEF FirstPc
    <3>1. d \in first /\ d \in Copies /\ d \in Holders
      BY <1>28 DEF Look, TypeOK, Holders
    <3>2. CASE d = h
      <4>1. pc[d] # "connects" /\ pc[d] \notin {"off", "waits", "live", "settles"}
        BY <1>28, <3>1, <3>2 DEF Look, FirstPc, Begun
      <4>2. pc' = pc \/ pc'[d] = "looks again"
        BY <1>28, <3>1, <3>2 DEF Look, Then, TypeOK
      <4> QED
        BY <4>1, <4>2 DEF Begun
    <3>3. CASE d # h
      <4>1. pc'[d] = pc[d] /\ st'[d] = st[d]
        BY <1>28, <3>1, <3>3 DEF Look, Then, TypeOK
      <4> QED
        BY <3>1, <4>1 DEF FirstPc, Begun
    <3> QED
      BY <3>2, <3>3
  <2>3. StoppingIn'
    <3> SUFFICES ASSUME NEW d \in stopping' PROVE Doing("stop", "copy")' /\ op'.c = d
      BY DEF StoppingIn
    <3>1. d \in stopping /\ op # None /\ op.do = "stop" /\ op.at = "copy" /\ op.c = d
      BY <1>28 DEF Look, StoppingIn, Doing, radio
    <3> QED
      BY <2>b, <3>1 DEF Doing
  <2>4. OffIdle'
    <3> SUFFICES ASSUME NEW d \in Copies, pc'[d] = "off" PROVE st'[d] = "none"
      BY DEF OffIdle
    <3> QED
      BY <1>28, <2>a, <2>b DEF OffIdle, NotYetLaunched, Look, Free, Then
  <2>5. HolderLive'
    <3> SUFFICES ASSUME NEW k \in Holders, Holds(k)' PROVE st'[k] = "live"
      BY DEF HolderLive
    <3>1. Holds(k) /\ st[k] = "live"
      BY <1>28 DEF Look, HolderLive, Holds, radio
    <3>2. k # h /\ st'[k] = st[k]
      BY <1>28, <3>1 DEF Look, TypeOK
    <3> QED
      BY <3>1, <3>2
  <2>6. ProcessStarts'
    BY <1>28, <2>a, <2>b DEF ProcessStarts, Doing, Operations, Look, Free, Then, ProcessUp
  <2> QED
    BY <2>1, <2>2, <2>3, <2>4, <2>5, <2>6 DEF Order
<1>29. ASSUME NEW h \in Holders, Register(h) PROVE Order'
  <2>a. /\ op' \in Operations \cup {None}
        /\ op' # None => op # None /\ op'.do = op.do /\ op'.c = op.c /\ (op'.at = "copy" <=> op.at = "copy")
    BY <1>29, ProcessUpKeeps DEF Register, TypeOK
  <2>b. op' = op \/ (op # None /\ op.do = "start" /\ op.at = "station" /\ op'.at = "launch" /\ op'.do = "start")
    BY <1>29, <2>a DEF Register, ProcessUp, TypeOK, Operations
  <2>1. FirstOp'
    <3> SUFFICES ASSUME NEW d \in first' PROVE Doing("start", "copy")' /\ op'.c = d
      BY DEF FirstOp
    <3>1. d \in first /\ op # None /\ op.do = "start" /\ op.at = "copy" /\ op.c = d
      BY <1>29 DEF Register, FirstOp, Doing, radio
    <3> QED
      BY <2>b, <3>1 DEF Doing
  <2>2. FirstPc'
    <3> SUFFICES ASSUME NEW d \in first' PROVE Begun(d)'
      BY DEF FirstPc
    <3> QED
      BY <1>29, <2>a, <2>b DEF FirstPc, Begun, OffIdle, Register, Then
  <2>3. StoppingIn'
    <3> SUFFICES ASSUME NEW d \in stopping' PROVE Doing("stop", "copy")' /\ op'.c = d
      BY DEF StoppingIn
    <3>1. d \in stopping /\ op # None /\ op.do = "stop" /\ op.at = "copy" /\ op.c = d
      BY <1>29 DEF Register, StoppingIn, Doing, radio
    <3> QED
      BY <2>b, <3>1 DEF Doing
  <2>4. OffIdle'
    <3> SUFFICES ASSUME NEW d \in Copies, pc'[d] = "off" PROVE st'[d] = "none"
      BY DEF OffIdle
    <3> QED
      BY <1>29, <2>a, <2>b DEF OffIdle, NotYetLaunched, Register, Then
  <2>5. HolderLive'
    <3> SUFFICES ASSUME NEW k \in Holders, Holds(k)' PROVE st'[k] = "live"
      BY DEF HolderLive
    <3> QED
      BY <1>29, <2>a, <2>b DEF HolderLive, Holds, Entries, Register, Then
  <2>6. ProcessStarts'
    BY <1>29, <2>a, <2>b DEF ProcessStarts, Doing, Operations, Register, Then, ProcessUp
  <2> QED
    BY <2>1, <2>2, <2>3, <2>4, <2>5, <2>6 DEF Order
<1>30. ASSUME NEW h \in Holders, BeatLost(h) PROVE Order'
  <2>1. FirstOp'
    <3> SUFFICES ASSUME NEW d \in first' PROVE Doing("start", "copy")' /\ op'.c = d
      BY DEF FirstOp
    <3> QED
      BY <1>30 DEF FirstOp, Doing, Operations, BeatLost, Silent
  <2>2. FirstPc'
    <3> SUFFICES ASSUME NEW d \in first' PROVE Begun(d)'
      BY DEF FirstPc
    <3> QED
      BY <1>30 DEF FirstPc, Begun, OffIdle, BeatLost, Silent
  <2>3. StoppingIn'
    <3> SUFFICES ASSUME NEW d \in stopping' PROVE Doing("stop", "copy")' /\ op'.c = d
      BY DEF StoppingIn
    <3> QED
      BY <1>30 DEF StoppingIn, Doing, Operations, BeatLost, Silent
  <2>4. OffIdle'
    <3> SUFFICES ASSUME NEW d \in Copies, pc'[d] = "off" PROVE st'[d] = "none"
      BY DEF OffIdle
    <3> QED
      BY <1>30 DEF OffIdle, NotYetLaunched, BeatLost, Silent
  <2>5. HolderLive'
    <3> SUFFICES ASSUME NEW k \in Holders, Holds(k)' PROVE st'[k] = "live"
      BY DEF HolderLive
    <3> QED
      BY <1>30 DEF HolderLive, Holds, Entries, BeatLost, Silent
  <2>6. ProcessStarts'
    BY <1>30 DEF ProcessStarts, Doing, Operations, BeatLost, Silent
  <2> QED
    BY <2>1, <2>2, <2>3, <2>4, <2>5, <2>6 DEF Order
<1>31. ASSUME NEW h \in Holders, Returns(h) PROVE Order'
  <2>1. FirstOp'
    <3> SUFFICES ASSUME NEW d \in first' PROVE Doing("start", "copy")' /\ op'.c = d
      BY DEF FirstOp
    <3> QED
      BY <1>31 DEF FirstOp, Doing, Operations, Returns, OursOrNone
  <2>2. FirstPc'
    <3> SUFFICES ASSUME NEW d \in first' PROVE Begun(d)'
      BY DEF FirstPc
    <3> QED
      BY <1>31 DEF FirstPc, Begun, OffIdle, Returns, OursOrNone
  <2>3. StoppingIn'
    <3> SUFFICES ASSUME NEW d \in stopping' PROVE Doing("stop", "copy")' /\ op'.c = d
      BY DEF StoppingIn
    <3> QED
      BY <1>31 DEF StoppingIn, Doing, Operations, Returns, OursOrNone
  <2>4. OffIdle'
    <3> SUFFICES ASSUME NEW d \in Copies, pc'[d] = "off" PROVE st'[d] = "none"
      BY DEF OffIdle
    <3> QED
      BY <1>31 DEF OffIdle, NotYetLaunched, Returns, OursOrNone
  <2>5. HolderLive'
    <3> SUFFICES ASSUME NEW k \in Holders, Holds(k)' PROVE st'[k] = "live"
      BY DEF HolderLive
    <3> QED
      BY <1>31 DEF HolderLive, Holds, Entries, Returns, OursOrNone
  <2>6. ProcessStarts'
    BY <1>31 DEF ProcessStarts, Doing, Operations, Returns, OursOrNone
  <2> QED
    BY <2>1, <2>2, <2>3, <2>4, <2>5, <2>6 DEF Order
<1>32. ASSUME NEW h \in Holders, NoAnswer(h) PROVE Order'
  <2>1. FirstOp'
    <3> SUFFICES ASSUME NEW d \in first' PROVE Doing("start", "copy")' /\ op'.c = d
      BY DEF FirstOp
    <3> QED
      BY <1>32 DEF FirstOp, Doing, Operations, NoAnswer, Then
  <2>2. FirstPc'
    <3> SUFFICES ASSUME NEW d \in first' PROVE Begun(d)'
      BY DEF FirstPc
    <3>1. d \in first /\ d \in Copies /\ d \in Holders
      BY <1>32 DEF NoAnswer, TypeOK, Holders
    <3>2. CASE d = h
      <4>1. pc[d] # "connects" /\ pc[d] \notin {"off", "waits", "live", "settles"}
        BY <1>32, <3>1, <3>2 DEF NoAnswer, FirstPc, Begun
      <4>2. pc' = pc \/ pc'[d] = "ends"
        BY <1>32, <3>1, <3>2 DEF NoAnswer, Then, TypeOK
      <4> QED
        BY <4>1, <4>2 DEF Begun
    <3>3. CASE d # h
      <4>1. pc'[d] = pc[d] /\ st'[d] = st[d]
        BY <1>32, <3>1, <3>3 DEF NoAnswer, Then, TypeOK
      <4> QED
        BY <3>1, <4>1 DEF FirstPc, Begun
    <3> QED
      BY <3>2, <3>3
  <2>3. StoppingIn'
    <3> SUFFICES ASSUME NEW d \in stopping' PROVE Doing("stop", "copy")' /\ op'.c = d
      BY DEF StoppingIn
    <3> QED
      BY <1>32 DEF StoppingIn, Doing, Operations, NoAnswer, Then
  <2>4. OffIdle'
    <3> SUFFICES ASSUME NEW d \in Copies, pc'[d] = "off" PROVE st'[d] = "none"
      BY DEF OffIdle
    <3> QED
      BY <1>32 DEF OffIdle, NotYetLaunched, NoAnswer, Then
  <2>5. HolderLive'
    <3> SUFFICES ASSUME NEW k \in Holders, Holds(k)' PROVE st'[k] = "live"
      BY DEF HolderLive
    <3> QED
      BY <1>32 DEF HolderLive, Holds, Entries, NoAnswer, Then
  <2>6. ProcessStarts'
    BY <1>32 DEF ProcessStarts, Doing, Operations, NoAnswer, Then
  <2> QED
    BY <2>1, <2>2, <2>3, <2>4, <2>5, <2>6 DEF Order
<1>33. ASSUME UNCHANGED vars PROVE Order'
  BY <1>33 DEF Order, FirstOp, FirstPc, Begun, StoppingIn, OffIdle, HolderLive, ProcessStarts,
               Doing, Holds, vars, radio, seat
<1> QED
  BY <1>1, <1>2, <1>3, <1>4, <1>5, <1>6, <1>7, <1>8, <1>9, <1>10, <1>11, <1>12, <1>13, <1>14,
     <1>15, <1>16, <1>17, <1>18, <1>19, <1>20, <1>21, <1>22, <1>23, <1>24, <1>25, <1>26, <1>27,
     <1>28, <1>29, <1>30, <1>31, <1>32, <1>33
  DEF Next, Environment, Seat, Station, Copy

\* Only c moves, and neither its entry nor the operation does.
OnlyCopy(c) ==
  /\ UNCHANGED <<up, gui, op, asked, stopping>>
  /\ \A d \in Copies : d # c => pc'[d] = pc[d] /\ (d \in bound => d \in bound')
  /\ \A h \in Holders : h # c => st'[h] = st[h]

\* A copy that moves on, where it may.
LEMMA CopyMoves ==
  ASSUME TypeOK, Order, Orderly, NEW c \in Copies, OnlyCopy(c),
         pc[c] # "off", ~(pc[c] = "live" /\ c \in bound), pc'[c] \notin {"off", "ends"},
         st'[c] = st[c] \/ st'[c] \in {"none", "halted"} \/ (gui = None /\ \A h \in Holders : h # c => Idle(h)),
         gui # None => pc'[c] # "makes" /\ (pc'[c] = "builds" => c \in bound'),
         gui = None => /\ pc'[c] \in {"live", "settles", "connects", "waits", "makes"}
                       /\ pc'[c] = "waits" => st'[c] # "halted"
                       /\ pc'[c] = "makes" => \A e \in Copies : pc[e] # "off" => c <= e
  PROVE  Orderly'
<1> USE DEF OnlyCopy
<1>0. Process \in Holders /\ Process # c /\ c \in Holders /\ Copies \subseteq Holders
  BY FlexStationAssumption DEF Holders, Process
<1>1. ~Still /\ stopping = {} /\ ~asked /\ (gui = None \/ ~gui.stale)
  BY DEF Orderly, Still, Quiet, CutOff
<1>2. Quiet'
  BY <1>1 DEF Orderly, Quiet
<1>3. CutOff'
  BY <1>1 DEF CutOff
<1>4. Served'
  <2> SUFFICES ASSUME gui # None, ~gui.stale
               PROVE  /\ \A h \in Holders : h # gui.by => Idle(h)' \/ (h = Process /\ st'[h] = "looks")
                      /\ \A d \in Copies : pc'[d] # "makes" /\ (pc'[d] = "builds" => d \in bound')
    BY DEF Served, Idle
  <2>1. /\ \A h \in Holders : h # gui.by => Idle(h) \/ (h = Process /\ st[h] = "looks")
        /\ \A d \in Copies : pc[d] # "makes" /\ (pc[d] = "builds" => d \in bound)
    BY DEF Orderly, Served
  <2>2. \A h \in Holders : h # gui.by => Idle(h)' \/ (h = Process /\ st'[h] = "looks")
    BY <2>1, <1>0 DEF Idle
  <2> QED
    BY <2>1, <2>2
<1>5. Vacant'
  <2> SUFFICES ASSUME gui = None
               PROVE  Seeking' /\ OneStation' /\ Patient' /\ LowestMakes' /\ StartsAlone'
    BY DEF Vacant
  <2>0. Seeking /\ OneStation /\ Patient /\ LowestMakes /\ StartsAlone
    BY DEF Orderly, Vacant
  <2>1. Seeking'
    BY <2>0 DEF Seeking
  <2>2. OneStation'
    BY <1>0, <2>0 DEF OneStation, Idle
  <2>3. Patient'
    BY <1>0, <2>0 DEF Patient
  <2>4. LowestMakes'
    BY <2>0 DEF LowestMakes
  <2>5. StartsAlone'
    BY <1>0, <2>0 DEF StartsAlone, Idle
  <2> QED
    BY <2>1, <2>2, <2>3, <2>4, <2>5
<1> QED
  BY <1>2, <1>3, <1>4, <1>5 DEF Orderly

\* A copy that binds, waits, seeks or takes the place.
LEMMA CopyOrderly ==
  ASSUME TypeOK, NotYetLaunched, Order, Orderly, upset = "one", NEW c \in Copies,
         Connect(c) \/ Poll(c) \/ WaitEnds(c) \/ LooksAgain(c) \/ Bind(c) \/ Build(c) \/ Lost(c) \/ Settles(c)
  PROVE  Orderly'
<1>0. c \in Holders /\ Process \in Holders /\ Copies \subseteq Holders /\ Holders = Copies \cup {Process}
  BY DEF Holders, Process
<1>q. /\ up /\ pc[c] # "ends" /\ Served
      /\ gui = None => Seeking /\ OneStation /\ Patient /\ LowestMakes /\ StartsAlone
  BY DEF Orderly, Quiet, Vacant
<1>t. /\ pc \in [Copies -> {"off", "connects", "waits", "makes", "looks again", "binds", "builds",
                        "live", "settles", "ends"}]
      /\ DOMAIN st = Holders
  BY DEF TypeOK
<1>1. CASE Connect(c)
  <2>1. OnlyCopy(c) /\ pc[c] = "connects"
    BY <1>1, <1>0, <1>t DEF OnlyCopy, Connect, copyOnly, seat, Goes
  <2>2. CASE gui # None /\ Goes(c, "binds") /\ st' = [st EXCEPT ![c] = IF @ = "halted" THEN "none" ELSE @]
    <3>1. pc'[c] = "binds" /\ (st'[c] = st[c] \/ st'[c] \in {"none", "halted"})
      BY <2>2, <1>0, <1>t DEF Goes
    <3> QED
      BY <2>1, <2>2, <3>1, CopyMoves
  <2>3. CASE gui = None /\ c \in first /\ Goes(c, "makes") /\ st' = [st EXCEPT ![c] = "looks"]
    <3>1. op # None /\ op.do = "start" /\ op.at = "copy" /\ op.c = c
      BY <2>3 DEF Order, FirstOp, Doing
    <3>2. Idle(Process) /\ \A d \in Copies : d # c => pc[d] = "off" /\ st[d] = "none"
      BY <3>1, <1>q, <2>3 DEF StartsAlone, Order, OffIdle
    <3>3. \A h \in Holders : h # c => Idle(h)
      BY <3>2, <1>0 DEF Idle
    <3>4. pc'[c] = "makes"
      BY <2>3, <1>t DEF Goes
    <3>5. c <= c /\ \A e \in Copies : pc[e] # "off" => e = c
      BY <3>2, FlexStationAssumption
    <3> QED
      BY <2>1, <2>3, <3>3, <3>4, <3>5, CopyMoves
  <2>4. CASE gui = None /\ Goes(c, "waits") /\ st' = [st EXCEPT ![c] = IF @ = "halted" THEN "none" ELSE @]
    <3>1. pc'[c] = "waits" /\ (st'[c] = st[c] \/ st'[c] \in {"none", "halted"}) /\ st'[c] # "halted"
      BY <2>4, <1>0, <1>t DEF Goes
    <3> QED
      BY <2>1, <2>4, <3>1, CopyMoves
  <2> QED
    BY <1>1, <2>2, <2>3, <2>4 DEF Connect
<1>2. CASE Poll(c)
  <2>1. OnlyCopy(c) /\ pc[c] = "waits" /\ pc'[c] = "binds" /\ gui # None /\ st' = st
    BY <1>2, <1>0, <1>t DEF OnlyCopy, Poll, copyOnly, seat, Goes
  <2> QED
    BY <2>1, CopyMoves
<1>3. CASE WaitEnds(c)
  <2>1. OnlyCopy(c) /\ pc[c] = "waits" /\ gui = None
    BY <1>3, <1>0, <1>t DEF OnlyCopy, WaitEnds, copyOnly, seat, Goes
  <2>2. Turn(c) /\ pc'[c] = "makes" /\ st[c] = "none"
    BY <1>3, <1>q, <1>t, <2>1 DEF WaitEnds, Patient, Goes
  <2>3. \A e \in Copies : pc[e] # "off" => c <= e
    BY <2>2, <1>q, FlexStationAssumption DEF Turn, Orderly, Quiet
  <2>4. ASSUME NEW h \in Holders, h # c, ~Idle(h)
        PROVE  FALSE
    <3>1. st[h] \in {"looks", "registers"}
      BY <2>2, <2>4 DEF Turn, TypeOK, Idle, Registering
    <3>2. CASE h \in Copies
      <4>1. pc[h] = "makes"
        BY <3>1, <3>2 DEF TypeOK
      <4>2. h <= c /\ c <= h
        BY <4>1, <2>1, <2>3, <3>2, <1>q DEF LowestMakes
      <4> QED
        BY <2>4, <3>2, <4>2, FlexStationAssumption
    <3>3. CASE h = Process
      <4>1. Doing("start", "station")
        BY <3>1, <3>3 DEF Order, ProcessStarts
      <4>2. c = op.c
        BY <4>1, <2>1, <1>q DEF Doing, StartsAlone
      <4> QED
        BY <4>1, <4>2, <2>1 DEF Doing, NotYetLaunched
    <3> QED
      BY <1>0, <3>2, <3>3
  <2> QED
    BY <2>1, <2>2, <2>3, <2>4, CopyMoves
<1>4. CASE LooksAgain(c)
  <2>1. OnlyCopy(c) /\ pc[c] = "looks again" /\ st' = st
    BY <1>4, <1>0, <1>t DEF OnlyCopy, LooksAgain, copyOnly, seat, Goes
  <2>2. gui # None /\ pc'[c] = "binds"
    BY <1>4, <1>q, <1>t, <2>1 DEF LooksAgain, Goes, Seeking
  <2> QED
    BY <2>1, <2>2, CopyMoves
<1>5. CASE Bind(c)
  <2>1. OnlyCopy(c) /\ pc[c] = "binds" /\ st' = st
    BY <1>5, <1>0, <1>t DEF OnlyCopy, Bind, seat, Goes
  <2>2. gui # None /\ pc'[c] = "builds" /\ c \in bound'
    BY <1>5, <1>q, <1>t, <2>1 DEF Bind, Goes, Seeking
  <2> QED
    BY <2>1, <2>2, CopyMoves
<1>6. CASE Build(c)
  <2>1. OnlyCopy(c) /\ pc[c] = "builds" /\ st' = st
    BY <1>6, <1>0, <1>t DEF OnlyCopy, Build, radio, seat, Goes
  <2>2. gui # None /\ ~gui.stale
    BY <1>q, <2>1 DEF Seeking, Orderly, CutOff, Still
  <2>3. pc'[c] = "live"
    BY <1>6, <1>q, <1>t, <2>1, <2>2 DEF Build, Goes, Served
  <2> QED
    BY <2>1, <2>2, <2>3, CopyMoves
<1>7. CASE Lost(c)
  <2>1. OnlyCopy(c) /\ pc[c] = "live" /\ c \notin bound /\ st' = st /\ pc'[c] = "settles"
    BY <1>7, <1>0, <1>t DEF OnlyCopy, Lost, copyOnly, seat, Goes
  <2> QED
    BY <2>1, CopyMoves
<1>8. CASE Settles(c)
  <2>1. OnlyCopy(c) /\ pc[c] = "settles" /\ st' = st /\ pc'[c] = "connects"
    BY <1>8, <1>0, <1>q, <1>t DEF OnlyCopy, Settles, copyOnly, seat, Goes
  <2> QED
    BY <2>1, CopyMoves
<1> QED
  BY <1>1, <1>2, <1>3, <1>4, <1>5, <1>6, <1>7, <1>8

\* A copy that stops is bound, to a station that is there.
LEMMA StoppingServed ==
  ASSUME TypeOK, Order, Orderly, stopping # {}
  PROVE  Still /\ gui # None /\ ~gui.stale
<1>1. Still
  BY DEF Orderly, Quiet
<1>2. PICK c \in stopping : c \in Copies /\ pc[c] # "off" /\ op # None
  BY DEF TypeOK, Order, StoppingIn, Doing
<1>3. c \in bound
  BY <1>1, <1>2 DEF Still
<1> QED
  BY <1>1, <1>2, <1>3 DEF TypeOK, Orderly, CutOff

\* The station that has lost its place, and waits to take it again, is alone.
LEMMA StationWaits ==
  ASSUME TypeOK, Order, Orderly, NEW h \in Holders, st[h] \in {"live", "settles", "reregisters"}, ~Holds(h)
  PROVE  /\ gui = None \/ (gui.stale /\ gui.by = h)
         /\ stopping = {} /\ \A k \in Holders : k # h => Idle(k)
<1>1. CASE gui = None
  BY <1>1, StoppingServed DEF Orderly, Vacant, OneStation, Idle
<1>2. CASE gui # None /\ gui.stale
  BY <1>2, StoppingServed DEF Orderly, CutOff, Idle
<1>3. CASE gui # None /\ ~gui.stale
  <2>1. gui.by # h
    BY <1>3 DEF Holds
  <2> QED
    BY <1>3, <2>1 DEF Orderly, Served, Idle
<1> QED
  BY <1>1, <1>2, <1>3

\* A live station finds its entry gone.
LEMMA StationLives ==
  ASSUME TypeOK, Order, Orderly, NEW h \in Holders,
         st[h] \in {"live", "settles"}, ~Holds(h), \A k \in Holders : k # h => st'[k] = st[k],
         st'[h] \in {"settles", "reregisters"},
         UNCHANGED <<up, gui, bound, pc, stopping, op, asked>>
  PROVE  Orderly'
<1>1. /\ gui = None \/ (gui.stale /\ gui.by = h)
      /\ stopping = {} /\ \A k \in Holders : k # h => Idle(k)
  BY StationWaits
<1>2. \A k \in Holders : k # h => st'[k] = st[k]
  OBVIOUS
<1>3. Quiet'
  BY <1>1 DEF Orderly, Quiet
<1>4. CutOff'
  BY <1>1, <1>2 DEF Orderly, CutOff, Still, Idle
<1>5. Served'
  BY <1>1 DEF Served
<1>6. Vacant'
  <2> SUFFICES ASSUME gui = None
               PROVE  Seeking' /\ OneStation' /\ Patient' /\ LowestMakes' /\ StartsAlone'
    BY DEF Vacant
  <2>0. Seeking /\ Patient /\ LowestMakes /\ StartsAlone /\ Copies \subseteq Holders /\ Process \in Holders
    BY DEF Orderly, Vacant, Holders
  <2>1. Seeking' /\ LowestMakes'
    BY <2>0 DEF Seeking, LowestMakes
  <2>2. OneStation'
    BY <1>1, <1>2 DEF OneStation, Idle
  <2>3. Patient'
    BY <2>0, <1>2 DEF Patient
  <2>4. StartsAlone'
    BY <2>0, <1>2 DEF StartsAlone, Idle
  <2> QED
    BY <2>1, <2>2, <2>3, <2>4
<1> QED
  BY <1>3, <1>4, <1>5, <1>6 DEF Orderly

\* A station that looks, registers, loses its place or returns.
LEMMA StationOrderly ==
  ASSUME TypeOK, Order, Orderly, NEW h \in Holders,
         Look(h) \/ Register(h) \/ BeatLost(h) \/ Returns(h)
  PROVE  Orderly'
<1>0. /\ up /\ Process \in Holders /\ Process \notin Copies /\ Copies \subseteq Holders
      /\ Holders = Copies \cup {Process} /\ DOMAIN st = Holders
      /\ pc \in [Copies -> {"off", "connects", "waits", "makes", "looks again", "binds", "builds",
                        "live", "settles", "ends"}]
  BY FlexStationAssumption DEF Orderly, Quiet, Holders, Process, TypeOK
<1>1. CASE BeatLost(h)
  <2>1. st[h] = "live" /\ ~Holds(h) /\ st' = [st EXCEPT ![h] = "settles"]
    BY <1>0, <1>1 DEF BeatLost, Silent
  <2>2. UNCHANGED <<up, gui, bound, pc, stopping, op, asked>>
    BY <1>1, <2>1 DEF BeatLost, seat
  <2>3. st'[h] = "settles" /\ \A k \in Holders : k # h => st'[k] = st[k]
    BY <1>0, <2>1
  <2> QED
    BY <2>1, <2>2, <2>3, StationLives
<1>2. CASE Returns(h)
  <2>1. st[h] = "settles" /\ ~Holds(h)
    BY <1>2 DEF Returns, Order, HolderLive
  <2>2. UNCHANGED <<up, gui, bound, pc, stopping, op, asked>>
    BY <1>2 DEF Returns, radio, seat
  <2>3. gui = None \/ gui.by = h
    BY <2>1, StationWaits
  <2>4. st' = [st EXCEPT ![h] = "reregisters"]
    BY <1>2, <2>3 DEF Returns, OursOrNone
  <2>5. st'[h] = "reregisters" /\ \A k \in Holders : k # h => st'[k] = st[k]
    BY <1>0, <2>4
  <2> QED
    BY <2>1, <2>2, <2>4, <2>5, StationLives
<1>3. CASE Look(h) /\ gui = None
  <2>1. st[h] = "looks" /\ st' = [st EXCEPT ![h] = "registers"]
    BY <1>3 DEF Look, Free
  <2>2. UNCHANGED <<up, gui, bound, pc, stopping, op>> /\ (asked' => asked)
    BY <1>3 DEF Look, Free, radio
  <2>3. st'[h] = "registers" /\ \A k \in Holders : k # h => st'[k] = st[k]
    BY <1>0, <2>1
  <2>4. Seeking /\ OneStation /\ Patient /\ LowestMakes /\ StartsAlone
    BY <1>3 DEF Orderly, Vacant
  <2>5. Quiet'
    BY <2>2 DEF Orderly, Quiet, Still
  <2>6. CutOff' /\ Served'
    BY <1>3, <2>2 DEF CutOff, Served
  <2>7. Seeking' /\ LowestMakes'
    BY <2>2, <2>4 DEF Seeking, LowestMakes
  <2>8. OneStation' /\ Patient'
    BY <1>0, <2>1, <2>2, <2>3, <2>4 DEF OneStation, Patient, Idle
  <2>9. StartsAlone'
    BY <1>0, <2>1, <2>2, <2>3, <2>4 DEF StartsAlone, Idle
  <2> QED
    BY <2>5, <2>6, <2>7, <2>8, <2>9 DEF Orderly, Vacant
<1>4. CASE Look(h) /\ gui # None
  <2>1. st[h] = "looks" /\ ~gui.stale
    <3>1. st[h] = "looks"
      BY <1>4 DEF Look
    <3>2. CASE h = Process
      BY <1>4, <3>1, <3>2 DEF Order, ProcessStarts, Doing, Orderly, CutOff, Quiet
    <3>3. CASE h \in Copies
      BY <1>4, <3>1, <3>3 DEF Orderly, CutOff, Still, TypeOK
    <3> QED
      BY <1>0, <3>1, <3>2, <3>3
  <2>2. h # gui.by
    BY <1>4, <2>1 DEF Order, HolderLive, Holds
  <2>3. h = Process
    BY <1>4, <2>1, <2>2 DEF Orderly, Served, Idle
  <2>4. UNCHANGED <<up, gui, bound, pc, stopping>> /\ st' = [st EXCEPT ![h] = "none"] /\ (asked' => st'[Process] # "none")
    BY <1>0, <1>4, <2>3 DEF Look, Free, Then, radio
  <2>5. st'[h] = "none" /\ ~asked' /\ \A k \in Holders : k # h => st'[k] = st[k]
    BY <1>0, <2>3, <2>4
  <2>6. Quiet'
    BY <2>4, <2>5 DEF Orderly, Quiet, Still
  <2>7. CutOff' /\ Vacant'
    BY <1>4, <2>1, <2>4 DEF CutOff, Vacant
  <2>8. Served'
    BY <1>4, <2>1, <2>4, <2>5 DEF Orderly, Served, Idle
  <2> QED
    BY <2>6, <2>7, <2>8 DEF Orderly
<1>5. CASE Register(h)
  <2>1. st[h] \in {"registers", "reregisters"} /\ ~Holds(h) /\ ~Idle(h)
    BY <1>5 DEF Register, Registering, Order, HolderLive, Idle
  <2>2. /\ gui = None \/ gui.stale
        /\ \A k \in Holders : k # h => Idle(k)
    <3>1. CASE gui = None
      BY <2>1, <3>1 DEF Orderly, Vacant, OneStation
    <3>2. CASE gui # None /\ gui.stale
      <4>1. h = gui.by
        BY <2>1, <3>2 DEF Orderly, CutOff
      <4> QED
        BY <3>2, <4>1 DEF Orderly, CutOff
    <3>3. CASE gui # None /\ ~gui.stale
      BY <2>1, <3>3 DEF Orderly, Served, Idle, Holds
    <3> QED
      BY <3>1, <3>2, <3>3
  <2>3. stopping = {}
    BY <2>2, StoppingServed
  <2>4. \A d \in Copies : pc[d] = "makes" => d = h /\ st[h] = "registers"
    BY <1>0, <2>1, <2>2 DEF TypeOK, Idle, Registering
  <2>5. \A d \in Copies : pc[d] # "builds"
    BY <2>2 DEF Orderly, CutOff, Still, Vacant, Seeking
  <2>6. /\ gui' = [by |-> h, stale |-> FALSE] /\ gui' # None
        /\ st' = [st EXCEPT ![h] = "live"] /\ UNCHANGED <<up, stopping, asked>> /\ ProcessUp(h)
    <3>1. gui' = [by |-> h, stale |-> FALSE] /\ [by |-> h, stale |-> FALSE] \in Entries
      BY <1>5 DEF Register, Entries
    <3>2. gui' # None
      BY <3>1, FlexStationAssumption
    <3> QED
      BY <1>5, <3>1, <3>2 DEF Register
  <2>7. pc' = pc \/ (st[h] = "registers" /\ h \in Copies /\ pc' = [pc EXCEPT ![h] = "looks again"])
    BY <1>5 DEF Register, Then
  <2>8. st[h] = "registers" /\ h \in Copies => pc[h] = "makes" /\ pc'[h] = "looks again"
    <3> SUFFICES ASSUME st[h] = "registers", h \in Copies
                 PROVE  pc[h] = "makes" /\ pc'[h] = "looks again"
      OBVIOUS
    <3>1. pc' = [pc EXCEPT ![h] = "looks again"]
      BY <1>5 DEF Register, Then
    <3>2. pc[h] = "makes"
      BY DEF TypeOK
    <3> QED
      BY <1>0, <3>1, <3>2
  <2>9. \A k \in Holders : k # h => st'[k] = st[k]
    BY <1>0, <2>6
  <2>10. Quiet'
    <3>1. asked => (\A d \in Copies : pc'[d] = "off") /\ (op = None \/ op.do = "stop")
      BY <2>7, <2>8 DEF Orderly, Quiet
    <3>2. asked => op' = op
      BY <2>6, <3>1 DEF ProcessUp
    <3>3. \A d \in Copies : pc'[d] # "ends"
      BY <1>0, <2>7 DEF Orderly, Quiet
    <3> QED
      BY <1>0, <2>3, <2>6, <3>1, <3>2, <3>3 DEF Quiet
  <2>11. CutOff' /\ Vacant'
    BY <2>6 DEF CutOff, Vacant
  <2>12. Served'
    <3>1. \A k \in Holders : k # h => Idle(k)'
      BY <2>2, <2>9 DEF Idle
    <3>2. \A d \in Copies : pc'[d] # "makes" /\ pc'[d] # "builds"
      BY <1>0, <2>4, <2>5, <2>7, <2>8
    <3> QED
      BY <2>6, <3>1, <3>2 DEF Served
  <2> QED
    BY <2>10, <2>11, <2>12 DEF Orderly
<1> QED
  BY <1>1, <1>2, <1>3, <1>4, <1>5

\* When the entry goes, every copy being at rest or gone, the others take its place.
LEMMA VacantAfter ==
  ASSUME gui' = None, \A d \in Copies : pc'[d] \in {"off", "live"},
         \A h, k \in Holders : Idle(h)' \/ Idle(k)' \/ h = k,
         op' = None \/ op'.do = "stop"
  PROVE  CutOff' /\ Served' /\ Vacant'
<1>1. CutOff' /\ Served'
  BY DEF CutOff, Served
<1>2. Seeking' /\ Patient' /\ LowestMakes'
  BY DEF Seeking, Patient, LowestMakes
<1>3. OneStation' /\ StartsAlone'
  BY DEF OneStation, StartsAlone, Idle
<1> QED
  BY <1>1, <1>2, <1>3 DEF Vacant

\* A copy that was told to stop ends.
LEMMA EndsOrderly ==
  ASSUME TypeOK, Order, Orderly, NEW c \in Copies, Ends(c)
  PROVE  Orderly'
<1>0. /\ up /\ Process \in Holders /\ Process \notin Copies /\ c \in Holders /\ c # Process
      /\ Copies \subseteq Holders /\ Holders = Copies \cup {Process} /\ DOMAIN st = Holders
      /\ pc \in [Copies -> {"off", "connects", "waits", "makes", "looks again", "binds", "builds",
                        "live", "settles", "ends"}]
  BY FlexStationAssumption DEF Orderly, Quiet, Holders, Process, TypeOK
<1>1. c \in stopping
  BY DEF Ends, Orderly, Quiet
<1>2. Still /\ gui # None /\ ~gui.stale
  BY <1>1, StoppingServed
<1>3. stopping = {c} /\ op # None /\ op.do = "stop" /\ op.at = "copy"
  BY <1>1 DEF Order, StoppingIn, Doing
<1>4. ~asked
  BY <1>1 DEF Orderly, Quiet, TypeOK
<1>5. \A h \in Holders : h # gui.by => Idle(h)
  BY <1>2, <1>3 DEF Orderly, Served, Order, ProcessStarts, Doing
<1>6. /\ UNCHANGED <<up, op, asked>> /\ stopping' = {}
      /\ pc'[c] = "off" /\ \A d \in Copies : d # c => pc'[d] = pc[d]
      /\ st'[c] = "none" /\ \A h \in Holders : h # c => st'[h] = st[h]
  BY <1>0, <1>3 DEF Ends, Goes, seat
<1>7. Quiet'
  BY <1>4, <1>6 DEF Orderly, Quiet
<1>8. CASE Holds(c)
  <2>1. gui' = None
    BY <1>0, <1>8 DEF Ends, LetsGo, Leaves
  <2>2. \A h \in Holders : Idle(h)'
    BY <1>5, <1>6, <1>8 DEF Idle, Holds
  <2>3. \A d \in Copies : pc'[d] \in {"off", "live"}
    BY <1>2, <1>6 DEF Still
  <2> QED
    BY <1>3, <1>6, <1>7, <2>1, <2>2, <2>3, VacantAfter DEF Orderly
<1>9. CASE ~Holds(c)
  <2>1. gui' = gui
    BY <1>9 DEF Ends, LetsGo
  <2>2. CutOff' /\ Vacant'
    BY <1>2, <2>1 DEF CutOff, Vacant
  <2>3. Served'
    BY <1>2, <1>5, <1>6, <2>1 DEF Served, Idle, Still
  <2> QED
    BY <1>7, <2>2, <2>3 DEF Orderly
<1> QED
  BY <1>8, <1>9

\* The same of the process.
LEMMA ProcessEndsOrderly ==
  ASSUME TypeOK, Order, Orderly, ProcessEnds
  PROVE  Orderly'
<1>0. /\ up /\ Process \in Holders /\ Process \notin Copies
      /\ Copies \subseteq Holders /\ Holders = Copies \cup {Process} /\ DOMAIN st = Holders
  BY FlexStationAssumption DEF Orderly, Quiet, Holders, Process, TypeOK
<1>1. /\ UNCHANGED <<up, op, pc, stopping>> /\ ~asked'
      /\ st'[Process] = "none" /\ \A h \in Holders : h # Process => st'[h] = st[h]
  BY <1>0 DEF ProcessEnds
<1>2. CASE Holds(Process)
  <2>1. asked
    BY <1>0, <1>2 DEF ProcessEnds, Order, HolderLive
  <2>2. (\A d \in Copies : pc[d] = "off") /\ (op = None \/ op.do = "stop")
    BY <2>1 DEF Orderly, Quiet
  <2>3. gui' = None
    BY <1>0, <1>2 DEF ProcessEnds, LetsGo, Leaves
  <2>4. \A h \in Holders : Idle(h)'
    BY <1>0, <1>1, <2>2 DEF Order, OffIdle, Idle
  <2>5. Quiet'
    BY <1>0, <1>1, <2>2 DEF Quiet, Still
  <2> QED
    BY <1>1, <2>2, <2>3, <2>4, <2>5, VacantAfter DEF Orderly
<1>3. CASE ~Holds(Process)
  <2>1. gui' = gui /\ bound' = bound
    BY <1>0, <1>3 DEF ProcessEnds, LetsGo, TypeOK
  <2>2. Quiet'
    BY <1>1, <2>1 DEF Orderly, Quiet, Still
  <2>3. gui # None /\ gui.stale /\ gui.by = Process => \A d \in Copies : pc[d] = "off"
    BY DEF ProcessEnds, Orderly, CutOff, Quiet
  <2>4. CutOff'
    <3> SUFFICES ASSUME gui # None, gui.stale
                 PROVE  /\ Still' /\ op' = None /\ \A h \in Holders : h # gui.by => Idle(h)'
                        /\ \/ st'[gui.by] \in {"live", "settles", "reregisters"}
                           \/ \A d \in Copies : pc'[d] = "off"
      BY <2>1 DEF CutOff
    <3>1. gui.by \in Holders
      BY DEF TypeOK, Entries
    <3>2. /\ Still /\ op = None /\ \A h \in Holders : h # gui.by => Idle(h)
          /\ st[gui.by] \in {"live", "settles", "reregisters"} \/ \A d \in Copies : pc[d] = "off"
      BY DEF Orderly, CutOff
    <3>3. Still'
      BY <1>1, <2>1, <3>2 DEF Still
    <3>4. \A h \in Holders : h # gui.by => Idle(h)'
      BY <1>1, <3>2 DEF Idle
    <3> QED
      BY <1>1, <2>3, <3>1, <3>2, <3>3, <3>4
  <2>5. Served'
    BY <1>0, <1>1, <2>1 DEF Orderly, Served, Idle
  <2>6. Vacant'
    <3> SUFFICES ASSUME gui = None
                 PROVE  Seeking' /\ OneStation' /\ Patient' /\ LowestMakes' /\ StartsAlone'
      BY <2>1 DEF Vacant
    <3>0. Seeking /\ OneStation /\ Patient /\ LowestMakes /\ StartsAlone
      BY DEF Orderly, Vacant
    <3>1. Seeking' /\ LowestMakes'
      BY <3>0, <1>1 DEF Seeking, LowestMakes
    <3>2. OneStation' /\ Patient'
      BY <3>0, <1>0, <1>1 DEF OneStation, Patient, Idle
    <3>3. StartsAlone'
      BY <3>0, <1>1 DEF StartsAlone, Idle
    <3> QED
      BY <3>1, <3>2, <3>3
  <2> QED
    BY <2>2, <2>4, <2>5, <2>6 DEF Orderly
<1> QED
  BY <1>2, <1>3

\* The radio drops the broken connection of the holder.
LEMMA DroppedOrderly ==
  ASSUME TypeOK, Order, Orderly, Dropped
  PROVE  Orderly'
<1>1. gui # None /\ gui.stale /\ gui' = None /\ UNCHANGED <<up, st, pc, stopping, op, asked>>
  BY DEF Dropped, Leaves, seat, Orderly, Quiet
<1>2. Still /\ op = None /\ \A h \in Holders : h # gui.by => Idle(h)
  BY <1>1 DEF Orderly, CutOff
<1>3. stopping = {}
  BY <1>1, StoppingServed
<1>4. Quiet'
  BY <1>1, <1>3 DEF Orderly, Quiet
<1>5. \A d \in Copies : pc'[d] \in {"off", "live"}
  BY <1>1, <1>2 DEF Still
<1>6. \A h, k \in Holders : Idle(h)' \/ Idle(k)' \/ h = k
  BY <1>1, <1>2 DEF Idle
<1> QED
  BY <1>1, <1>2, <1>4, <1>5, <1>6, VacantAfter DEF Orderly

\* The seat's operations go on, and the reaper's.
LEMMA SeatOrderly ==
  ASSUME TypeOK, NotYetLaunched, Order, Orderly, Seat
  PROVE  Orderly'
<1>0. /\ Process \in Holders /\ Process \notin Copies /\ Copies \subseteq Holders
      /\ UNCHANGED <<up, gui, bound, st, stopping>> /\ upset' = upset
      /\ pc \in [Copies -> {"off", "connects", "waits", "makes", "looks again", "binds", "builds",
                        "live", "settles", "ends"}]
  BY FlexStationAssumption
  DEF Holders, Process, TypeOK, Seat, StationFailed, Launch, Started, Stopped, StationStopped,
      Reap, radio
<1>1. CASE Launch
  <2>1. /\ op # None /\ op.do = "start" /\ op.at = "launch" /\ op.c \in Copies /\ pc[op.c] = "off"
        /\ op' = [op EXCEPT !.at = "copy"]
    BY <1>1 DEF Launch, Doing, TypeOK, Operations, NotYetLaunched
  <2>2. op'.c = op.c
    BY <2>1 DEF TypeOK, Operations
  <2>3. pc'[op.c] = "connects" /\ asked' = asked /\ \A d \in Copies : d # op.c => pc'[d] = pc[d]
    BY <1>0, <1>1, <2>1 DEF Launch, Goes
  <2>4. stopping = {} /\ ~asked
    BY <2>1 DEF Order, StoppingIn, Doing, Orderly, Quiet
  <2>5. Quiet'
    BY <1>0, <2>3, <2>4 DEF Orderly, Quiet
  <2>6. CutOff'
    BY <1>0, <2>1 DEF Orderly, CutOff
  <2>7. Served'
    BY <1>0, <2>3 DEF Orderly, Served, Idle
  <2>8. Vacant'
    <3> SUFFICES ASSUME gui = None
                 PROVE  Seeking' /\ OneStation' /\ Patient' /\ LowestMakes' /\ StartsAlone'
      BY <1>0 DEF Vacant
    <3>0. Seeking /\ OneStation /\ Patient /\ StartsAlone
      BY DEF Orderly, Vacant
    <3>1. (\A d \in Copies : d # op.c => pc'[d] = "off") /\ Idle(Process)
      BY <2>1, <2>3, <3>0 DEF StartsAlone
    <3>2. Seeking' /\ Patient'
      BY <1>0, <2>3, <3>0 DEF Seeking, Patient
    <3>3. LowestMakes'
      BY <2>3, <3>1 DEF LowestMakes
    <3>4. OneStation' /\ StartsAlone'
      BY <1>0, <2>2, <3>0, <3>1 DEF OneStation, StartsAlone, Idle
    <3> QED
      BY <3>2, <3>3, <3>4
  <2> QED
    BY <2>5, <2>6, <2>7, <2>8 DEF Orderly
<1>2. CASE pc' = pc /\ (op' = None \/ (op'.do = "stop" /\ op # None /\ op.do = "stop" /\ op' # None) \/ op' = op)
           /\ (asked' => asked \/ ((\A d \in Copies : pc[d] = "off") /\ (op' = None \/ op'.do = "stop")))
  <2>1. Quiet'
    BY <1>0, <1>2 DEF Orderly, Quiet, Still
  <2>2. CutOff'
    BY <1>0, <1>2 DEF Orderly, CutOff, Still, Idle
  <2>3. Served'
    BY <1>0, <1>2 DEF Orderly, Served, Idle
  <2>4. Vacant'
    <3>1. gui = None => Seeking' /\ OneStation' /\ Patient' /\ LowestMakes'
      BY <1>0, <1>2 DEF Orderly, Vacant, Seeking, OneStation, Patient, LowestMakes, Idle
    <3>2. gui = None => StartsAlone'
      BY <1>0, <1>2 DEF Orderly, Vacant, StartsAlone, Idle
    <3> QED
      BY <1>0, <3>1, <3>2 DEF Vacant
  <2> QED
    BY <2>1, <2>2, <2>3, <2>4 DEF Orderly
<1>3. CASE StationFailed \/ Started \/ StationStopped
  BY <1>2, <1>3 DEF StationFailed, Started, StationStopped
<1>4. CASE Reap
  BY <1>2, <1>4 DEF Reap, InUse, Running
<1>5. CASE Stopped
  <2>1. CASE op' = None /\ UNCHANGED asked
    BY <1>2, <1>5, <2>1 DEF Stopped
  <2>2. CASE ~InUse /\ op' = [op EXCEPT !.at = "station"]
    <3>1. op # None /\ op.do = "stop" /\ op \in Operations
      BY <1>5 DEF Stopped, Doing, TypeOK
    <3>2. op'.do = "stop" /\ op' \in Operations
      BY <2>2, <3>1 DEF Operations
    <3>3. op' # None
      BY <3>2, FlexStationAssumption
    <3> QED
      BY <1>2, <1>5, <2>2, <3>1, <3>2, <3>3 DEF Stopped, InUse, Running
  <2> QED
    BY <1>5, <2>1, <2>2 DEF Stopped
<1> QED
  BY <1>1, <1>3, <1>4, <1>5 DEF Seat

\* What is so at rest.
AtRest ==
  /\ up /\ op = None /\ ~asked /\ stopping = {} /\ Still
  /\ gui # None => ~gui.stale /\ gui.by \in Holders /\ st[gui.by] = "live" /\ \A h \in Holders : h # gui.by => Idle(h)
  /\ gui = None => (\A d \in Copies : pc[d] = "off") /\ \A h \in Holders : Idle(h)

\* Rest is so.
LEMMA RestFacts ==
  ASSUME TypeOK, Order, Rest
  PROVE  AtRest
<1>1. up /\ op = None /\ ~asked /\ stopping = {} /\ Still
  BY DEF Rest, Still, TypeOK
<1>2. \A h \in Holders : Idle(h) \/ (gui # None /\ gui.by = h)
  BY DEF Rest, Idle
<1>3. gui # None => ~gui.stale /\ gui.by \in Holders /\ st[gui.by] = "live"
  BY DEF Rest, Order, HolderLive, Holds, TypeOK, Entries
<1>4. gui = None => \A d \in Copies : pc[d] = "off"
  BY <1>1 DEF Still, TypeOK
<1> QED
  BY <1>1, <1>2, <1>3, <1>4 DEF AtRest

\* One thing happens at rest, a start, a stop, a death or a broken connection.
LEMMA EventOrderly ==
  ASSUME TypeOK, Order, upset' = "one",
         \/ StationDies \/ Outage
         \/ \E c \in Copies : Start(c) \/ Stop(c) \/ CopyDies(c) \/ CopyCut(c)
         \/ \E h \in Holders : StationCut(h)
  PROVE  Orderly'
<1>0. /\ Process \in Holders /\ Process \notin Copies
      /\ Copies \subseteq Holders /\ Holders = Copies \cup {Process} /\ DOMAIN st = Holders
      /\ bound \subseteq Copies
      /\ pc \in [Copies -> {"off", "connects", "waits", "makes", "looks again", "binds", "builds",
                        "live", "settles", "ends"}]
  BY FlexStationAssumption DEF Holders, Process, TypeOK
<1>1. ~Outage /\ AtRest
  BY RestFacts DEF StationDies, Outage, Start, Stop, CopyDies, CopyCut, StationCut, Fault, Upsets
<1> USE DEF AtRest
<1>2. CASE StationDies
  <2>1. /\ UNCHANGED <<up, pc, stopping, op>> /\ ~asked'
        /\ st'[Process] = "none" /\ \A h \in Holders : h # Process => st'[h] = st[h]
    BY <1>0, <1>2 DEF StationDies
  <2>2. Quiet'
    BY <1>1, <2>1 DEF Quiet, Still
  <2>3. CASE Holds(Process)
    <3>1. gui' = None
      BY <1>1, <1>2, <2>3 DEF StationDies, LetsGo, Leaves
    <3>2. \A h \in Holders : Idle(h)'
      BY <1>1, <2>1, <2>3 DEF Idle, Holds
    <3>3. \A d \in Copies : pc'[d] \in {"off", "live"}
      BY <1>1, <2>1 DEF Still
    <3> QED
      BY <1>1, <2>1, <2>2, <3>1, <3>2, <3>3, VacantAfter DEF Orderly
  <2>4. CASE ~Holds(Process)
    <3>1. gui' = gui /\ bound' = bound
      BY <1>0, <1>2, <2>4 DEF StationDies, LetsGo
    <3>2. CASE gui = None
      <4>1. \A h \in Holders : Idle(h)'
        BY <1>1, <2>1, <3>2 DEF Idle
      <4> QED
        BY <1>1, <2>1, <2>2, <3>1, <3>2, <4>1, VacantAfter DEF Orderly
    <3>3. CASE gui # None
      <4>1. CutOff' /\ Vacant'
        BY <1>1, <3>1, <3>3 DEF CutOff, Vacant
      <4>2. Served'
        BY <1>1, <2>1, <3>1, <3>3 DEF Served, Idle, Still
      <4> QED
        BY <2>2, <4>1, <4>2 DEF Orderly
    <3> QED
      BY <3>2, <3>3
  <2> QED
    BY <2>3, <2>4
<1>3. ASSUME NEW c \in Copies, CopyDies(c) PROVE Orderly'
  <2>1. /\ UNCHANGED <<up, op, asked>> /\ stopping' = {} /\ c # Process
        /\ pc'[c] = "off" /\ \A d \in Copies : d # c => pc'[d] = pc[d]
        /\ st'[c] = "none" /\ \A h \in Holders : h # c => st'[h] = st[h]
    BY <1>0, <1>1, <1>3 DEF CopyDies, Goes, seat
  <2>2. Quiet'
    BY <1>1, <2>1 DEF Quiet, Still
  <2>3. CASE Holds(c)
    <3>1. gui' = None
      BY <1>1, <1>3, <2>3 DEF CopyDies, LetsGo, Leaves
    <3>2. \A h \in Holders : Idle(h)'
      BY <1>1, <2>1, <2>3 DEF Idle, Holds
    <3>3. \A d \in Copies : pc'[d] \in {"off", "live"}
      BY <1>1, <2>1 DEF Still
    <3> QED
      BY <1>1, <2>1, <2>2, <3>1, <3>2, <3>3, VacantAfter DEF Orderly
  <2>4. CASE ~Holds(c)
    <3>1. gui' = gui
      BY <1>3, <2>4 DEF CopyDies, LetsGo
    <3>2. gui # None
      BY <1>1, <1>3 DEF CopyDies
    <3>3. CutOff' /\ Vacant'
      BY <1>1, <3>1, <3>2 DEF CutOff, Vacant
    <3>4. Served'
      BY <1>1, <2>1, <3>1, <3>2 DEF Served, Idle, Still
    <3> QED
      BY <2>2, <3>3, <3>4 DEF Orderly
  <2> QED
    BY <2>3, <2>4
<1>4. ASSUME NEW c \in Copies, CopyCut(c) PROVE Orderly'
  <2>1. /\ UNCHANGED <<up, gui, st, op, asked, stopping>>
        /\ pc'[c] = "settles" /\ \A d \in Copies : d # c => pc'[d] = pc[d]
    BY <1>0, <1>4 DEF CopyCut, Goes, seat
  <2>2. gui # None
    BY <1>1, <1>4 DEF CopyCut
  <2>3. Quiet'
    BY <1>1, <2>1 DEF Quiet, Still
  <2>4. CutOff' /\ Vacant'
    BY <1>1, <2>1, <2>2 DEF CutOff, Vacant
  <2>5. Served'
    BY <1>1, <2>1, <2>2 DEF Served, Idle, Still
  <2> QED
    BY <2>3, <2>4, <2>5 DEF Orderly
<1>5. ASSUME NEW c \in Copies, Stop(c) PROVE Orderly'
  <2>1. UNCHANGED <<up, gui, bound, st, pc, asked>> /\ gui # None
    BY <1>1, <1>5 DEF Stop, radio
  <2>2. Quiet'
    BY <1>1, <2>1 DEF Quiet, Still
  <2>3. CutOff' /\ Vacant'
    BY <1>1, <2>1 DEF CutOff, Vacant
  <2>4. Served'
    BY <1>1, <2>1 DEF Served, Idle, Still
  <2> QED
    BY <2>2, <2>3, <2>4 DEF Orderly
<1>6. ASSUME NEW c \in Copies, Start(c) PROVE Orderly'
  <2>1. UNCHANGED <<up, gui, bound, pc, asked, stopping>>
    BY <1>6 DEF Start, radio
  <2>2. /\ op'.do = "start" /\ op'.c = c /\ \A h \in Holders : h # Process => st'[h] = st[h]
        /\ \/ op'.at = "launch" /\ st' = st
           \/ op'.at = "station" /\ st[Process] = "none" /\ st'[Process] = "looks"
    <3>1. CASE op' = [do |-> "start", c |-> c, at |-> "launch"] /\ st' = st
      BY <3>1
    <3>2. CASE /\ op' = [do |-> "start", c |-> c, at |-> "station"]
               /\ st[Process] = "none" /\ st' = [st EXCEPT ![Process] = "looks"]
      <4>1. op'.do = "start" /\ op'.c = c /\ op'.at = "station"
        BY <3>2
      <4>2. st'[Process] = "looks" /\ \A h \in Holders : h # Process => st'[h] = st[h]
        BY <1>0, <3>2
      <4> QED
        BY <3>2, <4>1, <4>2
    <3> QED
      BY <1>6, <3>1, <3>2 DEF Start
  <2>3. Quiet'
    BY <1>1, <2>1 DEF Quiet, Still
  <2>4. CutOff'
    BY <1>1, <2>1 DEF CutOff
  <2>5. Served'
    <3> SUFFICES ASSUME gui # None
                 PROVE  /\ \A h \in Holders : h # gui.by => Idle(h)' \/ (h = Process /\ st'[h] = "looks")
                        /\ \A d \in Copies : pc'[d] # "makes" /\ (pc'[d] = "builds" => d \in bound')
      BY <2>1 DEF Served
    <3>1. \A h \in Holders : h # gui.by => Idle(h)
      BY <1>1
    <3>2. \A h \in Holders : h # gui.by => Idle(h)' \/ (h = Process /\ st'[h] = "looks")
      BY <2>2, <3>1 DEF Idle
    <3> QED
      BY <1>1, <2>1, <3>2 DEF Still
  <2>6. Vacant'
    <3> SUFFICES ASSUME gui = None
                 PROVE  Seeking' /\ OneStation' /\ Patient' /\ LowestMakes' /\ StartsAlone'
      BY <2>1 DEF Vacant
    <3>1. \A d \in Copies : pc'[d] = "off"
      BY <1>1, <2>1
    <3>2. Seeking' /\ Patient' /\ LowestMakes'
      BY <3>1 DEF Seeking, Patient, LowestMakes
    <3>3. \A h \in Holders : h # Process => Idle(h)'
      BY <1>1, <2>2 DEF Idle
    <3>4. OneStation'
      BY <3>3 DEF OneStation
    <3>5. StartsAlone'
      BY <1>0, <1>1, <2>2, <3>1 DEF StartsAlone, Idle
    <3> QED
      BY <3>2, <3>4, <3>5
  <2> QED
    BY <2>3, <2>4, <2>5, <2>6 DEF Orderly
<1>7. ASSUME NEW h \in Holders, StationCut(h) PROVE Orderly'
  <2>1. /\ UNCHANGED <<up, bound, st, pc, stopping, op, asked>> /\ gui # None /\ gui.by = h /\ st[h] = "live"
        /\ gui' = [gui EXCEPT !.stale = TRUE]
    BY <1>7 DEF StationCut, Holds, seat
  <2>2. gui' \in Entries /\ gui'.by = h /\ gui'.stale
    BY <2>1 DEF TypeOK, Entries
  <2>3. gui' # None
    BY <2>2, FlexStationAssumption
  <2>4. Quiet'
    BY <1>1, <2>1 DEF Quiet, Still
  <2>5. CutOff'
    BY <1>1, <2>1, <2>2 DEF CutOff, Still, Idle
  <2>6. Served' /\ Vacant'
    BY <2>2, <2>3 DEF Served, Vacant
  <2> QED
    BY <2>4, <2>5, <2>6 DEF Orderly
<1> QED
  BY <1>1, <1>2, <1>3, <1>4, <1>5, <1>6, <1>7

\* Every step keeps to it.
LEMMA OneThingStep == IInv /\ Order /\ OneThing /\ [Next]_vars => OneThing'
<1> SUFFICES ASSUME IInv, Order, OneThing, [Next]_vars, upset' = "one"
             PROVE  Orderly'
  BY DEF OneThing
<1>0. TypeOK /\ NotYetLaunched /\ Process \in Holders
  BY DEF IInv, Holders
<1>1. CASE \/ StationDies \/ Outage
           \/ \E c \in Copies : Start(c) \/ Stop(c) \/ CopyDies(c) \/ CopyCut(c)
           \/ \E h \in Holders : StationCut(h)
  BY <1>0, <1>1, EventOrderly
<1>2. CASE upset = "one"
  <2>0. Orderly /\ up
    BY <1>2 DEF OneThing, Orderly, Quiet
  <2>1. CASE Dropped
    BY <1>0, <2>0, <2>1, DroppedOrderly
  <2>2. CASE Seat
    BY <1>0, <2>0, <2>2, SeatOrderly
  <2>3. CASE ProcessEnds
    BY <1>0, <2>0, <2>3, ProcessEndsOrderly
  <2>4. ASSUME NEW h \in Holders, Station(h) PROVE Orderly'
    BY <1>0, <2>0, <2>4, StationOrderly DEF Station, NoAnswer
  <2>5. ASSUME NEW c \in Copies, Copy(c) PROVE Orderly'
    BY <1>0, <1>2, <2>0, <2>5, CopyOrderly, EndsOrderly DEF Copy, Missed
  <2>6. CASE UNCHANGED vars
    BY <2>0, <2>6 DEF Orderly, Quiet, CutOff, Served, Vacant, Seeking, OneStation, Patient,
                      LowestMakes, StartsAlone, Idle, Still, vars, radio, seat
  <2>7. ASSUME NEW c \in Copies, Stalls(c) PROVE FALSE
    BY <2>0, <2>7 DEF Stalls
  <2>8. ~Back
    BY <2>0 DEF Back
  <2> QED
    BY <1>1, <2>1, <2>2, <2>3, <2>4, <2>5, <2>6, <2>7, <2>8 DEF Next, Environment
<1>3. CASE upset # "one"
  <2>1. CASE UNCHANGED upset
    BY <1>3, <2>1
  <2>2. CASE Dropped \/ Back \/ Seat \/ ProcessEnds
    BY <1>3, <2>2 DEF Dropped, Back, Seat, StationFailed, Launch, Started, Stopped, StationStopped,
                      Reap, ProcessEnds
  <2>3. ASSUME NEW h \in Holders, Station(h) PROVE FALSE
    BY <1>3, <2>3 DEF Station, Look, Register, BeatLost, Returns, NoAnswer
  <2>4. ASSUME NEW c \in Copies, Copy(c) \/ Stalls(c) PROVE FALSE
    BY <1>3, <2>4 DEF Copy, Connect, Poll, WaitEnds, LooksAgain, Bind, Build, Missed, Lost,
                      Settles, Ends,
                      Stalls, copyOnly
  <2> QED
    BY <1>1, <2>1, <2>2, <2>3, <2>4 DEF Next, Environment, vars
<1> QED
  BY <1>2, <1>3

\* KeepsRunning: of one start, stop, death or broken connection at rest, with the
\* radio up, no copy comes to end by itself (_station_gone, station_wait, Turn):
\* one takes the place, the others are bound to it again.
THEOREM OthersKeepRunning == Spec => KeepsRunning
<1> DEFINE A == upset = "one" => \A c \in Copies : pc'[c] = "ends" => pc[c] = "ends"
<1>1. Init => Order /\ OneThing
  BY DEF Init, Order, FirstOp, FirstPc, Begun, StoppingIn, OffIdle, HolderLive, ProcessStarts,
         Holds, Holders, Process,
         OneThing, Orderly, Quiet, CutOff, Served, Vacant, Seeking, OneStation, Patient,
         LowestMakes,
         StartsAlone, Idle
<1>2. IInv /\ Order /\ OneThing /\ [Next]_vars => (Order /\ OneThing)'
  BY StepOrder, OneThingStep
<1>3. IInv /\ OneThing /\ OneThing' /\ [Next]_vars => [A]_vars
  <2> SUFFICES ASSUME IInv, OneThing, OneThing', [Next]_vars, upset = "one",
                      NEW c \in Copies, pc'[c] = "ends", pc[c] # "ends"
               PROVE  FALSE
    OBVIOUS
  <2>1. upset' # "one"
    BY DEF OneThing, Orderly, Quiet
  <2>2. /\ Process \notin Copies
        /\ pc \in [Copies -> {"off", "connects", "waits", "makes", "looks again", "binds", "builds",
                        "live", "settles", "ends"}]
    BY FlexStationAssumption DEF IInv, TypeOK, Process
  <2>3. CASE StationDies \/ Outage \/ \E h \in Holders : StationCut(h)
    BY <2>3 DEF StationDies, Outage, StationCut
  <2>4. ASSUME NEW d \in Copies, Start(d) \/ Stop(d) \/ CopyDies(d) \/ CopyCut(d) PROVE FALSE
    BY <2>2, <2>4 DEF Start, Stop, CopyDies, CopyCut, Goes
  <2>5. CASE UNCHANGED vars \/ Dropped \/ Back \/ Seat \/ ProcessEnds
    BY <2>1, <2>5 DEF vars, Dropped, Back, Seat, StationFailed, Launch, Started, Stopped,
                      StationStopped, Reap, ProcessEnds
  <2>6. ASSUME NEW h \in Holders, Station(h) PROVE FALSE
    BY <2>1, <2>6 DEF Station, Look, Register, BeatLost, Returns, NoAnswer
  <2>7. ASSUME NEW d \in Copies, Copy(d) \/ Stalls(d) PROVE FALSE
    BY <2>1, <2>7 DEF Copy, Connect, Poll, WaitEnds, LooksAgain, Bind, Build, Missed, Lost,
                      Settles, Ends,
                      Stalls, copyOnly
  <2> QED
    BY <2>3, <2>4, <2>5, <2>6, <2>7 DEF Next, Environment
<1> QED
  BY <1>1, <1>2, <1>3, Invariance, PTL DEF Spec, KeepsRunning
=============================================================================
