---------------------------- MODULE FeederControl ----------------------------
(***************************************************************************)
(* The RBN feeder of one radio, as the server controls it: the operations  *)
(* queue and its one worker, the process hub and the reaper of             *)
(* sparkgap_server.py, the copies seat.py starts and stops, and the feeder *)
(* process rbn2_feeder.py, which links to the hub (process_link.py) and    *)
(* lives on while the server is away.                                      *)
(*                                                                         *)
(* The worker runs one operation at a time in a thread; the event loop     *)
(* takes requests, keeps the links and runs the reaper beside it.  pc is   *)
(* what the worker does next, one step between two moments at which        *)
(* another actor can be seen to act: it looks at the hub twice before it   *)
(* starts a feeder.  The reaper keeps what it saw for as long as it waits  *)
(* for the feeders of other radios to answer, while operations come and    *)
(* go.                                                                     *)
(*                                                                         *)
(* Left out: the radio's station and the locks of the seat, add and remove *)
(* of receivers, which start and stop copies as start and stop do, a link  *)
(* of this machine that breaks while both its ends live, and the texts of  *)
(* the answers.  A launch has written its pid file when it returns.        *)
(***************************************************************************)
EXTENDS Integers, Sequences, FiniteSets

CONSTANTS
  Receivers,        \* the receivers of the radio, each a copy of its own
  None,             \* no operation
  MAX_QUEUED_OPS,
  MaxRequests,      \* bound: requests accepted
  MaxFeeders,       \* bound: feeder processes started
  MaxFaults,        \* bound: faults, each kind once
  Faults            \* the kinds of fault that may happen

Modes == {"off", "dry", "live"}                   \* rbn_upload
Kinds == {"copy dies", "feeder dies", "server dies", "not live", "slow", "no answer"}
Commands == {"start", "stop", "restart", "set"}
Op == [cmd : Commands, r : Receivers, mode : Modes]
Stages == {"starting", "ready", "stopping", "exiting", "gone"}
Feeder == [stage : Stages, mode : Modes, names : SUBSET Receivers]
Steps == {"idle", "down", "unlink", "write", "halt", "launch", "live", "up", "relink",
          "again", "link"}

ASSUME FeederControlAssumption ==
  /\ None \notin Op
  /\ {MAX_QUEUED_OPS, MaxRequests, MaxFeeders, MaxFaults} \subseteq Nat
  /\ Faults \subseteq Kinds

VARIABLES
  serverUp,   \* the server process runs
  copies,     \* receivers whose copy runs
  upload,     \* rbn_upload in the radio's file
  feeders,    \* every feeder process started, in order; the pid file names the last
  hub,        \* the feeder linked to the hub (procs), 0 for none
  queue,      \* requests waiting for the worker
  op, pc,     \* the worker's operation and its next step
  reaper,     \* what the reaper has seen: "none" while it does not look
  late,       \* a request was accepted since it began to look
  requests,   \* requests accepted so far
  faults      \* the kinds of fault that have happened

look == <<reaper, late>>
server == <<hub, queue, op, pc, look>>
vars == <<serverUp, copies, upload, feeders, server, requests, faults>>

-----------------------------------------------------------------------------
(* The state of the feeder, and of the requests.                           *)

Last == Len(feeders)

\* feeder_pid: the process the pid file names is alive.
PidAliveNever == FALSE                                           \* mutant
PidAlive == Last > 0 /\ feeders[Last].stage # "gone"

\* busy, by receiver: an operation is queued or under way.
Busy == {queue[i].r : i \in DOMAIN queue} \cup (IF pc = "idle" THEN {} ELSE {op.r})

\* _feeds: the running receivers, without the one that stops.
FeedsWithout(r) == copies \ {r}

Fault(kind) ==
  /\ kind \in Faults \ faults /\ Cardinality(faults) < MaxFaults
  /\ faults' = faults \cup {kind}

Stage(f, stage) == [feeders EXCEPT ![f].stage = stage]

\* The "stop" and "receivers" commands, as on_command of the linked feeder takes them.
ToldToStop == IF feeders[hub].stage = "ready" THEN Stage(hub, "stopping") ELSE feeders

ToldNothing(names) == feeders                                    \* mutant
Told(names) == [feeders EXCEPT ![hub].names = names]

Init ==
  /\ serverUp = TRUE /\ copies = {} /\ upload \in Modes
  /\ feeders = <<>> /\ hub = 0
  /\ queue = <<>> /\ op = None /\ pc = "idle"
  /\ reaper = "none" /\ late = FALSE
  /\ requests = 0 /\ faults = {}

-----------------------------------------------------------------------------
(* The event loop takes a request; the worker carries it out.              *)

\* _request_op.  A refused request changes nothing.
Request(r, cmd, mode) ==
  /\ serverUp /\ requests < MaxRequests
  /\ r \notin Busy
  /\ Cardinality(Busy) < MAX_QUEUED_OPS
  /\ queue' = Append(queue, [cmd |-> cmd, r |-> r, mode |-> mode])
  /\ requests' = requests + 1 /\ late' = (reaper # "none")
  /\ UNCHANGED <<serverUp, copies, upload, feeders, hub, op, pc, reaper, faults>>

\* _run_op
Take ==
  /\ pc = "idle" /\ queue # <<>>
  /\ op' = Head(queue) /\ queue' = Tail(queue)
  /\ pc' = IF Head(queue).cmd = "start" THEN "launch" ELSE "down"
  /\ UNCHANGED <<serverUp, copies, upload, feeders, hub, look, requests, faults>>

GoTo(step) == pc' = step /\ op' = op
DoneNotCleared == pc' = "idle" /\ op' = op                       \* mutant
Done == pc' = "idle" /\ op' = None                \* answered, or failed with an error

AfterDown == IF op.cmd = "set" THEN "write" ELSE "halt"

\* Other receivers still feed the feeder, and the operation does not speak of all.
FedByOthersNever == FALSE                                        \* mutant
FedByOthers == op.cmd # "set" /\ FeedsWithout(op.r) # {}

\* _feeder_down, up to its wait.
Down ==
  /\ pc = "down"
  /\ \/ /\ hub = 0
        /\ GoTo(AfterDown) /\ UNCHANGED feeders
     \/ /\ hub # 0 /\ FedByOthers
        /\ feeders' = Told(FeedsWithout(op.r)) /\ GoTo(AfterDown)
     \/ /\ hub # 0 /\ ~FedByOthers
        /\ feeders' = ToldToStop /\ GoTo("unlink")
  /\ UNCHANGED <<serverUp, copies, upload, hub, queue, look, requests, faults>>

\* _wait_link(False)
Unlinked ==
  /\ pc = "unlink" /\ hub = 0
  /\ GoTo(AfterDown)
  /\ UNCHANGED <<serverUp, copies, upload, feeders, hub, queue, look, requests, faults>>

\* The feeder has not gone when the wait for its stop, and for its signal, is over.
StillLinked ==
  /\ pc = "unlink" /\ hub # 0
  /\ Fault("no answer")
  /\ Done
  /\ UNCHANGED <<serverUp, copies, upload, feeders, hub, queue, look, requests>>

\* set_upload, and _feeder_up when a receiver feeds.
Write ==
  /\ pc = "write"
  /\ upload' = op.mode
  /\ IF copies = {} THEN Done ELSE GoTo("up")
  /\ UNCHANGED <<serverUp, copies, feeders, hub, queue, look, requests, faults>>

\* _stop
Halt ==
  /\ pc = "halt"
  /\ copies' = copies \ {op.r}
  /\ IF op.cmd = "stop" THEN Done ELSE GoTo("launch")
  /\ UNCHANGED <<serverUp, upload, feeders, hub, queue, look, requests, faults>>

\* The copy is still running when the wait for it is over: the operation fails.
StillRunning ==
  /\ pc = "halt" /\ op.r \in copies
  /\ Fault("no answer")
  /\ Done
  /\ UNCHANGED <<serverUp, copies, upload, feeders, hub, queue, look, requests>>

\* _start, up to its wait
Launch ==
  /\ pc = "launch"
  /\ IF op.r \in copies THEN copies' = copies /\ GoTo("up")
     ELSE copies' = copies \cup {op.r} /\ GoTo("live")
  /\ UNCHANGED <<serverUp, upload, feeders, hub, queue, look, requests, faults>>

\* The copy is live, or it has died: the operation fails.
Live ==
  /\ pc = "live"
  /\ IF op.r \in copies THEN GoTo("up") ELSE Done
  /\ UNCHANGED <<serverUp, copies, upload, feeders, hub, queue, look, requests, faults>>

\* Running, but not live within START_WAIT_S: the operation fails.
NotLive ==
  /\ pc = "live" /\ op.r \in copies
  /\ Fault("not live")
  /\ Done
  /\ UNCHANGED <<serverUp, copies, upload, feeders, hub, queue, look, requests>>

\* _feeder_up's name runs; `set` asks for one of the running receivers.
Runs == IF op.cmd = "set" THEN copies # {} ELSE op.r \in copies

\* _feeder_up, its first look: nothing to feed, a feeder that runs and is not linked,
\* one that is linked, or none.
Up ==
  /\ pc = "up"
  /\ IF upload = "off" \/ ~Runs THEN Done
     ELSE IF hub = 0 /\ PidAlive THEN GoTo("relink") ELSE GoTo("again")
  /\ UNCHANGED <<serverUp, copies, upload, feeders, hub, queue, look, requests, faults>>

\* The feeder that runs has linked again.
Relinked ==
  /\ pc = "relink" /\ hub # 0
  /\ GoTo("again")
  /\ UNCHANGED <<serverUp, copies, upload, feeders, hub, queue, look, requests, faults>>

\* The second look: the linked feeder is told its receivers; when none is linked one is
\* started, whatever the pid file says by now.  (It is given the operation's own receiver
\* when none runs any more: a receiver that does not run is not among its names here.)
Again ==
  /\ pc = "again"
  /\ \/ /\ hub # 0
        /\ feeders' = Told(copies) /\ Done
     \/ /\ hub = 0 /\ Last < MaxFeeders
        /\ feeders' = Append(feeders, [stage |-> "starting", mode |-> "off", names |-> copies])
        /\ GoTo("link")
  /\ UNCHANGED <<serverUp, copies, upload, hub, queue, look, requests, faults>>

Linked ==
  /\ pc = "link" /\ hub # 0
  /\ Done
  /\ UNCHANGED <<serverUp, copies, upload, feeders, hub, queue, look, requests, faults>>

\* FEED_RELINK_S or FEED_LINK_S is over: because the feeder ends or has ended, or
\* (a fault) because it takes longer than that to start.
GivesUp ==
  /\ pc \in {"relink", "link"} /\ hub = 0
  /\ IF feeders[Last].stage \in {"starting", "ready"} THEN Fault("slow") ELSE UNCHANGED faults
  /\ Done
  /\ UNCHANGED <<serverUp, copies, upload, feeders, hub, queue, look, requests>>

Worker ==
  \/ Take \/ Down \/ Unlinked \/ StillLinked \/ Write \/ Halt \/ StillRunning
  \/ Launch \/ Live \/ NotLive \/ Up \/ Relinked \/ Again \/ Linked \/ GivesUp

-----------------------------------------------------------------------------
(* The reaper, of the state loop: it looks in a thread, then acts.         *)

\* _reap: no operation is under way, a thread begins to look.
ReapCheck ==
  /\ serverUp /\ reaper = "none"
  /\ hub # 0 /\ Busy = {}
  /\ reaper' = "looking" /\ late' = FALSE
  /\ UNCHANGED <<serverUp, copies, upload, feeders, hub, queue, op, pc, requests, faults>>

\* _feeding: the copies that run, whatever is under way by now.  Where one feeds, the
\* reaper is done.
ReapLook ==
  /\ reaper = "looking"
  /\ IF copies = {} THEN reaper' = "unfed" /\ late' = late
     ELSE reaper' = "none" /\ late' = FALSE
  /\ UNCHANGED <<serverUp, copies, upload, feeders, hub, queue, op, pc, requests, faults>>

ReapsNever == FALSE                                              \* mutant
ReapsWhileBusy == hub # 0                                        \* mutant

\* An operation that began since the look and is under way decides; one that is over
\* is not noticed.
Reaps == Busy = {} /\ hub # 0

ReapAct ==
  /\ reaper = "unfed"
  /\ feeders' = IF Reaps THEN ToldToStop ELSE feeders
  /\ reaper' = "none" /\ late' = FALSE
  /\ UNCHANGED <<serverUp, copies, upload, hub, queue, op, pc, requests, faults>>

Reaper == ReapCheck \/ ReapLook \/ ReapAct

-----------------------------------------------------------------------------
(* The feeder process.                                                     *)

FeederOnly == UNCHANGED <<serverUp, copies, upload, queue, op, pc, look, requests, faults>>

\* main reads the radio's file and exits when its upload is off.
ReadFile(f) ==
  /\ feeders[f].stage = "starting"
  /\ feeders' = [feeders EXCEPT ![f].stage = IF upload = "off" THEN "gone" ELSE "ready",
                                ![f].mode = upload]
  /\ FeederOnly /\ UNCHANGED hub

\* ProcessLink: it links whenever the server is there; an older link of its name goes.
Link(f) ==
  /\ feeders[f].stage = "ready" /\ serverUp /\ hub # f
  /\ hub' = f
  /\ FeederOnly /\ UNCHANGED feeders

UnlinkForgotten(f) == hub' = hub                                 \* mutant
Unlink(f) == hub' = IF hub = f THEN 0 ELSE hub

\* Told to stop: it closes its link, then ends.
Close(f) ==
  /\ feeders[f].stage = "stopping"
  /\ feeders' = Stage(f, "exiting") /\ Unlink(f)
  /\ FeederOnly

Exit(f) ==
  /\ feeders[f].stage = "exiting"
  /\ feeders' = Stage(f, "gone")
  /\ FeederOnly /\ UNCHANGED hub

FeederStep(f) == ReadFile(f) \/ Link(f) \/ Close(f) \/ Exit(f)

-----------------------------------------------------------------------------
(* What fails.                                                             *)

FeederDies(f) ==
  /\ feeders[f].stage # "gone"
  /\ Fault("feeder dies")
  /\ feeders' = Stage(f, "gone") /\ Unlink(f)
  /\ UNCHANGED <<serverUp, copies, upload, queue, op, pc, look, requests>>

CopyDies(r) ==
  /\ r \in copies
  /\ Fault("copy dies")
  /\ copies' = copies \ {r}
  /\ UNCHANGED <<serverUp, upload, feeders, server, requests>>

\* The server dies, or is stopped with an operation under way: what it was doing is
\* lost, what it started runs on.
ServerDies ==
  /\ serverUp
  /\ Fault("server dies")
  /\ serverUp' = FALSE
  /\ hub' = 0 /\ queue' = <<>> /\ op' = None /\ pc' = "idle"
  /\ reaper' = "none" /\ late' = FALSE
  /\ UNCHANGED <<copies, upload, feeders, requests>>

ServerStarts ==
  /\ ~serverUp
  /\ serverUp' = TRUE
  /\ UNCHANGED <<copies, upload, feeders, server, requests, faults>>

Requests == \E r \in Receivers :
  \/ \E cmd \in Commands \ {"set"} : Request(r, cmd, "off")
  \/ \E mode \in Modes : Request(r, "set", mode)

Next ==
  \/ Requests
  \/ Worker
  \/ Reaper
  \/ \E f \in DOMAIN feeders : FeederStep(f) \/ FeederDies(f)
  \/ \E r \in Receivers : CopyDies(r)
  \/ ServerDies \/ ServerStarts

Spec == Init /\ [][Next]_vars

\* The worker, the state loop and a feeder that lives go on.
Fairness ==
  /\ WF_vars(Worker) /\ WF_vars(Reaper)
  /\ \A f \in 1..MaxFeeders : WF_vars(f \in DOMAIN feeders /\ FeederStep(f))

FairSpec == Spec /\ Fairness

-----------------------------------------------------------------------------
(* Properties.                                                             *)

\* Every variable has its type, and hub and pc agree with what they speak of.
TypeOK ==
  /\ serverUp \in BOOLEAN /\ copies \subseteq Receivers /\ upload \in Modes
  /\ feeders \in Seq(Feeder) /\ hub \in 0..Len(feeders)
  /\ queue \in Seq(Op) /\ pc \in Steps
  /\ op \in Op \cup {None} /\ (op = None <=> pc = "idle")
  /\ reaper \in {"none", "looking", "unfed"} /\ late \in BOOLEAN
  /\ requests \in Nat /\ faults \subseteq Faults

AtWork(f) == feeders[f].stage \in {"starting", "ready", "stopping"}

\* Never a second feeder at work: one that starts, posts or has still to close its link
\* is the only one, also when the server that started it has died since.  A process
\* that has closed its link and is about to end may live beside it.
OneFeeder == \A f, g \in DOMAIN feeders : AtWork(f) /\ AtWork(g) => f = g

\* A feeder is told to stop only to follow a new rbn_upload, with its radio's last
\* copy, or when no copy feeds it, with one exception: an operation that was accepted
\* and answered within one look of the reaper is not noticed by it.
KeepsFeeding ==
  [][\A f \in DOMAIN feeders :
       feeders[f].stage = "ready" /\ feeders'[f].stage = "stopping"
         => \/ copies = {}
            \/ pc = "down" /\ (op.cmd = "set" \/ copies \subseteq {op.r})
            \/ Busy = {} /\ late]_vars

\* A linked feeder runs in the mode the radio's file names, unless an operation is
\* about to change it.
Follows(f) == feeders[f].stage = "ready" /\ Busy = {} => feeders[f].mode = upload

FollowsUpload == hub # 0 => Follows(hub)

\* No feeder was out of the server's sight.
InSight == faults \cap {"server dies", "slow"} = {}

\* ... and it does as long as no feeder was out of the server's sight.
FollowsUploadInSight == InSight => FollowsUpload

\* A linked feeder reads every running receiver of the radio once no operation is
\* under way, unless one of them failed half way.
FedByRunning ==
  /\ hub # 0 /\ feeders[hub].stage = "ready" /\ Busy = {}
  /\ faults \subseteq {"copy dies", "feeder dies"}
  => copies \subseteq feeders[hub].names

\* With rbn_upload dry or live and a copy running, the radio's feeder runs once the
\* operations are done: with no fault of any kind, so nothing explains its absence.
FeederServes ==
  upload # "off" /\ copies # {} /\ Busy = {} /\ faults = {}
  => \E f \in DOMAIN feeders : feeders[f].stage = "ready"

\* Every request is answered, or lost with the server.
RequestsAnswered == \A r \in Receivers : r \in Busy ~> r \notin Busy

\* A feeder that nothing feeds any more ends.
OrphanFeederEnds ==
  <>[](serverUp /\ copies = {} /\ Busy = {})
    => <>[](\A f \in DOMAIN feeders : feeders[f].stage = "gone")

-----------------------------------------------------------------------------
(* What it implements.                                                     *)

\* The one feeder that may be at work, as FeederService sees it.
ServiceStage ==
  IF Last = 0 THEN "none"
  ELSE CASE feeders[Last].stage = "starting"            -> "starting"
         [] feeders[Last].stage = "ready"               -> "posting"
         [] feeders[Last].stage = "stopping"            -> "ending"
         [] feeders[Last].stage \in {"exiting", "gone"}  -> "none"

ServiceMode == IF ServiceStage \in {"posting", "ending"} THEN feeders[Last].mode ELSE "off"

Service == INSTANCE FeederService
             WITH asked <- op, stage <- ServiceStage, mode <- ServiceMode,
                  found <- reaper = "unfed", sight <- InSight

\* Every step of the server, of a feeder or of a fault is one that FeederService allows,
\* or changes nothing it speaks of, as long as no feeder gets out of the server's sight.
ImplementsService == Service!Spec

=============================================================================
