------------------------- MODULE FeederControlProofs -------------------------
(***************************************************************************)
(* Proofs about FeederControl for every set of receivers, every bound and  *)
(* every set of faults: type correctness, at most one feeder at work,      *)
(* when a feeder that is fed can be told to stop, the mode of a feeder in  *)
(* sight and the receivers it reads.                                       *)
(***************************************************************************)
EXTENDS FeederControl, SequenceTheorems, TLAPS

-----------------------------------------------------------------------------
(* The inductive invariant.                                                *)

Ended == {"exiting", "gone"}

\* Every feeder but the last, the one the pid file names, has ended or is about to.
OneAlive == \A f \in 1..Len(feeders) : f # Len(feeders) => feeders[f].stage \in Ended

\* The hub holds a feeder that has linked and not closed its link.
HubLives == hub # 0 => feeders[hub].stage \in {"ready", "stopping"}

\* When the worker looks at the hub again and finds no link, there is no feeder at work:
\* what was linked or had ended at its first look has ended by now.
AgainSees == pc = "again" /\ hub = 0 => \A f \in 1..Len(feeders) : feeders[f].stage \in Ended

\* While no request came since the reaper began to look, no operation is under way, and
\* what it found is so.
ReaperSees ==
  reaper # "none" /\ ~late
    => pc = "idle" /\ queue = <<>> /\ (reaper = "unfed" => copies = {})

Working(f) == feeders[f].stage \in {"starting", "ready"}

\* As long as no feeder was out of sight: one that works is linked or waited for,
\* none works when rbn_upload is about to be written, and each follows it.
Sight ==
  InSight =>
    \A f \in 1..Len(feeders) :
      /\ Working(f) => hub = f \/ pc = "link"
      /\ pc \in {"unlink", "write"} => ~Working(f)
      /\ feeders[f].stage = "ready" => feeders[f].mode = upload

IInv == TypeOK /\ OneAlive /\ HubLives /\ AgainSees /\ ReaperSees /\ Sight

\* What may feed although the feeder was not told of it: the receiver the worker has
\* taken off the feeder's list and not stopped yet, or has launched and not told.
AtHand == IF pc \in {"halt", "live", "up", "again"} THEN {op.r} ELSE {}

\* Nothing fails but copies and feeders that die.
OnlyDeaths == faults \subseteq {"copy dies", "feeder dies"}

\* As long as copies and feeders only die: a feeder that works knows every running
\* receiver but the one at hand, and none works with rbn_upload off.
Fed ==
  OnlyDeaths =>
    \A f \in 1..Len(feeders) :
      /\ Working(f) => copies \subseteq feeders[f].names \cup AtHand
      /\ feeders[f].stage = "ready" => feeders[f].mode # "off"

-----------------------------------------------------------------------------
(* What each change of the feeders does to them.                           *)

\* A feeder's record may change for any other.
LEMMA SetFeeder ==
  ASSUME TypeOK, NEW f \in 1..Len(feeders), NEW e \in Feeder
  PROVE  LET new == [feeders EXCEPT ![f] = e]
         IN /\ new \in Seq(Feeder)
            /\ Len(new) = Len(feeders)
            /\ \A g \in 1..Len(feeders) : new[g] = IF g = f THEN e ELSE feeders[g]
BY ExceptSeq DEF TypeOK

\* The records of the feeders are records of Feeder.
LEMMA FeederRecord ==
  ASSUME TypeOK, NEW f \in 1..Len(feeders)
  PROVE  /\ feeders[f] \in Feeder
         /\ feeders[f].stage \in Stages /\ feeders[f].mode \in Modes
         /\ feeders[f].names \subseteq Receivers
<1>1. feeders[f] \in Feeder
  BY ElementOfSeq DEF TypeOK
<1> QED
  BY <1>1 DEF Feeder

\* A feeder's stage changes, and nothing else of any feeder.
LEMMA StageEffect ==
  ASSUME TypeOK, NEW f \in 1..Len(feeders), NEW stage \in Stages
  PROVE  /\ Stage(f, stage) \in Seq(Feeder)
         /\ Len(Stage(f, stage)) = Len(feeders)
         /\ \A g \in 1..Len(feeders) :
              /\ Stage(f, stage)[g].stage = IF g = f THEN stage ELSE feeders[g].stage
              /\ Stage(f, stage)[g].mode = feeders[g].mode
              /\ Stage(f, stage)[g].names = feeders[g].names
<1> DEFINE e == [feeders[f] EXCEPT !.stage = stage]
<1>1. e \in Feeder /\ e.stage = stage /\ e.mode = feeders[f].mode /\ e.names = feeders[f].names
  BY FeederRecord DEF Feeder
<1>2. Stage(f, stage) = [feeders EXCEPT ![f] = e]
  BY DEF Stage
<1> QED
  BY <1>1, <1>2, SetFeeder

\* A feeder told its receivers keeps its stage and mode; the others stay as they are.
LEMMA ToldEffect ==
  ASSUME TypeOK, hub # 0, NEW names \in SUBSET Receivers
  PROVE  /\ Told(names) \in Seq(Feeder)
         /\ Len(Told(names)) = Len(feeders)
         /\ \A g \in 1..Len(feeders) :
              /\ Told(names)[g].stage = feeders[g].stage
              /\ Told(names)[g].mode = feeders[g].mode
              /\ Told(names)[g].names = IF g = hub THEN names ELSE feeders[g].names
<1>1. hub \in 1..Len(feeders)
  BY DEF TypeOK
<1> DEFINE e == [feeders[hub] EXCEPT !.names = names]
<1>2. e \in Feeder /\ e.stage = feeders[hub].stage /\ e.mode = feeders[hub].mode /\ e.names = names
  BY <1>1, FeederRecord DEF Feeder
<1>3. Told(names) = [feeders EXCEPT ![hub] = e]
  BY DEF Told
<1> QED
  BY <1>1, <1>2, <1>3, SetFeeder

\* The linked feeder, told to stop, is stopping.
LEMMA ToldToStopEffect ==
  ASSUME TypeOK, HubLives, hub # 0
  PROVE  /\ ToldToStop \in Seq(Feeder)
         /\ Len(ToldToStop) = Len(feeders)
         /\ \A g \in 1..Len(feeders) :
              /\ ToldToStop[g].stage = IF g = hub THEN "stopping" ELSE feeders[g].stage
              /\ ToldToStop[g].mode = feeders[g].mode
              /\ ToldToStop[g].names = feeders[g].names
<1>1. hub \in 1..Len(feeders)
  BY DEF TypeOK
<1>2. CASE feeders[hub].stage = "ready"
  <2>1. "stopping" \in Stages
    BY DEF Stages
  <2>2. ToldToStop = Stage(hub, "stopping")
    BY <1>2 DEF ToldToStop
  <2> QED
    BY <1>1, <2>1, <2>2, StageEffect
<1>3. CASE feeders[hub].stage = "stopping"
  BY <1>1, <1>3 DEF ToldToStop, TypeOK
<1> QED
  BY <1>2, <1>3 DEF HubLives

\* A feeder that has just been started comes last.
Started(names) == [stage |-> "starting", mode |-> "off", names |-> names]

\* What the append of a started feeder does to the list.
LEMMA StartedEffect ==
  ASSUME TypeOK, NEW names \in SUBSET Receivers
  PROVE  LET new == Append(feeders, Started(names))
         IN /\ new \in Seq(Feeder)
            /\ Len(new) = Len(feeders) + 1
            /\ \A g \in 1..Len(feeders) : new[g] = feeders[g]
            /\ new[Len(feeders) + 1] = Started(names)
<1>1. Started(names) \in Feeder
  BY DEF Started, Feeder, Stages, Modes
<1> QED
  BY <1>1, AppendProperties DEF TypeOK

\* The file read at the start sets a feeder's stage and mode, and nothing else.
LEMMA ReadFileEffect ==
  ASSUME TypeOK, NEW f \in 1..Len(feeders), ReadFile(f)
  PROVE  /\ feeders' \in Seq(Feeder)
         /\ Len(feeders') = Len(feeders)
         /\ \A g \in 1..Len(feeders) :
              feeders'[g] = IF g = f
                            THEN [feeders[f] EXCEPT !.stage = IF upload = "off" THEN "gone" ELSE "ready",
                                                    !.mode = upload]
                            ELSE feeders[g]
<1> DEFINE e == [feeders[f] EXCEPT !.stage = IF upload = "off" THEN "gone" ELSE "ready",
                                   !.mode = upload]
<1>1. e \in Feeder
  BY FeederRecord DEF Feeder, Stages, TypeOK
<1>2. feeders' = [feeders EXCEPT ![f] = e]
  BY DEF ReadFile
<1> QED
  BY <1>1, <1>2, SetFeeder

-----------------------------------------------------------------------------
(* Type correctness.                                                       *)

\* The machine starts without feeders, links or operations.
LEMMA InitInv == Init => IInv
<1> SUFFICES ASSUME Init PROVE IInv
  OBVIOUS
<1>1. feeders = <<>> /\ Len(feeders) = 0 /\ feeders \in Seq(Feeder) /\ <<>> \in Seq(Op)
  BY EmptySeq DEF Init
<1>2. TypeOK
  <2>1. late \in BOOLEAN /\ reaper \in {"none", "looking", "unfed"} /\ (op = None <=> pc = "idle")
    BY DEF Init
  <2> QED
    BY <1>1, <2>1, FeederControlAssumption DEF Init, TypeOK, Steps
<1>3. ReaperSees
  BY DEF Init, ReaperSees
<1> QED
  BY <1>1, <1>2, <1>3 DEF Init, IInv, OneAlive, HubLives, AgainSees, Sight


\* The worker's operation is one while it has a next step, and only then.
LEMMA OpTyped ==
  ASSUME TypeOK, pc # "idle"
  PROVE  op \in Op /\ op.r \in Receivers /\ op.mode \in Modes /\ op.cmd \in Commands
BY DEF TypeOK, Op

\* What the worker and the event loop do while they leave every feeder and its link
\* alone keeps the types.
LEMMA TypesQuiet ==
  ASSUME TypeOK, feeders' = feeders, hub' = hub \/ hub' = 0,
         \/ Requests \/ Take \/ Unlinked \/ StillLinked \/ Write \/ Halt \/ StillRunning
         \/ Launch \/ Live \/ NotLive \/ Up \/ Relinked \/ Linked \/ GivesUp
         \/ ReapCheck \/ ReapLook \/ ReapAct
         \/ (\E r \in Receivers : CopyDies(r)) \/ ServerDies \/ ServerStarts
  PROVE  TypeOK'
<1>1. hub' \in 0..Len(feeders')
  BY DEF TypeOK
<1>2. CASE Requests
  <2>1. PICK r \in Receivers, cmd \in Commands, mode \in Modes : Request(r, cmd, mode)
    BY <1>2 DEF Requests, Commands, Modes
  <2>2. [cmd |-> cmd, r |-> r, mode |-> mode] \in Op
    BY DEF Op
  <2>3. queue' \in Seq(Op)
    BY <2>1, <2>2, AppendProperties DEF Request, TypeOK
  <2> QED
    BY <1>1, <2>1, <2>3 DEF Request, look, TypeOK
<1>3. CASE Take
  <2>1. Head(queue) \in Op /\ Tail(queue) \in Seq(Op)
    BY <1>3, HeadTailProperties DEF Take, TypeOK
  <2>2. op' \in Op /\ op' # None /\ pc' \in Steps /\ pc' # "idle"
    BY <1>3, <2>1, FeederControlAssumption DEF Take, Steps
  <2> QED
    BY <1>1, <1>3, <2>1, <2>2 DEF Take, look, TypeOK
<1>4. CASE Unlinked \/ Live \/ Up \/ Relinked
  <2>1. pc' \in Steps /\ (op' = None <=> pc' = "idle") /\ op' \in Op \cup {None}
    BY <1>4 DEF Unlinked, Live, Up, Relinked, GoTo, Done, AfterDown, TypeOK, Steps
  <2> QED
    BY <1>1, <1>4, <2>1 DEF Unlinked, Live, Up, Relinked, look, TypeOK
<1>5. CASE Write \/ Halt \/ Launch
  <2>1. pc' \in Steps /\ (op' = None <=> pc' = "idle") /\ op' \in Op \cup {None}
    BY <1>5 DEF Write, Halt, Launch, GoTo, Done, TypeOK, Steps
  <2>2. copies' \subseteq Receivers /\ upload' \in Modes
    BY <1>5, OpTyped DEF Write, Halt, Launch, TypeOK
  <2> QED
    BY <1>1, <1>5, <2>1, <2>2 DEF Write, Halt, Launch, look, TypeOK
<1>6. CASE StillLinked \/ StillRunning \/ NotLive \/ Linked \/ GivesUp
  <2>1. pc' = "idle" /\ op' = None /\ faults' \subseteq Faults
    BY <1>6 DEF StillLinked, StillRunning, NotLive, Linked, GivesUp, Fault, Done, TypeOK
  <2> QED
    BY <1>1, <1>6, <2>1 DEF StillLinked, StillRunning, NotLive, Linked, GivesUp, look, TypeOK,
                            Steps
<1>7. CASE ReapCheck \/ ReapLook \/ ReapAct
  BY <1>1, <1>7 DEF ReapCheck, ReapLook, ReapAct, TypeOK
<1>8. CASE (\E r \in Receivers : CopyDies(r)) \/ ServerStarts
  BY <1>1, <1>8 DEF CopyDies, ServerStarts, Fault, server, look, TypeOK
<1>9. CASE ServerDies
  <2>1. faults' \subseteq Faults /\ requests' = requests /\ requests \in Nat
    BY <1>9 DEF ServerDies, Fault, TypeOK
  <2>2. late' \in BOOLEAN /\ reaper' = "none"
    <3>1. late' = FALSE /\ reaper' = "none"
      BY <1>9 DEF ServerDies
    <3> QED
      BY <2>1, <3>1
  <2>3. queue' \in Seq(Op) /\ op' = None /\ pc' = "idle" /\ serverUp' = FALSE
        /\ UNCHANGED <<copies, upload>>
    BY <1>9, EmptySeq DEF ServerDies
  <2> QED
    BY <1>1, <2>1, <2>2, <2>3 DEF TypeOK, Steps
<1> QED
  BY <1>2, <1>3, <1>4, <1>5, <1>6, <1>7, <1>8, <1>9

\* A step of the worker in which it speaks to the linked feeder or starts one.
LEMMA TypesSpeaking ==
  ASSUME TypeOK, HubLives, Down \/ Again
  PROVE  TypeOK'
<1>1. copies \in SUBSET Receivers /\ hub' = hub
  BY DEF TypeOK, Down, Again
<1>2. feeders' \in Seq(Feeder) /\ Len(feeders) <= Len(feeders')
  <2>0. Len(feeders) \in Nat
    BY LenProperties DEF TypeOK
  <2>1. CASE feeders' = feeders
    BY <2>0, <2>1 DEF TypeOK
  <2>2. CASE hub # 0 /\ \E names \in SUBSET Receivers : feeders' = Told(names)
    BY <2>0, <2>2, ToldEffect
  <2>3. CASE hub # 0 /\ feeders' = ToldToStop
    BY <2>0, <2>3, ToldToStopEffect
  <2>4. CASE feeders' = Append(feeders, Started(copies))
    BY <2>0, <2>4, <1>1, StartedEffect
  <2>5. FeedsWithout(op.r) \in SUBSET Receivers
    BY <1>1 DEF FeedsWithout
  <2> QED
    BY <1>1, <2>1, <2>2, <2>3, <2>4, <2>5 DEF Down, Again, Started
<1>3. pc' \in Steps /\ (op' = None <=> pc' = "idle") /\ op' \in Op \cup {None}
  BY DEF Down, Again, GoTo, Done, AfterDown, TypeOK, Steps
<1>4. hub' \in 0..Len(feeders')
  BY <1>1, <1>2, LenProperties DEF TypeOK
<1> QED
  BY <1>2, <1>3, <1>4 DEF Down, Again, look, TypeOK

\* A feeder's own step, its death, and the reaper's stop.
LEMMA TypesOfFeeder ==
  ASSUME TypeOK, HubLives,
         \/ \E f \in DOMAIN feeders : FeederStep(f) \/ FeederDies(f)
         \/ ReapAct /\ Reaps
  PROVE  TypeOK'
<1>1. CASE \E f \in DOMAIN feeders : FeederStep(f) \/ FeederDies(f)
  <2>1. PICK f \in 1..Len(feeders) : FeederStep(f) \/ FeederDies(f)
    BY <1>1, LenProperties DEF TypeOK
  <2>2. {"exiting", "gone"} \subseteq Stages
    BY DEF Stages
  <2>3. feeders' \in Seq(Feeder) /\ Len(feeders') = Len(feeders)
    <3>1. CASE ReadFile(f)
      BY <3>1, ReadFileEffect
    <3>2. CASE Link(f)
      BY <3>2 DEF Link, TypeOK
    <3>3. CASE Close(f) \/ Exit(f) \/ FeederDies(f)
      <4>1. PICK stage \in Stages : feeders' = Stage(f, stage)
        BY <3>3, <2>2 DEF Close, Exit, FeederDies
      <4> QED
        BY <4>1, StageEffect
    <3> QED
      BY <2>1, <3>1, <3>2, <3>3 DEF FeederStep
  <2>4. hub' \in 0..Len(feeders')
    <3>1. hub' \in {0, hub, f}
      BY <2>1 DEF FeederStep, FeederDies, ReadFile, Link, Close, Exit, Unlink
    <3>2. Len(feeders) \in Nat
      BY LenProperties DEF TypeOK
    <3> QED
      BY <2>3, <3>1, <3>2 DEF TypeOK
  <2>5. faults' \subseteq Faults
    BY <2>1 DEF FeederStep, FeederDies, ReadFile, Link, Close, Exit, FeederOnly, Fault, TypeOK
  <2> QED
    BY <2>1, <2>3, <2>4, <2>5
       DEF FeederStep, FeederDies, ReadFile, Link, Close, Exit, FeederOnly, look, TypeOK
<1>2. CASE ReapAct /\ Reaps
  BY <1>2, ToldToStopEffect DEF ReapAct, Reaps, TypeOK
<1> QED
  BY <1>1, <1>2

\* Types: a link is of a feeder there was, an operation of a receiver.
LEMMA TypeStep == TypeOK /\ HubLives /\ [Next]_vars => TypeOK'
<1> SUFFICES ASSUME TypeOK, HubLives, [Next]_vars PROVE TypeOK'
  OBVIOUS
<1>1. CASE UNCHANGED vars
  BY <1>1 DEF vars, server, look, TypeOK
<1>2. CASE Requests \/ ReapCheck \/ ReapLook \/ ServerStarts \/ \E r \in Receivers : CopyDies(r)
  BY <1>2, TypesQuiet DEF Requests, Request, ReapCheck, ReapLook, ServerStarts, CopyDies, server
<1>3. CASE ServerDies
  BY <1>3, TypesQuiet DEF ServerDies
<1>4. CASE Take \/ Unlinked \/ StillLinked \/ Write \/ Halt \/ StillRunning \/ Launch
           \/ Live \/ NotLive \/ Up \/ Relinked \/ Linked \/ GivesUp
  <2>1. feeders' = feeders /\ hub' = hub
    BY <1>4 DEF Take, Unlinked, StillLinked, Write, Halt, StillRunning, Launch, Live,
                NotLive, Up, Relinked, Linked, GivesUp
  <2> QED
    BY <1>4, <2>1, TypesQuiet
<1>5. CASE Down \/ Again
  BY <1>5, TypesSpeaking
<1>6. CASE ReapAct
  BY <1>6, TypesQuiet, TypesOfFeeder DEF ReapAct
<1>7. CASE \E f \in DOMAIN feeders : FeederStep(f) \/ FeederDies(f)
  BY <1>7, TypesOfFeeder
<1> QED
  BY <1>1, <1>2, <1>3, <1>4, <1>5, <1>6, <1>7 DEF Next, Worker, Reaper

-----------------------------------------------------------------------------
(* The other parts of the invariant.                                       *)

\* No feeder starts, and none changes its stage or mode.
Kept ==
  /\ Len(feeders') = Len(feeders)
  /\ \A g \in 1..Len(feeders) : /\ feeders'[g].stage = feeders[g].stage
                                /\ feeders'[g].mode = feeders[g].mode

Starts == feeders' = Append(feeders, Started(copies))
Stops == feeders' = ToldToStop

\* The steps of the worker and the reaper leave the stages as they are, but for the
\* one that starts a feeder and the two that tell the linked one to stop.
LEMMA FeedersKept ==
  ASSUME TypeOK,
         \/ feeders' = feeders
         \/ Down /\ ~(hub # 0 /\ Stops)
         \/ Again /\ ~Starts
  PROVE  Kept
<1>1. copies \in SUBSET Receivers /\ FeedsWithout(op.r) \in SUBSET Receivers
  BY DEF TypeOK, FeedsWithout
<1>2. CASE feeders' = feeders
  BY <1>2 DEF Kept
<1>3. CASE hub # 0 /\ \E names \in SUBSET Receivers : feeders' = Told(names)
  BY <1>3, ToldEffect DEF Kept
<1> QED
  BY <1>1, <1>2, <1>3 DEF Down, Again, Stops, Starts, Started

\* The steps that change a stage, each with what it knows before.
LEMMA FeedersChange ==
  ASSUME TypeOK, HubLives, [Next]_vars
  PROVE  \/ Kept /\ (hub' \in {hub, 0} \/ \E f \in 1..Len(feeders) : Link(f))
         \/ hub # 0 /\ hub' = hub /\ Stops /\ (Down \/ (ReapAct /\ Reaps))
         \/ hub = 0 /\ hub' = 0 /\ Again /\ Starts
         \/ \E f \in 1..Len(feeders) : ReadFile(f) \/ Close(f) \/ Exit(f) \/ FeederDies(f)
<1>1. CASE Down \/ Again
  <2>1. hub' = hub
    BY <1>1 DEF Down, Again
  <2>2. CASE hub # 0 /\ Down /\ Stops
    BY <2>1, <2>2
  <2>3. CASE Again /\ Starts
    <3>1. hub = 0 \/ Kept
      <4>1. copies \in SUBSET Receivers
        BY DEF TypeOK
      <4> QED
        BY <2>3, <4>1, ToldEffect DEF Again, Kept
    <3> QED
      BY <2>1, <2>3, <3>1
  <2> QED
    BY <1>1, <2>1, <2>2, <2>3, FeedersKept
<1>2. CASE ReapAct
  <2>1. CASE Reaps
    BY <1>2, <2>1 DEF ReapAct, Reaps, Stops
  <2>2. CASE ~Reaps
    BY <1>2, <2>2 DEF ReapAct, Kept
  <2> QED
    BY <2>1, <2>2
<1>3. CASE \E f \in DOMAIN feeders : FeederStep(f) \/ FeederDies(f)
  <2>1. PICK f \in 1..Len(feeders) : FeederStep(f) \/ FeederDies(f)
    BY <1>3, LenProperties DEF TypeOK
  <2>2. CASE Link(f)
    BY <2>2 DEF Link, Kept
  <2> QED
    BY <2>1, <2>2 DEF FeederStep
<1>4. CASE Requests \/ ReapCheck \/ ReapLook \/ ServerStarts \/ (\E r \in Receivers : CopyDies(r))
           \/ UNCHANGED vars
  BY <1>4 DEF Requests, Request, ReapCheck, ReapLook, ServerStarts, CopyDies, server, vars, Kept
<1>5. CASE ServerDies
  BY <1>5 DEF ServerDies, Kept
<1>6. CASE Take \/ Unlinked \/ StillLinked \/ Write \/ Halt \/ StillRunning \/ Launch
           \/ Live \/ NotLive \/ Up \/ Relinked \/ Linked \/ GivesUp
  BY <1>6 DEF Take, Unlinked, StillLinked, Write, Halt, StillRunning, Launch, Live,
              NotLive, Up, Relinked, Linked, GivesUp, Kept
<1> QED
  BY <1>1, <1>2, <1>3, <1>4, <1>5, <1>6 DEF Next, Worker, Reaper

\* What a feeder's own step does to the stages, and to the link.
LEMMA StageSteps ==
  ASSUME TypeOK, NEW f \in 1..Len(feeders),
         ReadFile(f) \/ Close(f) \/ Exit(f) \/ FeederDies(f)
  PROVE  /\ feeders[f].stage # "gone"
         /\ Len(feeders') = Len(feeders)
         /\ \A g \in 1..Len(feeders) : g # f => /\ feeders'[g].stage = feeders[g].stage
                                                /\ feeders'[g].mode = feeders[g].mode
         /\ \A g \in 1..Len(feeders) : feeders'[g].names = feeders[g].names
         /\ \/ /\ feeders[f].stage = "starting" /\ hub' = hub /\ UNCHANGED <<upload, pc, faults>>
               /\ feeders'[f].stage \in {"ready", "gone"} /\ feeders'[f].mode = upload
               /\ feeders'[f].stage = "ready" => upload # "off"
            \/ /\ feeders'[f].stage \in {"exiting", "gone"}
               /\ hub' = IF hub = f THEN 0 ELSE hub
               /\ UNCHANGED <<upload, pc>> /\ faults \subseteq faults'
            \/ /\ feeders[f].stage = "exiting" /\ feeders'[f].stage = "gone"
               /\ UNCHANGED <<hub, upload, pc, faults>>
<1>0. "exiting" \in Stages /\ "gone" \in Stages
  BY DEF Stages
<1>1. CASE ReadFile(f)
  <2> DEFINE stage == IF upload = "off" THEN "gone" ELSE "ready"
             e == [feeders[f] EXCEPT !.stage = stage, !.mode = upload]
  <2>1. feeders[f] \in Feeder
    BY FeederRecord
  <2>2. e.stage = stage /\ e.mode = upload /\ e.names = feeders[f].names
    BY <2>1 DEF Feeder
  <2>3. /\ Len(feeders') = Len(feeders) /\ feeders'[f] = e
        /\ \A g \in 1..Len(feeders) : g # f => feeders'[g] = feeders[g]
    BY <1>1, ReadFileEffect
  <2>4. feeders'[f].stage \in {"ready", "gone"} /\ feeders'[f].mode = upload
        /\ (feeders'[f].stage = "ready" => upload # "off") /\ feeders'[f].names = feeders[f].names
    BY <2>2, <2>3
  <2>5. feeders[f].stage = "starting" /\ UNCHANGED <<hub, upload, pc, faults>>
    BY <1>1 DEF ReadFile, FeederOnly
  <2> HIDE DEF e
  <2> QED
    BY <2>3, <2>4, <2>5
<1>2. CASE Close(f)
  <2>1. /\ feeders' = Stage(f, "exiting") /\ feeders[f].stage = "stopping"
        /\ hub' = IF hub = f THEN 0 ELSE hub
        /\ UNCHANGED <<upload, pc, faults>>
    BY <1>2 DEF Close, Unlink, FeederOnly
  <2> QED
    BY <1>0, <2>1, StageEffect
<1>3. CASE Exit(f)
  <2>1. /\ feeders' = Stage(f, "gone") /\ feeders[f].stage = "exiting"
        /\ UNCHANGED <<hub, upload, pc, faults>>
    BY <1>3 DEF Exit, FeederOnly
  <2> QED
    BY <1>0, <2>1, StageEffect
<1>4. CASE FeederDies(f)
  <2>1. /\ feeders' = Stage(f, "gone") /\ feeders[f].stage # "gone"
        /\ hub' = IF hub = f THEN 0 ELSE hub
        /\ UNCHANGED <<upload, pc>> /\ faults \subseteq faults'
    BY <1>4 DEF FeederDies, Unlink, Fault
  <2> QED
    BY <1>0, <2>1, StageEffect
<1> QED
  BY <1>1, <1>2, <1>3, <1>4

\* A feeder is started only when none is at work.
LEMMA OneAliveStep == TypeOK /\ HubLives /\ OneAlive /\ AgainSees /\ [Next]_vars => OneAlive'
<1> SUFFICES ASSUME TypeOK, HubLives, OneAlive, AgainSees, [Next]_vars PROVE OneAlive'
  OBVIOUS
<1>1. Len(feeders) \in Nat /\ hub \in 0..Len(feeders)
  BY LenProperties DEF TypeOK
<1>2. CASE Kept
  BY <1>2 DEF Kept, OneAlive
<1>3. CASE hub # 0 /\ Stops
  BY <1>1, <1>3, ToldToStopEffect DEF Stops, OneAlive, HubLives, Ended
<1>4. CASE Starts /\ Again /\ hub = 0
  <2>1. \A g \in 1..Len(feeders) : feeders[g].stage \in Ended
    BY <1>4 DEF Again, AgainSees
  <2>2. copies \in SUBSET Receivers
    BY DEF TypeOK
  <2> QED
    BY <1>1, <1>4, <2>1, <2>2, StartedEffect DEF Starts, OneAlive
<1>5. CASE \E f \in 1..Len(feeders) : ReadFile(f) \/ Close(f) \/ Exit(f) \/ FeederDies(f)
  BY <1>5, StageSteps DEF OneAlive, Ended
<1> QED
  BY <1>2, <1>3, <1>4, <1>5, FeedersChange

\* The worker comes to its second look from a link, or from a pid file whose process has
\* ended; a link that goes before it looks goes with its feeder.
LEMMA AgainSeesStep ==
  TypeOK /\ HubLives /\ OneAlive /\ AgainSees /\ [Next]_vars => AgainSees'
<1> SUFFICES ASSUME TypeOK, HubLives, OneAlive, AgainSees, [Next]_vars,
                    pc' = "again", hub' = 0
             PROVE  \A f \in 1..Len(feeders') : feeders'[f].stage \in Ended
  BY DEF AgainSees
<1>1. Len(feeders) \in Nat /\ hub \in 0..Len(feeders) /\ Last = Len(feeders)
  BY LenProperties DEF TypeOK, Last
<1>2. CASE Requests \/ ReapCheck \/ ReapLook \/ ServerStarts \/ (\E r \in Receivers : CopyDies(r))
           \/ UNCHANGED vars
  BY <1>2 DEF Requests, Request, ReapCheck, ReapLook, ServerStarts, CopyDies, server, vars, AgainSees
<1>3. CASE ReapAct
  <2>1. pc = "again" /\ hub = 0 /\ ~Reaps
    BY <1>3 DEF ReapAct, Reaps
  <2> QED
    BY <1>3, <2>1 DEF ReapAct, AgainSees
<1>4. ~ServerDies
  BY DEF ServerDies
<1>5. CASE Up
  <2>1. hub = 0 /\ ~PidAlive /\ feeders' = feeders
    BY <1>5 DEF Up, GoTo, Done
  <2> QED
    BY <1>1, <2>1 DEF PidAlive, OneAlive, Ended
<1>6. ~Relinked
  BY DEF Relinked
<1>7. ~(Take \/ Down \/ Unlinked \/ StillLinked \/ Write \/ Halt \/ StillRunning \/ Launch
        \/ Live \/ NotLive \/ Again \/ Linked \/ GivesUp)
  BY DEF Take, Down, Unlinked, StillLinked, Write, Halt, StillRunning, Launch, Live, NotLive,
         Again, Linked, GivesUp, GoTo, Done, AfterDown
<1>8. CASE \E f \in DOMAIN feeders : FeederStep(f) \/ FeederDies(f)
  <2>1. PICK f \in 1..Len(feeders) : FeederStep(f) \/ FeederDies(f)
    BY <1>1, <1>8, LenProperties DEF TypeOK
  <2>2. ~Link(f)
    BY <1>1 DEF Link
  <2>3. ReadFile(f) \/ Close(f) \/ Exit(f) \/ FeederDies(f)
    BY <2>1, <2>2 DEF FeederStep
  <2>4. pc = "again"
    BY <2>3, StageSteps
  <2>5. CASE hub = 0
    BY <2>3, <2>4, <2>5, StageSteps DEF AgainSees, Ended
  <2>6. CASE hub # 0
    <3>1. hub = f /\ feeders'[f].stage \in Ended
      BY <2>3, <2>6, StageSteps DEF Ended
    <3>2. f = Len(feeders)
      BY <1>1, <2>6, <3>1 DEF HubLives, OneAlive, Ended
    <3> QED
      BY <2>3, <3>1, <3>2, StageSteps DEF OneAlive
  <2> QED
    BY <2>5, <2>6
<1> QED
  BY <1>2, <1>3, <1>4, <1>5, <1>6, <1>7, <1>8 DEF Next, Worker, Reaper

\* What the hub links is alive; a server that dies has no links.
LEMMA HubLivesStep == TypeOK /\ HubLives /\ [Next]_vars => HubLives'
<1> SUFFICES ASSUME TypeOK, HubLives, [Next]_vars PROVE HubLives'
  OBVIOUS
<1>1. Len(feeders) \in Nat /\ hub \in 0..Len(feeders)
  BY LenProperties DEF TypeOK
<1>2. CASE Kept /\ hub' \in {hub, 0}
  BY <1>1, <1>2 DEF Kept, HubLives
<1>3. CASE \E f \in 1..Len(feeders) : Link(f)
  BY <1>3 DEF Link, HubLives
<1>4. CASE hub # 0 /\ hub' = hub /\ Stops
  BY <1>1, <1>4, ToldToStopEffect DEF Stops, HubLives
<1>5. CASE hub' = 0
  BY <1>5 DEF HubLives
<1>6. CASE \E f \in 1..Len(feeders) : ReadFile(f) \/ Close(f) \/ Exit(f) \/ FeederDies(f)
  <2>1. PICK f \in 1..Len(feeders) : ReadFile(f) \/ Close(f) \/ Exit(f) \/ FeederDies(f)
    BY <1>6
  <2>2. hub' # 0 => hub' = hub /\ hub # f
    BY <2>1, StageSteps DEF HubLives
  <2> QED
    BY <1>1, <2>1, <2>2, StageSteps DEF HubLives
<1> QED
  BY <1>2, <1>3, <1>4, <1>5, <1>6, FeedersChange

\* Nothing is queued or under way when nobody is busy.
LEMMA NotBusy == ASSUME TypeOK, Busy = {} PROVE pc = "idle" /\ queue = <<>>
<1>1. pc = "idle"
  BY DEF Busy
<1>2. DOMAIN queue = {}
  BY DEF Busy
<1>3. Len(queue) \in Nat /\ DOMAIN queue = 1..Len(queue)
  BY LenProperties DEF TypeOK
<1>4. Len(queue) = 0
  BY <1>2, <1>3
<1> QED
  BY <1>1, <1>4, EmptySeq DEF TypeOK

\* The reaper's look is out of date only when a request came since.
LEMMA ReaperSeesStep == TypeOK /\ ReaperSees /\ [Next]_vars => ReaperSees'
<1> SUFFICES ASSUME TypeOK, ReaperSees, [Next]_vars PROVE ReaperSees'
  OBVIOUS
<1>1. CASE Requests
  <2>1. late' = (reaper # "none") /\ reaper' = reaper
    BY <1>1 DEF Requests, Request
  <2> QED
    BY <2>1 DEF ReaperSees
<1>2. CASE ReapCheck \/ ReapLook
  BY <1>2, NotBusy DEF ReapCheck, ReapLook, ReaperSees
<1>3. CASE ReapAct \/ ServerDies
  BY <1>3 DEF ReapAct, ServerDies, ReaperSees
<1>4. CASE ServerStarts \/ UNCHANGED vars \/ (\E r \in Receivers : CopyDies(r))
  BY <1>4 DEF ServerStarts, CopyDies, server, vars, look, ReaperSees
<1>5. CASE Worker
  <2>1. pc # "idle" \/ queue # <<>>
    BY <1>5 DEF Worker, Take, Down, Unlinked, StillLinked, Write, Halt, StillRunning, Launch,
                Live, NotLive, Up, Relinked, Again, Linked, GivesUp
  <2>2. UNCHANGED <<reaper, late>>
    BY <1>5 DEF Worker, Take, Down, Unlinked, StillLinked, Write, Halt, StillRunning, Launch,
                Live, NotLive, Up, Relinked, Again, Linked, GivesUp, look
  <2> QED
    BY <2>1, <2>2 DEF ReaperSees
<1>6. CASE \E f \in DOMAIN feeders : FeederStep(f) \/ FeederDies(f)
  <2>1. UNCHANGED <<reaper, late, copies, pc, queue>>
    BY <1>6 DEF FeederStep, FeederDies, ReadFile, Link, Close, Exit, FeederOnly, look
  <2> QED
    BY <2>1 DEF ReaperSees
<1> QED
  BY <1>1, <1>2, <1>3, <1>4, <1>5, <1>6 DEF Next, Reaper

\* No fault is forgotten, and a link is lost at once only with the server.
LEMMA FaultsStay == [Next]_vars => faults \subseteq faults'
<1> SUFFICES ASSUME [Next]_vars PROVE faults \subseteq faults'
  OBVIOUS
<1>1. CASE Requests \/ ReapCheck \/ ReapLook \/ ReapAct \/ ServerStarts \/ UNCHANGED vars
           \/ (\E r \in Receivers : CopyDies(r)) \/ ServerDies
  BY <1>1 DEF Requests, Request, ReapCheck, ReapLook, ReapAct, ServerStarts, vars, CopyDies, ServerDies,
              Fault
<1>2. CASE Worker
  BY <1>2 DEF Worker, Take, Down, Unlinked, StillLinked, Write, Halt, StillRunning, Launch,
              Live, NotLive, Up, Relinked, Again, Linked, GivesUp, Fault
<1>3. CASE \E f \in DOMAIN feeders : FeederStep(f) \/ FeederDies(f)
  BY <1>3 DEF FeederStep, FeederDies, ReadFile, Link, Close, Exit, FeederOnly, Fault
<1> QED
  BY <1>1, <1>2, <1>3 DEF Next, Reaper

\* When the worker leaves its wait for a link, comes to the wait for a stop or to the
\* write, and changes rbn_upload; and when a link is lost with its feeder alive.
LEMMA WorkerMoves ==
  ASSUME [Next]_vars
  PROVE  /\ pc = "link" => \/ pc' = "link" \/ hub # 0 \/ ~Working(Last)
                           \/ "slow" \in faults' \/ "server dies" \in faults'
         /\ pc' \in {"unlink", "write"} =>
              \/ pc \in {"unlink", "write"}
              \/ pc = "down" /\ (hub = 0 \/ Stops)
         /\ upload' = upload \/ pc = "write"
<1>1. CASE Requests \/ ReapCheck \/ ReapLook \/ ReapAct \/ ServerStarts \/ UNCHANGED vars
           \/ (\E r \in Receivers : CopyDies(r))
  BY <1>1 DEF Requests, Request, ReapCheck, ReapLook, ReapAct, ServerStarts, vars, server, CopyDies
<1>2. CASE ServerDies
  BY <1>2 DEF ServerDies, Fault
<1>3. CASE GivesUp
  BY <1>3 DEF GivesUp, Fault, Done, Working
<1>4. CASE Down
  BY <1>4 DEF Down, GoTo, AfterDown, FedByOthers, Stops
<1>5. CASE Take \/ Unlinked \/ StillLinked \/ Write \/ Halt \/ StillRunning \/ Launch
           \/ Live \/ NotLive \/ Linked \/ Up \/ Relinked \/ Again
  BY <1>5 DEF Take, Unlinked, StillLinked, Write, Halt, StillRunning, Launch, Live, NotLive,
              Linked, Up, Relinked, Again, GoTo, Done
<1>6. CASE \E f \in DOMAIN feeders : FeederStep(f) \/ FeederDies(f)
  BY <1>6 DEF FeederStep, FeederDies, ReadFile, Link, Close, Exit, FeederOnly
<1> QED
  BY <1>1, <1>2, <1>3, <1>4, <1>5, <1>6 DEF Next, Worker, Reaper

\* A link that goes while its feeder stays goes with the server.
LEMMA LinkStays ==
  ASSUME TypeOK, HubLives, [Next]_vars, Kept
  PROVE  \/ hub' = hub \/ "server dies" \in faults'
         \/ \E f \in 1..Len(feeders) : Link(f)
<1>1. CASE Requests \/ ReapCheck \/ ReapLook \/ ReapAct \/ ServerStarts \/ UNCHANGED vars
           \/ (\E r \in Receivers : CopyDies(r))
  BY <1>1 DEF Requests, Request, ReapCheck, ReapLook, ReapAct, ServerStarts, vars, server, CopyDies
<1>2. CASE ServerDies
  BY <1>2 DEF ServerDies, Fault
<1>3. CASE Worker
  BY <1>3 DEF Worker, Take, Down, Unlinked, StillLinked, Write, Halt, StillRunning, Launch,
              Live, NotLive, Up, Relinked, Again, Linked, GivesUp
<1>4. CASE \E f \in DOMAIN feeders : FeederStep(f) \/ FeederDies(f)
  <2>1. PICK f \in 1..Len(feeders) : FeederStep(f) \/ FeederDies(f)
    BY <1>4, LenProperties DEF TypeOK
  <2>2. CASE Link(f)
    BY <2>2
  <2>3. CASE ReadFile(f) \/ Close(f) \/ Exit(f) \/ FeederDies(f)
    <3>1. feeders'[f].stage = feeders[f].stage
      BY DEF Kept
    <3> QED
      BY <2>3, <3>1, StageSteps DEF HubLives
  <2> QED
    BY <2>1, <2>2, <2>3 DEF FeederStep
<1> QED
  BY <1>1, <1>2, <1>3, <1>4 DEF Next, Reaper

\* A feeder in sight stays linked or waited for, and follows rbn_upload.
LEMMA SightStep == IInv /\ [Next]_vars => Sight'
<1> SUFFICES ASSUME IInv, [Next]_vars, InSight', NEW f \in 1..Len(feeders')
             PROVE  /\ Working(f)' => hub' = f \/ pc' = "link"
                    /\ pc' \in {"unlink", "write"} => ~Working(f)'
                    /\ feeders'[f].stage = "ready" => feeders'[f].mode = upload'
  BY DEF Sight, Working
<1>1. /\ TypeOK /\ HubLives /\ OneAlive /\ AgainSees
      /\ Len(feeders) \in Nat /\ hub \in 0..Len(feeders)
  BY LenProperties DEF IInv, TypeOK
<1>2. "slow" \notin faults' /\ "server dies" \notin faults' /\ InSight
  BY FaultsStay DEF InSight
<1>3. \A g \in 1..Len(feeders) :
        /\ Working(g) => hub = g \/ pc = "link"
        /\ pc \in {"unlink", "write"} => ~Working(g)
        /\ feeders[g].stage = "ready" => feeders[g].mode = upload
  BY <1>2 DEF IInv, Sight
<1>4. /\ \A g \in 1..Len(feeders) : Working(g) => g = Last
      /\ hub # 0 => hub = Last
  BY <1>1 DEF OneAlive, HubLives, Working, Last, Ended
<1>5. /\ pc = "link" => pc' = "link" \/ hub # 0 \/ ~Working(Last)
      /\ pc' \in {"unlink", "write"} => \/ pc \in {"unlink", "write"}
                                        \/ pc = "down" /\ (hub = 0 \/ Stops)
      /\ upload' = upload \/ pc = "write"
  BY <1>2, WorkerMoves
<1>6. CASE Kept
  <2>1. f \in 1..Len(feeders) /\ feeders'[f].stage = feeders[f].stage
        /\ feeders'[f].mode = feeders[f].mode
    BY <1>6 DEF Kept
  <2>2. hub' = hub \/ (\E g \in 1..Len(feeders) : Link(g))
    BY <1>1, <1>2, <1>6, LinkStays
  <2>3. Working(f)' <=> Working(f)
    BY <2>1 DEF Working
  <2>4. Working(f) => hub' = f \/ pc' = "link"
    <3>1. CASE hub' = hub
      BY <2>1, <3>1, <1>3, <1>4, <1>5
    <3>2. CASE \E g \in 1..Len(feeders) : Link(g)
      BY <2>1, <3>2, <1>4 DEF Link, Working
    <3> QED
      BY <2>2, <3>1, <3>2
  <2>5. pc' \in {"unlink", "write"} => ~Working(f)
    <3>1. CASE hub # 0 /\ Stops
      <4>1. feeders[hub].stage = "stopping"
        BY <1>1, <1>6, <3>1, ToldToStopEffect DEF Kept, Stops
      <4> QED
        BY <1>4, <2>1, <3>1, <4>1 DEF Working
    <3>2. CASE hub = 0
      BY <1>3, <1>5, <2>1, <3>2
    <3>3. CASE ~Stops
      BY <1>3, <1>5, <2>1, <3>3
    <3> QED
      BY <3>1, <3>2, <3>3
  <2>6. feeders[f].stage = "ready" => feeders[f].mode = upload'
    BY <1>3, <1>5, <2>1 DEF Working
  <2> QED
    BY <2>1, <2>3, <2>4, <2>5, <2>6
<1>7. CASE hub # 0 /\ hub' = hub /\ Stops
  <2>1. f \in 1..Len(feeders) /\ feeders'[hub].stage = "stopping"
    BY <1>1, <1>7, ToldToStopEffect DEF Stops
  <2>2. f # hub => feeders'[f].stage = feeders[f].stage
    BY <1>1, <1>7, <2>1, ToldToStopEffect DEF Stops
  <2> QED
    BY <1>4, <1>7, <2>1, <2>2 DEF Working
<1>8. CASE hub = 0 /\ Again /\ Starts
  <2>1. copies \in SUBSET Receivers
    BY <1>1 DEF TypeOK
  <2>2. /\ Len(feeders') = Len(feeders) + 1
        /\ \A g \in 1..Len(feeders) : feeders'[g] = feeders[g]
        /\ feeders'[Len(feeders) + 1].stage = "starting"
    BY <1>1, <1>8, <2>1, StartedEffect DEF Starts, Started
  <2>3. \A g \in 1..Len(feeders) : feeders[g].stage \in Ended
    BY <1>1, <1>8 DEF Again, AgainSees
  <2>4. pc' = "link"
    BY <1>8 DEF Again, GoTo
  <2> QED
    BY <1>1, <2>2, <2>3, <2>4 DEF Working, Ended
<1>9. CASE \E g \in 1..Len(feeders) : ReadFile(g) \/ Close(g) \/ Exit(g) \/ FeederDies(g)
  <2>1. PICK g \in 1..Len(feeders) : ReadFile(g) \/ Close(g) \/ Exit(g) \/ FeederDies(g)
    BY <1>9
  <2>2. /\ f \in 1..Len(feeders)
        /\ f # g => /\ feeders'[f].stage = feeders[f].stage
                    /\ feeders'[f].mode = feeders[f].mode
        /\ UNCHANGED <<upload, pc>>
    BY <1>1, <2>1, StageSteps
  <2>3. CASE f # g
    <3>1. hub' = hub \/ hub = g
      BY <1>1, <2>1, StageSteps
    <3> QED
      BY <1>3, <2>2, <2>3, <3>1 DEF Working
  <2>4. CASE f = g
    <3>1. \/ /\ feeders[f].stage = "starting" /\ hub' = hub
             /\ feeders'[f].stage \in {"ready", "gone"} /\ feeders'[f].mode = upload
          \/ feeders'[f].stage \in {"exiting", "gone"}
      BY <1>1, <2>1, <2>4, StageSteps
    <3> QED
      BY <1>3, <2>2, <3>1 DEF Working
  <2> QED
    BY <2>3, <2>4
<1> QED
  BY <1>1, <1>6, <1>7, <1>8, <1>9, FeedersChange

\* The two steps that tell a feeder its receivers, or that begin it with them.
LEMMA FedWhenTold ==
  ASSUME IInv, Fed, OnlyDeaths, Down \/ Again
  PROVE  Fed'
<1>0. Len(feeders) \in Nat /\ hub \in 0..Len(feeders)
  BY LenProperties DEF IInv, TypeOK
<1>1. TypeOK /\ HubLives /\ OneAlive /\ AgainSees /\ InSight /\ copies \in SUBSET Receivers
  BY DEF IInv, TypeOK, InSight, OnlyDeaths
<1>2. \A g \in 1..Len(feeders) :
        /\ Working(g) => hub = g \/ pc = "link"
        /\ Working(g) => copies \subseteq feeders[g].names \cup AtHand
        /\ feeders[g].stage = "ready" => feeders[g].mode = upload /\ feeders[g].mode # "off"
  BY <1>1 DEF IInv, Sight, Fed
<1>3. copies' = copies /\ hub' = hub
  BY DEF Down, Again
<1>4. ASSUME feeders' = feeders,
             \A g \in 1..Len(feeders) : Working(g) => copies \subseteq feeders[g].names \cup AtHand'
      PROVE  Fed'
  BY <1>2, <1>3, <1>4 DEF Fed, Working
<1>5. ASSUME hub # 0, NEW names \in SUBSET Receivers, feeders' = Told(names), pc # "link",
             copies \subseteq names \cup AtHand'
      PROVE  Fed'
  <2> SUFFICES ASSUME NEW g \in 1..Len(feeders)
               PROVE  /\ Working(g)' => copies \subseteq feeders'[g].names \cup AtHand'
                      /\ feeders'[g].stage = "ready" => feeders'[g].mode # "off"
    BY <1>1, <1>3, <1>5, ToldEffect DEF Fed
  <2>1. /\ feeders'[g].stage = feeders[g].stage /\ feeders'[g].mode = feeders[g].mode
        /\ g = hub => feeders'[g].names = names
    BY <1>1, <1>5, ToldEffect
  <2>2. Working(g)' => g = hub
    BY <1>2, <1>5, <2>1 DEF Working
  <2> QED
    BY <1>2, <1>5, <2>1, <2>2
<1>6. CASE Down
  <2>1. pc = "down" /\ AtHand = {}
    BY <1>6 DEF Down, AtHand
  <2>2. CASE hub = 0 /\ feeders' = feeders
    BY <1>0, <1>2, <1>4, <2>1, <2>2
  <2>3. CASE hub # 0 /\ FedByOthers /\ feeders' = Told(FeedsWithout(op.r)) /\ GoTo(AfterDown)
    <3>1. AtHand' = {op.r}
      BY <2>3 DEF FedByOthers, GoTo, AfterDown, AtHand
    <3>2. FeedsWithout(op.r) \in SUBSET Receivers /\ copies \subseteq FeedsWithout(op.r) \cup {op.r}
      BY <1>1 DEF FeedsWithout
    <3> QED
      BY <1>5, <2>1, <2>3, <3>1, <3>2
  <2>4. CASE hub # 0 /\ feeders' = ToldToStop
    <3> SUFFICES ASSUME NEW g \in 1..Len(feeders)
                 PROVE  ~Working(g)'
      BY <1>1, <2>4, ToldToStopEffect DEF Fed, Working
    <3>1. feeders'[g].stage = IF g = hub THEN "stopping" ELSE feeders[g].stage
      BY <1>1, <2>4, ToldToStopEffect
    <3> QED
      BY <1>2, <2>1, <3>1 DEF Working
  <2> QED
    BY <1>6, <2>2, <2>3, <2>4 DEF Down
<1>7. CASE Again
  <2>1. pc = "again"
    BY <1>7 DEF Again
  <2>2. CASE hub # 0 /\ feeders' = Told(copies)
    BY <1>1, <1>5, <2>1, <2>2
  <2>3. CASE hub = 0 /\ Starts
    <3>1. /\ Len(feeders') = Len(feeders) + 1
          /\ \A g \in 1..Len(feeders) : feeders'[g] = feeders[g]
          /\ feeders'[Len(feeders) + 1] = Started(copies)
      BY <1>1, <2>3, StartedEffect DEF Starts
    <3>2. \A g \in 1..Len(feeders) : feeders[g].stage \in Ended
      BY <1>1, <2>1, <2>3 DEF AgainSees
    <3>3. Started(copies).stage = "starting" /\ Started(copies).names = copies
      BY DEF Started
    <3> SUFFICES ASSUME NEW g \in 1..(Len(feeders) + 1)
                 PROVE  /\ Working(g)' => copies \subseteq feeders'[g].names \cup AtHand'
                        /\ feeders'[g].stage = "ready" => feeders'[g].mode # "off"
      BY <1>3, <3>1 DEF Fed
    <3>4. CASE g = Len(feeders) + 1
      BY <3>1, <3>3, <3>4
    <3>5. CASE g \in 1..Len(feeders)
      BY <3>1, <3>2, <3>5 DEF Working, Ended
    <3> QED
      BY <1>0, <3>4, <3>5
  <2> QED
    BY <1>7, <2>2, <2>3 DEF Again, Starts, Started
<1> QED
  BY <1>6, <1>7

\* The other steps of the worker, which leave the feeder alone.
LEMMA FedWhenLeft ==
  ASSUME IInv, Fed, OnlyDeaths',
         \/ Take \/ Unlinked \/ StillLinked \/ Write \/ Halt \/ StillRunning \/ Launch
         \/ Live \/ NotLive \/ Up \/ Relinked \/ Linked \/ GivesUp
  PROVE  Fed'
<1>1. feeders' = feeders /\ faults \subseteq faults'
  BY DEF Take, Unlinked, StillLinked, Write, Halt, StillRunning, Launch, Live, NotLive, Up,
         Relinked, Linked, GivesUp, Fault
<1>9. OnlyDeaths /\ InSight
  BY <1>1 DEF OnlyDeaths, InSight
<1>2. \A g \in 1..Len(feeders) :
        /\ Working(g) => hub = g \/ pc = "link"
        /\ feeders[g].stage = "ready" => feeders[g].mode = upload
        /\ pc \in {"unlink", "write"} => ~Working(g)
        /\ Working(g) => copies \subseteq feeders[g].names \cup AtHand
        /\ feeders[g].stage = "ready" => feeders[g].mode # "off"
  BY <1>9 DEF IInv, Sight, Fed
<1>3. SUFFICES ASSUME NEW g \in 1..Len(feeders), Working(g)
               PROVE  copies' \subseteq feeders[g].names \cup AtHand'
  BY <1>1, <1>2 DEF Fed, Working
<1>4. ~(Unlinked \/ Write \/ StillLinked \/ StillRunning \/ NotLive)
  BY <1>2, <1>3 DEF Unlinked, Write, StillLinked, StillRunning, NotLive, Fault, OnlyDeaths
<1>5. CASE Take \/ Linked \/ GivesUp
  <2>1. copies' = copies /\ AtHand = {}
    BY <1>5 DEF Take, Linked, GivesUp, AtHand
  <2> QED
    BY <1>2, <1>3, <2>1
<1>6. CASE Halt
  <2>1. copies' = copies \ {op.r} /\ AtHand = {op.r}
    BY <1>6 DEF Halt, AtHand
  <2> QED
    BY <1>2, <1>3, <2>1
<1>7. CASE Launch
  <2>1. AtHand = {} /\ copies' = copies \cup {op.r} /\ pc' \in {"up", "live"} /\ op' = op
    BY <1>7 DEF Launch, AtHand, GoTo
  <2>2. AtHand' = {op.r}
    BY <2>1 DEF AtHand
  <2> QED
    BY <1>2, <1>3, <2>1, <2>2
<1>8. CASE Live
  <2>1. AtHand = {op.r} /\ copies' = copies
    BY <1>8 DEF Live, AtHand
  <2>2. CASE op.r \in copies
    <3>1. AtHand' = {op.r}
      BY <1>8, <2>2 DEF Live, GoTo, AtHand
    <3> QED
      BY <1>2, <1>3, <2>1, <3>1
  <2>3. CASE op.r \notin copies
    BY <1>2, <1>3, <2>1, <2>3
  <2> QED
    BY <2>2, <2>3
<1>10. CASE Relinked
  <2>1. copies' = copies /\ AtHand = {}
    BY <1>10 DEF Relinked, AtHand
  <2> QED
    BY <1>2, <1>3, <2>1
<1>11. CASE Up
  <2>1. pc = "up" /\ AtHand = {op.r} /\ copies' = copies
    BY <1>11 DEF Up, AtHand
  <2>2. g = hub /\ hub # 0
    <3>1. Len(feeders) \in Nat
      BY LenProperties DEF IInv, TypeOK
    <3> QED
      BY <1>2, <1>3, <2>1, <3>1
  <2>3. CASE upload = "off" \/ ~Runs
    <3>1. feeders[g].stage = "ready"
      BY <1>3, <2>2 DEF IInv, HubLives, Working
    <3>2. ~Runs
      BY <1>2, <2>3, <3>1
    <3>3. copies = {} \/ op.r \notin copies
      BY <3>2 DEF Runs
    <3> QED
      BY <1>2, <1>3, <2>1, <3>3
  <2>4. CASE ~(upload = "off" \/ ~Runs)
    <3>1. AtHand' = {op.r}
      BY <1>11, <2>2, <2>4 DEF Up, GoTo, AtHand
    <3> QED
      BY <1>2, <1>3, <2>1, <3>1
  <2> QED
    BY <2>3, <2>4
<1> QED
  BY <1>4, <1>5, <1>6, <1>7, <1>8, <1>10, <1>11

\* A feeder that works knows every copy that runs but the one at hand.
LEMMA FedStep == IInv /\ Fed /\ [Next]_vars => Fed'
<1> SUFFICES ASSUME IInv, Fed, [Next]_vars, OnlyDeaths'
             PROVE  Fed'
  BY DEF Fed
<1>1. /\ TypeOK /\ HubLives /\ OnlyDeaths
      /\ Len(feeders) \in Nat /\ faults \subseteq faults'
  BY FaultsStay, LenProperties DEF IInv, TypeOK, OnlyDeaths
<1>2. ASSUME UNCHANGED <<feeders, pc, op>>, copies' \subseteq copies PROVE Fed'
  BY <1>1, <1>2 DEF Fed, Working, AtHand
<1>3. CASE Requests \/ ReapCheck \/ ReapLook \/ ServerStarts \/ (\E r \in Receivers : CopyDies(r))
           \/ UNCHANGED vars
  BY <1>2, <1>3 DEF Requests, Request, ReapCheck, ReapLook, ServerStarts, CopyDies, server, vars
<1>4. ~ServerDies
  BY DEF ServerDies, Fault, OnlyDeaths
<1>5. CASE ReapAct
  <2>1. CASE Reaps
    <3>1. hub # 0 /\ feeders' = ToldToStop /\ UNCHANGED <<copies, pc, op>>
      BY <1>5, <2>1 DEF ReapAct, Reaps
    <3> SUFFICES ASSUME NEW g \in 1..Len(feeders)
                 PROVE  /\ Working(g)' => copies \subseteq feeders'[g].names \cup AtHand
                        /\ feeders'[g].stage = "ready" => feeders'[g].mode # "off"
      BY <1>1, <3>1, ToldToStopEffect DEF Fed, AtHand
    <3>2. /\ feeders'[g].stage = IF g = hub THEN "stopping" ELSE feeders[g].stage
          /\ feeders'[g].mode = feeders[g].mode /\ feeders'[g].names = feeders[g].names
      BY <1>1, <3>1, ToldToStopEffect
    <3> QED
      BY <1>1, <3>2 DEF Fed, Working
  <2>2. CASE ~Reaps
    BY <1>2, <1>5, <2>2 DEF ReapAct
  <2> QED
    BY <2>1, <2>2
<1>6. CASE \E f \in DOMAIN feeders : FeederStep(f) \/ FeederDies(f)
  <2>1. PICK f \in 1..Len(feeders) : FeederStep(f) \/ FeederDies(f)
    BY <1>1, <1>6, LenProperties DEF TypeOK
  <2>2. CASE Link(f)
    BY <1>2, <2>2 DEF Link, FeederOnly
  <2>3. CASE ReadFile(f) \/ Close(f) \/ Exit(f) \/ FeederDies(f)
    <3>1. UNCHANGED <<copies, pc, op>>
      BY <2>3 DEF ReadFile, Close, Exit, FeederDies, FeederOnly
    <3> SUFFICES ASSUME NEW g \in 1..Len(feeders)
                 PROVE  /\ Working(g)' => copies \subseteq feeders'[g].names \cup AtHand
                        /\ feeders'[g].stage = "ready" => feeders'[g].mode # "off"
      BY <1>1, <2>3, <3>1, StageSteps DEF Fed, AtHand
    <3>2. /\ feeders'[g].names = feeders[g].names
          /\ \/ feeders'[g].stage = feeders[g].stage /\ feeders'[g].mode = feeders[g].mode
             \/ feeders'[g].stage \in {"exiting", "gone"}
             \/ feeders[g].stage = "starting" /\ (feeders'[g].stage = "ready" => feeders'[g].mode # "off")
      BY <1>1, <2>3, StageSteps
    <3> QED
      BY <1>1, <3>2 DEF Fed, Working
  <2> QED
    BY <2>1, <2>2, <2>3 DEF FeederStep
<1> QED
  BY <1>1, <1>3, <1>4, <1>5, <1>6, FedWhenTold, FedWhenLeft DEF Next, Worker, Reaper

-----------------------------------------------------------------------------
(* The theorems.                                                           *)

\* The invariant holds in every state, whatever fails and in whatever order.
THEOREM FeederInvariance == Spec => []IInv
<1>1. Init => IInv
  BY InitInv
<1>2. IInv /\ [Next]_vars => IInv'
  BY TypeStep, OneAliveStep, HubLivesStep, AgainSeesStep, ReaperSeesStep, SightStep DEF IInv
<1> QED
  BY <1>1, <1>2, PTL DEF Spec

\* Every variable keeps its type.
THEOREM FeederTypes == Spec => []TypeOK
<1>1. IInv => TypeOK
  BY DEF IInv
<1> QED
  BY <1>1, FeederInvariance, PTL

\* There is never a second feeder at work, also after the server that started the first
\* has died: what lives beside it has closed its link and is about to end.
THEOREM NeverASecondFeeder == Spec => []OneFeeder
<1>1. IInv => OneFeeder
  <2> SUFFICES ASSUME IInv, NEW f \in DOMAIN feeders, NEW g \in DOMAIN feeders,
                      AtWork(f), AtWork(g)
               PROVE  f = g
    BY DEF OneFeeder
  <2>1. f \in 1..Len(feeders) /\ g \in 1..Len(feeders)
    BY LenProperties DEF IInv, TypeOK
  <2> QED
    BY <2>1 DEF IInv, OneAlive, AtWork, Ended
<1> QED
  BY <1>1, FeederInvariance, PTL

\* As long as no feeder was out of the server's sight, the linked one runs in the mode
\* the radio's file names.
THEOREM InSightFollows == Spec => []FollowsUploadInSight
<1>1. IInv => FollowsUploadInSight
  <2> SUFFICES ASSUME IInv, InSight, hub # 0, feeders[hub].stage = "ready"
               PROVE  feeders[hub].mode = upload
    BY DEF FollowsUploadInSight, FollowsUpload, Follows, InSight
  <2>1. hub \in 1..Len(feeders)
    BY LenProperties DEF IInv, TypeOK
  <2> QED
    BY <2>1 DEF IInv, Sight
<1> QED
  BY <1>1, FeederInvariance, PTL

\* A linked feeder reads every running receiver of its radio once no operation is under
\* way: what a stop took off its list has stopped, what a start launched was told,
\* whichever copies and feeders died on the way.
THEOREM FeederKnowsTheRunning == Spec => []FedByRunning
<1>1. Init => IInv /\ Fed
  <2>1. Init => Len(feeders) = 0
    BY EmptySeq DEF Init
  <2>2. ASSUME Len(feeders) = 0 PROVE Fed
    <3>1. 1..Len(feeders) = {}
      BY <2>2
    <3> QED
      BY <3>1 DEF Fed
  <2> QED
    BY <2>1, <2>2, InitInv
<1>2. IInv /\ [Next]_vars => IInv'
  BY TypeStep, OneAliveStep, HubLivesStep, AgainSeesStep, ReaperSeesStep, SightStep DEF IInv
<1>3. IInv /\ Fed => FedByRunning
  <2> SUFFICES ASSUME IInv, Fed, hub # 0, feeders[hub].stage = "ready", Busy = {},
                      OnlyDeaths
               PROVE  copies \subseteq feeders[hub].names
    BY DEF FedByRunning, OnlyDeaths
  <2>0. Len(feeders) \in Nat /\ hub \in 0..Len(feeders)
    BY LenProperties DEF IInv, TypeOK
  <2>1. hub \in 1..Len(feeders)
    BY <2>0
  <2>2. pc = "idle"
    BY DEF Busy
  <2> QED
    BY <2>1, <2>2 DEF Fed, Working, AtHand
<1> QED
  BY <1>1, <1>2, <1>3, FedStep, PTL DEF Spec

\* No step tells a feeder to stop while a receiver that does not stop feeds it, unless
\* its operation was accepted and answered within one look of the reaper.
THEOREM NeverStoppedWhileFed == Spec => KeepsFeeding
<1> DEFINE Keeps ==
      \A f \in DOMAIN feeders :
        feeders[f].stage = "ready" /\ feeders'[f].stage = "stopping"
          => \/ copies = {}
             \/ pc = "down" /\ (op.cmd = "set" \/ copies \subseteq {op.r})
             \/ Busy = {} /\ late
<1>1. IInv /\ [Next]_vars => [Keeps]_vars
  <2> SUFFICES ASSUME IInv, [Next]_vars, NEW f \in DOMAIN feeders,
                      feeders[f].stage = "ready", feeders'[f].stage = "stopping"
               PROVE  \/ copies = {}
                      \/ pc = "down" /\ (op.cmd = "set" \/ copies \subseteq {op.r})
                      \/ Busy = {} /\ late
    OBVIOUS
  <2>1. TypeOK /\ HubLives /\ f \in 1..Len(feeders) /\ Len(feeders) \in Nat
    BY LenProperties DEF IInv, TypeOK
  <2>2. ~Kept
    BY <2>1 DEF Kept
  <2>3. ~(Starts /\ Again)
    <3>1. copies \in SUBSET Receivers
      BY <2>1 DEF TypeOK
    <3> QED
      BY <2>1, <3>1, StartedEffect DEF Starts
  <2>4. ~(\E g \in 1..Len(feeders) : ReadFile(g) \/ Close(g) \/ Exit(g) \/ FeederDies(g))
    BY <2>1, StageSteps
  <2>5. hub # 0 /\ Stops /\ (Down \/ (ReapAct /\ Reaps))
    BY <2>1, <2>2, <2>3, <2>4, FeedersChange
  <2>6. CASE ReapAct /\ Reaps
    <3>1. Busy = {} /\ reaper = "unfed"
      BY <2>6 DEF ReapAct, Reaps
    <3>2. late \in BOOLEAN
      BY <2>1 DEF TypeOK
    <3>3. late \/ ~late
      BY <3>2
    <3> QED
      BY <3>1, <3>3 DEF IInv, ReaperSees
  <2>7. CASE Down
    <3>1. pc = "down" /\ ~FedByOthers
      <4>1. ~(feeders' = Told(FeedsWithout(op.r)))
        <5>1. FeedsWithout(op.r) \in SUBSET Receivers
          BY <2>1 DEF TypeOK, FeedsWithout
        <5> QED
          BY <2>1, <2>5, <5>1, ToldEffect
      <4> QED
        BY <2>5, <2>7, <4>1, <2>1 DEF Down
    <3> QED
      BY <3>1 DEF FedByOthers, FeedsWithout
  <2> QED
    BY <2>5, <2>6, <2>7
<1> QED
  BY <1>1, FeederInvariance, PTL DEF Spec, KeepsFeeding

=============================================================================
