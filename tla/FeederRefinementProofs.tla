------------------------ MODULE FeederRefinementProofs ------------------------
(***************************************************************************)
(* FeederControl implements FeederService: the initial states map to       *)
(* initial states, and every step maps to a step of FeederService or to    *)
(* none.  Once a feeder has been out of the server's sight, nothing is     *)
(* promised, and nothing is to be shown.                                   *)
(***************************************************************************)
EXTENDS FeederControlProofs

\* The operation the worker carries out is one that has the step it is at; between its
\* two looks at the hub rbn_upload stays as it was at the first.
AtStep ==
  /\ pc = "write" => op.cmd = "set"
  /\ pc = "halt" => op.cmd \in {"stop", "restart"}
  /\ pc = "launch" => op.cmd \in {"start", "restart"}
  /\ pc \in {"down", "unlink"} => op.cmd \in {"stop", "restart", "set"}
  /\ pc \in {"live", "up", "relink", "again"} => op.cmd \in {"start", "restart", "set"}
  /\ pc \in {"relink", "again"} => upload # "off"

\* The worker goes from a step of its operation to the next of the same.
LEMMA AtStepStep == TypeOK /\ AtStep /\ [Next]_vars => AtStep'
<1> SUFFICES ASSUME TypeOK, AtStep, [Next]_vars PROVE AtStep'
  OBVIOUS
<1>1. CASE Requests \/ ReapCheck \/ ReapLook \/ ReapAct \/ ServerStarts \/ UNCHANGED vars
           \/ (\E r \in Receivers : CopyDies(r)) \/ ServerDies
  BY <1>1 DEF Requests, Request, ReapCheck, ReapLook, ReapAct, ServerStarts, vars, server, CopyDies,
              ServerDies, AtStep
<1>2. CASE Take
  <2>1. Head(queue) \in Op
    BY <1>2, HeadTailProperties DEF Take, TypeOK
  <2> QED
    BY <1>2, <2>1 DEF Take, AtStep, Op, Commands
<1>3. CASE pc # "idle" /\ op' = op /\ pc' # "idle" /\ Worker
  <2>1. op.cmd \in Commands
    BY <1>3, OpTyped
  <2> QED
    BY <1>3, <2>1 DEF Worker, Take, Down, Unlinked, StillLinked, Write, Halt, StillRunning,
                      Launch, Live, NotLive, Up, Relinked, Again, Linked, GivesUp, GoTo, Done,
                      AfterDown, AtStep, Commands
<1>4. CASE pc' = "idle"
  BY <1>4 DEF AtStep
<1>5. CASE Worker /\ ~Take /\ pc' # "idle"
  <2>1. pc # "idle" /\ op' = op
    BY <1>5 DEF Worker, Down, Unlinked, StillLinked, Write, Halt, StillRunning,
                Launch, Live, NotLive, Up, Relinked, Again, Linked, GivesUp, GoTo, Done
  <2> QED
    BY <1>3, <1>5, <2>1
<1>6. CASE \E f \in DOMAIN feeders : FeederStep(f) \/ FeederDies(f)
  BY <1>6 DEF FeederStep, FeederDies, ReadFile, Link, Close, Exit, FeederOnly, AtStep
<1> QED
  BY <1>1, <1>2, <1>4, <1>5, <1>6 DEF Next, Reaper

-----------------------------------------------------------------------------
(* The feeder as FeederService sees it.                                    *)

\* What is seen depends on the stage and the mode of the last feeder alone.
LEMMA View ==
  ASSUME TypeOK
  PROVE  /\ Last \in Nat /\ Last = Len(feeders)
         /\ Last = 0 => ServiceStage = "none" /\ ServiceMode = "off"
         /\ Last # 0 =>
              /\ Last \in 1..Len(feeders)
              /\ feeders[Last].stage \in Ended => ServiceStage = "none" /\ ServiceMode = "off"
              /\ feeders[Last].stage = "starting" => ServiceStage = "starting" /\ ServiceMode = "off"
              /\ feeders[Last].stage = "ready" =>
                   ServiceStage = "posting" /\ ServiceMode = feeders[Last].mode
              /\ feeders[Last].stage = "stopping" =>
                   ServiceStage = "ending" /\ ServiceMode = feeders[Last].mode
<1>1. Last \in Nat /\ Last = Len(feeders)
  BY LenProperties DEF TypeOK, Last
<1> QED
  BY <1>1 DEF ServiceStage, ServiceMode, Ended

\* What the mapping shows after a step, by the stage of the last feeder.
LEMMA ViewNext ==
  ASSUME TypeOK'
  PROVE  /\ Last' \in Nat /\ Last' = Len(feeders')
         /\ Last' = 0 => ServiceStage' = "none" /\ ServiceMode' = "off"
         /\ Last' # 0 =>
              /\ Last' \in 1..Len(feeders')
              /\ feeders'[Last'].stage \in Ended => ServiceStage' = "none" /\ ServiceMode' = "off"
              /\ feeders'[Last'].stage = "starting" =>
                   ServiceStage' = "starting" /\ ServiceMode' = "off"
              /\ feeders'[Last'].stage = "ready" =>
                   ServiceStage' = "posting" /\ ServiceMode' = feeders'[Last'].mode
              /\ feeders'[Last'].stage = "stopping" =>
                   ServiceStage' = "ending" /\ ServiceMode' = feeders'[Last'].mode
<1>1. Last' \in Nat /\ Last' = Len(feeders')
  BY LenProperties DEF TypeOK, Last
<1> QED
  BY <1>1 DEF ServiceStage, ServiceMode, Ended

Unseen == ServiceStage' = ServiceStage /\ ServiceMode' = ServiceMode

\* The last feeder has one of the stages.
LEMMA LastStages ==
  ASSUME TypeOK, Last # 0
  PROVE  Last \in 1..Len(feeders) /\ feeders[Last].stage \in Stages
BY View, FeederRecord

\* A step that leaves the last feeder and the files alone is not seen.
LEMMA KeptUnseen == ASSUME TypeOK, TypeOK', Kept PROVE Unseen
<1>1. Last' = Last
  BY DEF Kept, Last
<1>2. CASE Last = 0
  BY <1>1, <1>2, View, ViewNext DEF Unseen
<1>3. CASE Last # 0
  <2>1. Last \in 1..Len(feeders) /\ feeders[Last].stage \in Stages
    BY <1>3, LastStages
  <2>2. feeders'[Last].stage = feeders[Last].stage /\ feeders'[Last].mode = feeders[Last].mode
    BY <2>1 DEF Kept
  <2> QED
    BY <1>1, <1>3, <2>1, <2>2, View, ViewNext DEF Unseen, Stages, Ended
<1> QED
  BY <1>2, <1>3

\* The step of a feeder that is about to end beside a later one is not seen.
LEMMA OlderUnseen ==
  ASSUME IInv, TypeOK', NEW f \in 1..Len(feeders), f # Last,
         ReadFile(f) \/ Close(f) \/ Exit(f) \/ FeederDies(f)
  PROVE  Unseen
<1>1. TypeOK
  BY DEF IInv
<1>2. Last \in Nat /\ Last = Len(feeders) /\ Last # 0 /\ Last \in 1..Len(feeders)
  BY <1>1, View
<1>3. Last' = Last /\ feeders'[Last].stage = feeders[Last].stage
      /\ feeders'[Last].mode = feeders[Last].mode
  BY <1>1, <1>2, StageSteps DEF Last
<1>4. feeders[Last].stage \in Stages
  BY <1>1, <1>2, FeederRecord
<1> QED
  BY <1>1, <1>2, <1>3, <1>4, View, ViewNext DEF Unseen, Stages, Ended

\* What the step of the last feeder does to what is seen.
LEMMA FeederSeen ==
  ASSUME IInv, TypeOK', NEW f \in 1..Len(feeders),
         ReadFile(f) \/ Close(f) \/ Exit(f) \/ FeederDies(f)
  PROVE  /\ UNCHANGED <<copies, upload, op, reaper>>
         /\ \/ Unseen
            \/ Service!FeederPosts
            \/ Service!FeederEnds
<1>1. TypeOK /\ HubLives /\ OneAlive
  BY DEF IInv
<1>2. UNCHANGED <<copies, upload, op, reaper>>
  BY DEF ReadFile, Close, Exit, FeederDies, FeederOnly, look
<1>3. CASE f # Last
  BY <1>2, <1>3, OlderUnseen
<1>4. CASE f = Last
  <2>1. /\ Last \in Nat /\ Last = Len(feeders) /\ Last # 0 /\ Last' = Last
        /\ feeders[f].stage \in Stages /\ feeders[f].stage # "gone" /\ upload \in Modes
    BY <1>1, <1>4, View, StageSteps, FeederRecord DEF Last, TypeOK
  <2>2. CASE feeders'[f].stage = "ready"
    <3>1. /\ feeders[f].stage = "starting" /\ feeders'[f].mode = upload /\ upload # "off"
      BY <1>1, <2>2, StageSteps
    <3>2. ServiceStage = "starting"
      BY <1>1, <1>4, <2>1, <3>1, View
    <3>3. ServiceStage' = "posting" /\ ServiceMode' = upload
      BY <1>4, <2>1, <2>2, <3>1, ViewNext
    <3> QED
      BY <1>2, <3>1, <3>2, <3>3 DEF Service!FeederPosts
  <2>3. CASE feeders'[f].stage \in Ended
    <3>1. ServiceStage' = "none" /\ ServiceMode' = "off"
      BY <1>4, <2>1, <2>3, ViewNext
    <3>2. CASE feeders[f].stage = "exiting"
      <4>1. ServiceStage = "none" /\ ServiceMode = "off"
        BY <1>1, <1>4, <2>1, <3>2, View DEF Ended
      <4> QED
        BY <1>2, <3>1, <4>1 DEF Unseen
    <3>3. CASE feeders[f].stage # "exiting"
      <4>1. ServiceStage # "none"
        BY <1>1, <1>4, <2>1, <3>3, View DEF Stages
      <4> QED
        BY <1>2, <3>1, <4>1 DEF Service!FeederEnds
    <3> QED
      BY <3>2, <3>3
  <2> QED
    BY <1>1, <2>2, <2>3, StageSteps DEF Ended
<1> QED
  BY <1>3, <1>4

\* The linked feeder, told to stop, was posting, or nothing new is seen.
LEMMA StopsSeen ==
  ASSUME IInv, TypeOK', hub # 0, Stops
  PROVE  \/ Unseen
         \/ ServiceStage = "posting" /\ ServiceStage' = "ending" /\ ServiceMode' = ServiceMode
<1>1. TypeOK /\ HubLives /\ OneAlive /\ hub \in 1..Len(feeders)
  BY DEF IInv, TypeOK
<1>2. feeders[hub].stage \in {"ready", "stopping"}
  BY <1>1 DEF HubLives
<1>3. hub = Last /\ Last # 0
  BY <1>1, <1>2, View DEF OneAlive, Last, Ended
<1>4. /\ Last' = Last
      /\ feeders'[Last].stage = "stopping" /\ feeders'[Last].mode = feeders[Last].mode
  BY <1>1, <1>3, ToldToStopEffect DEF Stops, Last
<1> QED
  BY <1>1, <1>2, <1>3, <1>4, View, ViewNext DEF Unseen

-----------------------------------------------------------------------------
(* Every step, seen by FeederService.                                      *)

Stutters == UNCHANGED <<copies, upload, op, reaper>> /\ Unseen
Answers == pc # "idle" /\ op' = None /\ UNCHANGED <<copies, upload, reaper>> /\ Unseen

\* The end of an operation is an Answer.
LEMMA AnswersSeen == ASSUME TypeOK, Answers PROVE Service!Answer
BY DEF Answers, Unseen, TypeOK, Service!Answer

\* While the feeder stays in sight, a step of the service is a step.
LEMMA InSightSeen == ASSUME InSight, InSight', Service!Seen PROVE Service!Next
BY DEF InSight, Service!Next

\* The initial states map to initial states.
LEMMA InitSeen == Init => Service!Init
<1> SUFFICES ASSUME Init PROVE Service!Init
  OBVIOUS
<1>1. Last = 0
  BY EmptySeq DEF Init, Last
<1> QED
  BY <1>1 DEF Init, InSight, Service!Init, ServiceStage, ServiceMode

\* Every step maps to a step of the service or to a stutter.
LEMMA StepSeen ==
  ASSUME IInv, AtStep, TypeOK', InSight', [Next]_vars
  PROVE  Service!Seen \/ UNCHANGED Service!vars
<1>1. TypeOK /\ HubLives /\ OneAlive /\ AgainSees
  BY DEF IInv
<1>2. InSight /\ "server dies" \notin faults'
  BY FaultsStay DEF InSight
<1>3. ASSUME Stutters PROVE UNCHANGED Service!vars
  BY <1>2, <1>3 DEF Stutters, Unseen, Service!vars, InSight
<1>4. CASE Requests \/ ServerStarts \/ UNCHANGED vars
  <2>1. Kept /\ UNCHANGED <<copies, upload, op, reaper>>
    BY <1>4 DEF Requests, Request, ServerStarts, server, look, vars, Kept
  <2> QED
    BY <1>1, <1>3, <2>1, KeptUnseen DEF Stutters
<1>5. CASE Take
  <2>1. op = None /\ op' \in Op /\ UNCHANGED <<copies, upload, feeders, reaper>>
    BY <1>1, <1>5, HeadTailProperties DEF Take, look, TypeOK
  <2>2. Unseen
    BY <1>1, <2>1, KeptUnseen DEF Kept
  <2> QED
    BY <2>1, <2>2 DEF Unseen, Service!Ask, Service!Seen
<1>6. CASE Unlinked
  <2>1. Kept /\ UNCHANGED <<copies, upload, op, reaper>>
    BY <1>6 DEF Unlinked, GoTo, look, Kept
  <2> QED
    BY <1>1, <1>3, <2>1, KeptUnseen DEF Stutters
<1>7. CASE StillLinked \/ StillRunning \/ NotLive \/ Linked \/ GivesUp
  <2>1. Kept
    BY <1>7 DEF StillLinked, StillRunning, NotLive, Linked, GivesUp, Kept
  <2>2. pc # "idle" /\ op' = None /\ UNCHANGED <<copies, upload, reaper>>
    BY <1>7 DEF StillLinked, StillRunning, NotLive, Linked, GivesUp, Done, look
  <2> QED
    BY <1>1, <2>1, <2>2, KeptUnseen, AnswersSeen DEF Answers, Service!Seen
<1>8. CASE Live \/ Up \/ Relinked
  <2>1. Kept /\ pc # "idle" /\ op' \in {op, None} /\ UNCHANGED <<copies, upload, reaper>>
    BY <1>8 DEF Live, Up, Relinked, GoTo, Done, look, Kept
  <2>2. Unseen
    BY <1>1, <2>1, KeptUnseen
  <2> QED
    BY <1>1, <1>3, <2>1, <2>2, AnswersSeen DEF Answers, Stutters, Service!Seen
<1>9. CASE Write
  <2>1. pc = "write" /\ op.cmd = "set" /\ op # None
    BY <1>1, <1>9 DEF Write, AtStep, TypeOK
  <2>2. ServiceStage \in {"none", "ending"}
    <3>1. CASE Last = 0
      BY <1>1, <3>1, View
    <3>2. CASE Last # 0
      <4>1. Last \in 1..Len(feeders) /\ feeders[Last].stage \in Stages
        BY <1>1, <3>2, LastStages
      <4>2. ~Working(Last)
        BY <1>2, <2>1, <4>1 DEF IInv, Sight
      <4> QED
        BY <1>1, <3>2, <4>1, <4>2, View DEF Working, Stages, Ended
    <3> QED
      BY <3>1, <3>2
  <2>3. Kept /\ upload' = op.mode /\ UNCHANGED <<copies, reaper>> /\ op' \in {op, None}
    BY <1>9 DEF Write, Kept, GoTo, Done, look
  <2> QED
    BY <1>1, <2>1, <2>2, <2>3, KeptUnseen
       DEF Unseen, Service!UploadSet, Service!Asked, Service!OnOrAnswered, Service!Seen
<1>10. CASE Halt
  <2>1. op.cmd \in {"stop", "restart"} /\ op # None
    BY <1>1, <1>10 DEF Halt, AtStep, TypeOK
  <2>2. Kept /\ copies' = copies \ {op.r} /\ UNCHANGED <<upload, reaper>> /\ op' \in {op, None}
    BY <1>10 DEF Halt, Kept, GoTo, Done, look
  <2> QED
    BY <1>1, <2>1, <2>2, KeptUnseen
       DEF Unseen, Service!CopyStops, Service!Asked, Service!OnOrAnswered, Service!Seen
<1>11. CASE Launch
  <2>1. op.cmd \in {"start", "restart"} /\ op # None
    BY <1>1, <1>11 DEF Launch, AtStep, TypeOK
  <2>2. Kept /\ UNCHANGED <<op, upload, reaper>> /\ copies' \in {copies, copies \cup {op.r}}
    BY <1>11 DEF Launch, Kept, GoTo, look
  <2> QED
    BY <1>1, <1>3, <2>1, <2>2, KeptUnseen
       DEF Stutters, Unseen, Service!CopyStarts, Service!Asked, Service!Seen
<1>12. CASE Down
  <2>1. op # None /\ op' = op /\ UNCHANGED <<copies, upload, reaper>>
        /\ op.cmd \in {"stop", "restart", "set"}
    BY <1>1, <1>12 DEF Down, GoTo, look, AtStep, TypeOK
  <2>2. CASE Kept
    BY <1>1, <1>3, <2>1, <2>2, KeptUnseen DEF Stutters
  <2>3. CASE ~Kept
    <3>1. hub # 0 /\ Stops /\ (op.cmd = "set" \/ copies \subseteq {op.r})
      <4>1. hub # 0 /\ Stops
        BY <1>1, <1>12, <2>3, FeedersKept
      <4>2. FedByOthers => feeders' = Told(FeedsWithout(op.r))
        BY <1>12, <4>1 DEF Down
      <4>3. FeedsWithout(op.r) \in SUBSET Receivers
        BY <1>1 DEF TypeOK, FeedsWithout
      <4>4. ~FedByOthers
        BY <1>1, <2>3, <4>1, <4>2, <4>3, ToldEffect DEF Kept
      <4> QED
        BY <4>1, <4>4 DEF FedByOthers, FeedsWithout
    <3>2. CASE Unseen
      BY <1>3, <2>1, <3>2 DEF Stutters
    <3>3. CASE ServiceStage = "posting" /\ ServiceStage' = "ending" /\ ServiceMode' = ServiceMode
      BY <2>1, <3>1, <3>3 DEF Service!FeederTold, Service!Asked, Service!Seen
    <3> QED
      BY <3>1, <3>2, <3>3, StopsSeen
  <2> QED
    BY <2>2, <2>3
<1>13. CASE Again
  <2>1. pc = "again" /\ op # None /\ op' \in {op, None} /\ UNCHANGED <<copies, upload, reaper>>
    BY <1>1, <1>13 DEF Again, GoTo, Done, look, TypeOK
  <2>2. CASE Kept
    BY <1>1, <1>3, <2>1, <2>2, KeptUnseen, AnswersSeen DEF Answers, Stutters, Service!Seen
  <2>3. CASE ~Kept
    <3>1. Starts
      BY <1>1, <1>13, <2>3, FeedersKept
    <3>2. copies \in SUBSET Receivers
      BY <1>1 DEF TypeOK
    <3>3. hub = 0 /\ op' = op
      BY <1>1, <1>13, <2>3, <3>2, ToldEffect DEF Again, Kept, GoTo
    <3>4. upload # "off" /\ op.cmd \in {"start", "restart", "set"}
      BY <2>1 DEF AtStep
    <3>5. ServiceStage = "none" /\ ServiceMode = "off"
      <4>1. Last = 0 \/ feeders[Last].stage \in Ended
        BY <1>1, <2>1, <3>3, View DEF AgainSees
      <4> QED
        BY <1>1, <4>1, View
    <3>6. ServiceStage' = "starting" /\ ServiceMode' = "off"
      <4>1. /\ Len(feeders') = Len(feeders) + 1
            /\ feeders'[Len(feeders) + 1].stage = "starting"
        BY <1>1, <3>1, <3>2, StartedEffect DEF Starts, Started
      <4> QED
        BY <1>1, <4>1, View, ViewNext
    <3> QED
      BY <2>1, <3>3, <3>4, <3>5, <3>6 DEF Service!FeederStarts, Service!Asked, Service!Seen
  <2> QED
    BY <2>2, <2>3
<1>14. CASE ReapAct
  <2>1. UNCHANGED <<copies, upload, op>> /\ reaper' = "none"
    BY <1>14 DEF ReapAct
  <2>2. CASE Unseen
    BY <2>1, <2>2 DEF Unseen, Service!LookEnds, Service!Seen
  <2>3. CASE Reaps /\ ~Unseen
    <3>1. hub # 0 /\ Stops /\ Busy = {} /\ reaper = "unfed"
      BY <1>14, <2>3 DEF ReapAct, Reaps, Stops
    <3>2. op = None
      BY <1>1, <3>1, NotBusy DEF TypeOK
    <3>3. ServiceStage = "posting" /\ ServiceStage' = "ending" /\ ServiceMode' = ServiceMode
      BY <2>3, <3>1, StopsSeen
    <3> QED
      BY <2>1, <3>1, <3>2, <3>3 DEF Service!FeederTold, Service!Seen
  <2>4. CASE ~Reaps
    <3>1. Kept
      BY <1>14, <2>4 DEF ReapAct, Kept
    <3> QED
      BY <1>1, <2>2, <3>1, KeptUnseen
  <2> QED
    BY <2>2, <2>3, <2>4
<1>19. CASE ReapCheck
  <2>1. Busy = {} /\ Kept /\ UNCHANGED <<copies, upload, op>>
        /\ reaper = "none" /\ reaper' = "looking"
    BY <1>19 DEF ReapCheck, Kept
  <2>2. Unseen
    BY <1>1, <2>1, KeptUnseen
  <2> QED
    BY <2>1, <2>2 DEF Unseen, Service!LookEnds, Service!Seen
<1>18. CASE ReapLook
  <2>1. Kept /\ UNCHANGED <<copies, upload, op>>
        /\ reaper' = (IF copies = {} THEN "unfed" ELSE "none")
        /\ reaper = "looking"
    BY <1>18 DEF ReapLook, Kept
  <2>2. Unseen
    BY <1>1, <2>1, KeptUnseen
  <2>3. CASE copies = {}
    BY <2>1, <2>2, <2>3 DEF Unseen, Service!Look, Service!Seen
  <2>4. CASE copies # {}
    BY <2>1, <2>2, <2>4 DEF Unseen, Service!LookEnds, Service!Seen
  <2> QED
    BY <2>3, <2>4
<1>15. CASE \E r \in Receivers : CopyDies(r)
  <2>1. Kept /\ UNCHANGED <<upload, op, reaper>> /\ \E r \in copies : copies' = copies \ {r}
    BY <1>15 DEF CopyDies, server, look, Kept
  <2> QED
    BY <1>1, <2>1, KeptUnseen DEF Unseen, Service!CopyDies, Service!Seen
<1>16. CASE \E f \in DOMAIN feeders : FeederStep(f) \/ FeederDies(f)
  <2>1. PICK f \in 1..Len(feeders) : FeederStep(f) \/ FeederDies(f)
    BY <1>1, <1>16, LenProperties DEF TypeOK
  <2>2. CASE Link(f)
    <3>1. Kept /\ UNCHANGED <<copies, upload, op, reaper>>
      BY <2>2 DEF Link, FeederOnly, look, Kept
    <3> QED
      BY <1>1, <1>3, <3>1, KeptUnseen DEF Stutters
  <2>3. CASE ReadFile(f) \/ Close(f) \/ Exit(f) \/ FeederDies(f)
    BY <1>3, <2>3, FeederSeen DEF Stutters, Service!Seen
  <2> QED
    BY <2>1, <2>2, <2>3 DEF FeederStep
<1>17. CASE ServerDies
  BY <1>2, <1>17 DEF ServerDies, Fault
<1> QED
  BY <1>4, <1>5, <1>6, <1>7, <1>8, <1>9, <1>10, <1>11, <1>12, <1>13, <1>14, <1>15, <1>16, <1>17,
     <1>18, <1>19
     DEF Next, Worker, Reaper

-----------------------------------------------------------------------------

\* The feeder control implements the service it promises: whoever asks and whatever
\* dies, as long as neither a death of the server nor a feeder slower than its waits
\* hides a feeder from it.
THEOREM FeederControlImplementsService == Spec => ImplementsService
<1>1. Init => Service!Init /\ AtStep
  BY InitSeen DEF Init, AtStep
<1>2. IInv /\ IInv' /\ AtStep /\ [Next]_vars => AtStep' /\ [Service!Next]_(Service!vars)
  <2> SUFFICES ASSUME IInv, IInv', AtStep, [Next]_vars
               PROVE  AtStep' /\ [Service!Next]_(Service!vars)
    OBVIOUS
  <2>1. TypeOK /\ TypeOK'
    BY DEF IInv
  <2>2. AtStep'
    BY <2>1, AtStepStep
  <2>3. CASE ~InSight'
    BY <2>2, <2>3 DEF Service!Next, InSight
  <2>4. CASE InSight'
    <3>1. InSight
      BY <2>1, <2>4, FaultsStay DEF InSight
    <3> QED
      BY <2>1, <2>2, <2>4, <3>1, StepSeen, InSightSeen
  <2> QED
    BY <2>3, <2>4
<1> QED
  BY <1>1, <1>2, FeederInvariance, PTL DEF Spec, ImplementsService, Service!Spec

=============================================================================
