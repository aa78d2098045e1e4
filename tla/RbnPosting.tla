----------------------------- MODULE RbnPosting -----------------------------
(***************************************************************************)
(* The RBN feeder of one radio, from its receivers' spots to RBN           *)
(* (rbn2_feeder.py): a reader per receiver, as the server's `receivers`    *)
(* command lists them, one queue, the upload thread with its re-spot rule  *)
(* (Respot), the sign-in of the heartbeat thread, and the end of the       *)
(* process when a thread dies.  FeederControl is how such a process is     *)
(* started, told its receivers and stopped; this is what it does meanwhile.*)
(*                                                                         *)
(* One call is heard, at frequencies more than QSY_KHZ apart: Respot keeps *)
(* the calls apart, and the queue only adds up.  A skimmer spots it at     *)
(* most once per respot_interval and frequency.  Left out: the bands,      *)
(* hashes and rows of the posts, the blacklist, and a reader's reconnects, *)
(* which only lose spots.  RBN is external.                                *)
(***************************************************************************)
EXTENDS Integers, Sequences, FiniteSets, FiniteSetsExt, SequencesExt

CONSTANTS
  Receivers, Freqs,
  Hears,             \* the pairs of a receiver and a frequency its bands hold
  RESPOT,            \* respot_interval of each receiver's configuration
  RESPOT_SLACK_S,
  UPLOAD_S,          \* serverUploadInterval
  HTTP_TIMEOUT_S,    \* a post takes at most this long
  MaxTime,           \* bound: how long it runs
  MaxSkims,          \* bound: spots of the call
  MaxRelists         \* bound: `receivers` commands

ASSUME RbnPostingAssumption ==
  /\ IsFiniteSet(Receivers) /\ Receivers # {} /\ Freqs # {} /\ Hears \subseteq Receivers \X Freqs
  /\ RESPOT \in [Receivers -> Nat \ {0}]
  /\ {RESPOT_SLACK_S, HTTP_TIMEOUT_S, MaxTime, MaxSkims, MaxRelists} \subseteq Nat
  /\ UPLOAD_S \in Nat \ {0}

VARIABLES
  now,
  skimmed,      \* the skimmers' own last spots: <<receiver, frequency>> -> time
  readers,      \* Readers.stops: the receivers fed from
  lingering,    \* receivers taken off the list whose reader is still in its recv
  interval,     \* Respot.interval_s
  last,         \* Respot.last, of the call
  spots,        \* the queue
  upload,       \* the upload thread: "waits", "drains" the queue, "posts" or "dead"
  due,          \* the end of its wait, or of its post at the latest
  batch,        \* what it has taken to post
  registered,   \* the last id.php succeeded
  dying,        \* a thread that dies: "no", "died", "failed" is set, "over"
  failed,
  shutdown,     \* by whom it was asked first: "no", "outside" or "thread"
  exit,         \* main: "no", "clean" or "failed"
  skims, relists,
  \* observers
  passed,       \* every spot let through, in order, with the least interval since
  held          \* the spots this upload, or the last, held back

vars == <<now, skimmed, skims, readers, lingering, interval, last, spots, upload, due, batch, registered, dying,
          failed, shutdown, exit, relists, passed, held>>
listed == <<readers, interval, relists>>
posting == <<last, upload, due, batch, passed, held>>
asRead == <<now, skimmed, skims, lingering, readers, interval, relists>>
life == <<dying, failed, shutdown, exit>>

Spot == [rx : Receivers, f : Freqs, at : 0..MaxTime]
Entry == [t : 0..MaxTime, f : Freqs, rx : Receivers]
Noted == [t : 0..MaxTime, f : Freqs, rx : Receivers, gap : {RESPOT[r] : r \in Receivers}]
Never == 0 - MaxTime

TypeOK ==
  /\ now \in 0..MaxTime /\ skimmed \in [Hears -> Never..MaxTime]
  /\ readers \subseteq Receivers /\ lingering \subseteq Receivers
  /\ interval \in {RESPOT[r] : r \in Receivers}
  /\ last \subseteq Entry /\ spots \in Seq(Spot) /\ batch \subseteq Spot
  /\ upload \in {"waits", "drains", "posts", "dead"}
  /\ (upload \in {"waits", "dead"} => batch = {}) /\ (upload = "posts" => batch # {})
  /\ due \in Nat /\ registered \in BOOLEAN /\ failed \in BOOLEAN
  /\ dying \in {"no", "died", "failed", "over"} /\ shutdown \in {"no", "outside", "thread"}
  /\ exit \in {"no", "clean", "failed"} /\ skims \in 0..MaxSkims /\ relists \in 0..MaxRelists
  /\ passed \in Seq(Noted) /\ held \subseteq Noted

Longest(names) == Max({RESPOT[r] : r \in names})

Init ==
  /\ now = 0 /\ skimmed = [x \in Hears |-> Never]
  /\ readers \in (SUBSET Receivers) \ {{}} /\ lingering = {} /\ interval = Longest(readers)
  /\ last = {} /\ spots = <<>>
  /\ upload = "waits" /\ due = UPLOAD_S /\ batch = {} /\ registered = FALSE
  /\ dying = "no" /\ failed = FALSE /\ shutdown = "no" /\ exit = "no" /\ skims = 0 /\ relists = 0
  /\ passed = <<>> /\ held = {}

\* Until a thread dies or the shutdown is asked for: a spot queued after that is
\* never posted, and what the other threads still do changes nothing that is kept.
running == exit = "no" /\ shutdown = "no" /\ dying = "no"

-----------------------------------------------------------------------------
(* The receivers.                                                          *)

\* A skimmer spots the call: its reader queues it, and so does a reader taken
\* off the list in the middle of its recv, which then ends.
Skim(r, f) ==
  LET spot == <<[rx |-> r, f |-> f, at |-> now]>> IN
  /\ running /\ skims < MaxSkims /\ skims' = skims + 1
  /\ <<r, f>> \in Hears /\ r \in readers \cup lingering /\ now - skimmed[<<r, f>>] >= RESPOT[r]
  /\ skimmed' = [skimmed EXCEPT ![<<r, f>>] = now]
  /\ spots' = spots \o (IF r \in readers THEN spot ELSE <<>>)
                    \o (IF r \in lingering THEN spot ELSE <<>>)
  /\ lingering' = lingering \ {r}
  /\ UNCHANGED <<now, listed, registered, posting, life>>

IntervalOfNone(names) == IF names = {} THEN 0 ELSE Longest(names) \* mutant
IntervalOf(names) == IF names = {} THEN interval ELSE Longest(names)

\* The server names the receivers (Readers.set).  A reader that ends may be in the
\* middle of a recv that still brings a spot.
Set(names, within) ==
  /\ running /\ relists < MaxRelists /\ names # readers /\ within \subseteq readers \ names
  /\ relists' = relists + 1
  /\ readers' = names /\ lingering' = lingering \cup within
  /\ interval' = IntervalOf(names)
  /\ passed' = [i \in DOMAIN passed |-> [passed[i] EXCEPT !.gap = Min({@, interval'})]]
  /\ UNCHANGED <<now, skimmed, skims, spots, registered, last, upload, due, batch, held, life>>

-----------------------------------------------------------------------------
(* The upload thread.                                                      *)

WaitLessSlack(by, rx) == Max({interval - RESPOT_SLACK_S, 0})     \* mutant

\* How long a spot by one receiver holds back a spot by another, or its own.
Wait(by, rx) == IF by = rx THEN Max({interval - RESPOT_SLACK_S, 0}) ELSE interval

EnteredAlways(seen, s, allowed) == seen \cup {[t |-> now, f |-> s.f, rx |-> s.rx]}   \* mutant
Entered(seen, s, allowed) == IF allowed THEN seen \cup {[t |-> now, f |-> s.f, rx |-> s.rx]} ELSE seen

\* What Respot still holds against a spot, and whether it lets it through.
Seen == {e \in last : now - e.t < interval}
Allowed(s) == \A e \in Seen : e.f = s.f => now - e.t >= Wait(e.rx, s.rx)

\* The end of the wait: an upload begins.
Wakes ==
  /\ upload = "waits" /\ now = due /\ running
  /\ upload' = "drains" /\ held' = {}
  /\ UNCHANGED <<asRead, registered, last, spots, due, batch, passed, life>>

\* It takes one spot off the queue: Respot.allow.
Takes ==
  LET s == Head(spots)
      noted == [t |-> now, f |-> s.f, rx |-> s.rx, gap |-> interval]
  IN
  /\ upload = "drains" /\ spots # <<>> /\ running
  /\ spots' = Tail(spots) /\ last' = Entered(Seen, s, Allowed(s))
  /\ IF Allowed(s)
     THEN batch' = batch \cup {s} /\ passed' = Append(passed, noted) /\ UNCHANGED held
     ELSE held' = held \cup {noted} /\ UNCHANGED <<batch, passed>>
  /\ UNCHANGED <<asRead, registered, upload, due, life>>

UnsignedKept(rest, new) == rest \o SetToSeq(new)                 \* mutant

\* What the queue keeps of spots that found no sign-in: dropped, not held.
Unsigned(rest, new) == rest

\* The queue is empty: it posts what it took, if anything, and if signed in.
Drained ==
  /\ upload = "drains" /\ spots = <<>> /\ running
  /\ IF registered /\ batch # {}
     THEN upload' = "posts" /\ due' = now + HTTP_TIMEOUT_S /\ UNCHANGED <<spots, batch>>
     ELSE /\ upload' = "waits" /\ due' = now + UPLOAD_S
          /\ spots' = Unsigned(spots, batch) /\ batch' = {}
  /\ UNCHANGED <<asRead, registered, last, passed, held, life>>

\* The post is answered or fails, which is the same to what follows.
Posted ==
  /\ upload = "posts" /\ running
  /\ upload' = "waits" /\ batch' = {} /\ due' = now + UPLOAD_S
  /\ UNCHANGED <<asRead, registered, last, spots, passed, held, life>>

\* The heartbeat's id.php succeeds, or fails: at any time, but nothing looks at it
\* before an upload has emptied the queue.
PostId ==
  /\ running /\ upload = "drains" /\ spots = <<>>
  /\ registered' = ~registered
  /\ UNCHANGED <<now, skimmed, skims, lingering, listed, spots, posting, life>>

-----------------------------------------------------------------------------
(* The process.                                                            *)

outside == <<now, skimmed, skims, interval, relists, registered, due>>

\* From then on nothing looks at what the threads hold.
LetGo ==
  /\ readers' = {} /\ lingering' = {} /\ spots' = <<>> /\ last' = {}
  /\ upload' = "dead" /\ batch' = {} /\ passed' = <<>> /\ held' = {}
  /\ UNCHANGED outside

\* A thread dies; it then marks the failure and asks for the shutdown.
Dies ==
  /\ running /\ dying' = "died" /\ LetGo
  /\ UNCHANGED <<failed, shutdown, exit>>

SetFailed == failed' = TRUE /\ UNCHANGED shutdown
SetShutdown == shutdown' = (IF shutdown = "no" THEN "thread" ELSE shutdown) /\ UNCHANGED failed

MarkStopsFirst == IF dying = "died" THEN SetShutdown ELSE SetFailed   \* mutant
Mark == IF dying = "died" THEN SetFailed ELSE SetShutdown

Marks ==
  /\ dying \in {"died", "failed"} /\ exit = "no"
  /\ Mark /\ dying' = IF dying = "died" THEN "failed" ELSE "over"
  /\ UNCHANGED <<outside, readers, lingering, spots, last, upload, batch, passed, held, exit>>

\* SIGTERM, Ctrl-C, or the server's stop command.
Asked ==
  /\ shutdown = "no" /\ exit = "no" /\ shutdown' = "outside" /\ LetGo
  /\ UNCHANGED <<dying, failed, exit>>

\* main sees the shutdown within a second and ends, with an error when a thread failed.
Exits ==
  /\ shutdown # "no" /\ exit = "no"
  /\ exit' = IF failed THEN "failed" ELSE "clean"
  /\ UNCHANGED <<outside, readers, lingering, spots, last, upload, batch, passed, held, dying,
                 failed, shutdown>>

\* Time passes up to the end of the upload thread's wait or post.
Pass ==
  /\ now < MaxTime /\ running /\ now < due
  /\ now' = now + 1
  /\ UNCHANGED <<skimmed, skims, lingering, listed, spots, registered, posting, life>>

Next ==
  \/ \E r \in Receivers, f \in Freqs : Skim(r, f)
  \/ \E names, within \in SUBSET Receivers : Set(names, within)
  \/ Wakes \/ Takes \/ Drained \/ Posted \/ PostId \/ Dies \/ Marks \/ Asked \/ Exits \/ Pass

Spec == Init /\ [][Next]_vars

-----------------------------------------------------------------------------
(* Properties.                                                             *)

\* Over all receivers, their lists and readers that linger, the call goes out
\* once per interval and frequency, the least that was in force meanwhile, a
\* receiver's own re-spot at most the slack early (Respot).  A spot elsewhere does
\* not make the rule forget one it still needs.
OnePostPerInterval ==
  \A i, j \in DOMAIN passed : i < j /\ passed[i].f = passed[j].f =>
    passed[j].t - passed[i].t >=
      passed[i].gap - (IF passed[i].rx = passed[j].rx THEN RESPOT_SLACK_S ELSE 0)

\* A spot is held back only for one that was let through less than an interval
\* ago: spots that are held back hold back no others.
HeldForOne ==
  \A h \in held : \E i \in DOMAIN passed : passed[i].f = h.f /\ h.t - passed[i].t < h.gap

\* No backlog: what is posted was spotted within the wait and the posts around it.
FreshPosts == \A s \in batch : now - s.at <= UPLOAD_S + 2 * HTTP_TIMEOUT_S

\* The feeder says it stopped cleanly only when it was asked to, never when a
\* thread's death stopped it (worker, wait_for_stop).
CleanExit == exit = "clean" => shutdown = "outside"
=============================================================================
