# SparkGap in TLA+

SparkGap is a CW/FT8/RTTY skimmer: it takes IQ samples from a software radio,
decodes every signal in the band, decides which callsigns to spot, and hands the
spots to telnet clients, a browser view and the Reverse Beacon Network (RBN).  One
process (a *copy*, `sparkgap.py`) serves one receiver; a server
(`sparkgap_server.py`) starts and stops the copies of a machine and the RBN feeder
of each radio.

This directory holds TLA+ modules of the parts whose correctness depends on order,
time and failure, TLC configurations that check small instances, and TLAPS proofs.
`PROJECT.json` maps every definition to the lines it models.

    tlasany M.tla ; tlc -workers 2 -config X.cfg M ; tlapm MProofs.tla

## 1. Inventory

| Component | State | Operations | Talks to |
|---|---|---|---|
| Spot rule, `spot_rule.py` | copies, counted keys, owners of frequencies, window ids, re-spot table | `feed`, `window_id`, `restore_last_spots` | called by `SpotTracker.process_intent` |
| Spot memory, `sparkgap.py` | a JSON file | save at each status interval and at `stop`, load at `start` | the rule's re-spot table |
| Server operations, `sparkgap_server.py` | queue of one worker, busy instances, hub of linked processes | start, stop, restart, set, add, remove, discover, node, rename | `seat.py` in the worker's thread, processes through the hub |
| Reaper, `sparkgap_server.py` | what it saw in its thread | stop a feeder or a station nothing uses | hub |
| Seat, `seat.py` | pid files, lock files, configs of instances and radios | start and stop copies and stations, spawn feeders, change settings | processes, by signal and pid file |
| Process link, `process_link.py` | a socket, the last status | connect, retry every 5 s, answer commands | the server's hub |
| RBN feeder, `rbn2_feeder.py` | readers per receiver, spot queue, sign-in, respot table | read, upload, heartbeat, follow `receivers` and `stop` | copies' telnet ports, RBN over HTTP, hub |
| Feed server, `feed_server.py` | clients with bounded queues, snapshot | publish, join, control, lockout, keepalive | browser, server's proxy |
| Telnet server, `telnet_server.py` | client table | login, filters, broadcast, drop a stalled client | FT8 thread, event loop, feeder |
| Flex receiver, `flex_iq.py`, `flex_station.py` | connection, pan, slice, stream, loss budget, state | connect, poll, recover, retune, calibrate, halt | radio over TCP and UDP |
| HPSDR receiver, `hpsdr_fast.c`, `hpsdr_receiver.py`, `hpsdr_proxy.py` | ring of samples, sequence numbers, owner of the proxy | start, restart on silence, forward | radio over UDP |
| Daemon, `sparkgap.py` | bands, managers, FT8 windows, live band change | start, run, stop | all of the above |
| Decoders (C, C++), scanners | signal state | decode | daemon |

What is hard, component by component, and what makes it correct:

* **Spot rule.**  One signal is decoded by several bins, by two low-pass paths, in
  overlapping windows, with the decoder's own errors.  A spot must rest on
  independent readings, outvote a garbled rival, appear once per call and band in
  ten minutes, and the frequency's owner must neither be forged by a caller nor
  lost to a garble.
* **Spot memory.**  The process may stop, crash and start anywhere between two saves.
* **Feeder control.**  Four parties (the worker's thread, the event loop with its
  reaper, the feeder, the copies) act on the same processes, each with its own view:
  hub, pid file, radio file.  The server may die and come back while the others
  run on.  Never two feeders for one radio (it would post everything twice), never
  one that posts against `rbn_upload`, none stopped that is fed, none left that is
  not, and no request left without an answer.
* **Hub and proxy.**  Commands pending when a link goes; a limit checked before an
  await and counted after it.
* **Seat.**  Lock order, the station that goes with the last copy, an `add` undone.
* **RBN posting.**  Spots while not signed in, two receivers of one node, a list of
  receivers that changes under its readers, a dead thread.
* **Feed and telnet servers.**  Slow clients, clients removed while iterated over,
  spots of a second thread, a stop with connections half made, a band changed under
  a client whose queue is full of the old one.
* **Flex receiver.**  A stream replaced without a reply, a calibration that moves the
  pan, a live change the radio refuses halfway, halt against recovery, a loss budget.
* **HPSDR receiver.**  A ring that overflows, a restart that races samples.

`PROJECT.json` lists each of these at its line under `hazards`, with the property
that covers it or the reason none does yet.

## 2. Plan

| Order | Module | Models | Status |
|---|---|---|---|
| 1 | `SpotRule`, `MCSpotRule`, `SpotRuleProofs` | the rule and its memory | done |
| 2 | `FeederControl`, `FeederControlProofs` | server operations, reaper, feeder, link | done |
| 3 | `FeederService`, what the server promises of a feeder in its sight; `FeederControl` implements it (a PROPERTY and, in `FeederRefinementProofs`, a theorem) | 2 | done |
| 4 | `FlexReceiver`, `FlexReceiverProofs` | one copy's receiver on a Flex: loop, recovery, live changes, calibration, halt | done |
| 5 | `RbnPosting`, `MCRbnPosting`, `RbnPostingProofs` | the feeder's readers, queue, `Respot`, upload, sign-in, a dead thread | done |
| 6 | `GuiFeed`, `GuiFeedProofs` | the browser feed of a copy, composed with the copy's loop and its change of band | done |
| 7 | `TelnetServer`, `TelnetServerProofs` | the DX cluster port: client table, two threads, stalled clients, stop | done |
| 8 | `FlexStation`, `FlexStationProofs` | the station process, the copies that share the radio's one GUI client, and the seat's starts and stops of both | done |
| 9 | `Seat` | radio and instance locks, undo of `add` | planned |
| 10 | `Hub` | pending commands, proxied feeds | planned |

How they fit together: `SpotRule` decides the spots that `GuiFeed`, `TelnetServer` and
`RbnPosting` carry; `FlexReceiver` is the receiver whose contract `GuiFeed` uses for
its retune; `FlexStation` is several copies over the station that
`FlexReceiver` takes as given; `FeederControl` starts, tells and stops the process whose inside is
`RbnPosting`.  They meet at interfaces of one value (a spot, a retune's outcome, a
list of receivers), so each is checked with the other side's contract as its
environment.

## 3. `SpotRule`: the spot rule and its memory

**State.**  `copies`, `seen`, `owners`, `lastSpot`, `pruned`, `nextWindow` are the
attributes `_copies`, `_seen`, `_owners`, `_last_spot`, `_pruned`, `_next_window`;
`windows` joins `_window_ids` and `_bins`.  `memory` is the file, `running` the
process, `now` the tracker's clock.  `heard`, `spotted` and `out` only observe:
every counted reading of this life, the last spot of each key a restart had a chance
to remember, and what `feed` returned.

**Actions.**  `Feed` is one whole `process_intent`: `window_id`, `_expire`,
`_lockon_calls` with `_own`, then for each call named `_same_audio`, the copy, the
vote and the decision.  `Save`, `Stop`, `Crash` and `Start` are the life of the
re-spot table; `Stop` saves, `Crash` does not.  `Tick` is the clock.

**Abstraction.**  A text is what the rule asks of it: CQ groups (each with the call
standing right before its keyword), the calls that are tokens of it, those that sign
off.  The tokeniser is left out, and so are the options of `sparkgap.py:2274-2290`: all are off
unless configured, but for `spot_validation`, which two of the shipped examples set to
`normal` (`skimmer_flex.example.json:24`, `skimmer_hpsdr.example.json:25`).  It replaces
the tier count and the one-edit vote by a score (`spot_rule.py:667-675`): what is said here of
tiers and of the vote is of the rule without it.  A bin is its frequency; one life of the process lasts at most `MaxTime`
seconds and opens at most `MaxWindows` windows; a text has at most two CQ groups.

| Run | Instance | Shows |
|---|---|---|
| `spot_rule_respot` | one runner on two frequencies a move apart, saves, stops, crashes | `RespotInterval` |
| `spot_rule_readings` | runner, a bust of his call, a caller, sign-offs; two neighbouring bins, either the stronger | `OneTransmissionOneCopy`, `SpotsCorroborated`, `OwnersApart`, `OwnerCalledCq`, `SteadyRunnerSpotted`, `TakeoverEarned` |
| `spot_rule_bins` | three bins on one signal, the middle one the strongest | violates `SpotsCorroborated` |

**Why these bounds are enough.**  The intervals keep their order and relations
(`WINDOW_S` < `LOCK_IDLE_S` <= `REPEAT_S` < `RESPOT_S`, `CELL` <= `NEAR` < `MOVE`) at
a scale where each of them passes within `MaxTime`: copies expire, owners lapse,
tables are pruned and calls are spotted again.  Two bins are what `_same_audio` is
about, and a third is where it fails; a runner and one bust are what the vote and a
takeover are about.  Tiers of 2 and 3 need several windows to reach.

## 4. `FeederControl`: the radio's RBN feeder

**State.**  `copies` are the receivers whose process runs, `upload` is `rbn_upload`
in the radio's file, `feeders` every feeder process started, in order (the pid file
names the last), each with its stage, the mode it read at its start and the
receivers it reads.  `hub` is the entry of `Server.procs` for the feeder, `queue`,
`op` and `pc` the executor with its one thread, `reaper` what `_reap` saw in its
thread and `late` whether a request was accepted since it began to look.  `serverUp` and `faults` are the environment.

**Actions.**  The worker's thread advances by one `pc` step between two moments at
which another party can be seen to act: a wait, a look at the hub, a change of a
file or a process.

| Steps | Code |
|---|---|
| `Request` | `_request_op`: refused when the receiver is busy or the queue full |
| `Take`, `Done` | `_run_op` starts; its future's callback |
| `Down`, `Unlinked`, `StillLinked` | `_feeder_down` and its wait |
| `Write` | `Seat.set_upload` |
| `Halt`, `StillRunning` | `Seat._stop` |
| `Launch`, `Live`, `NotLive` | `Seat._start` and its wait |
| `Up`, `Relinked`, `Again`, `Linked`, `GivesUp` | `_feeder_up`, its two looks at the hub (`:739`, `:744`) and its waits |
| `ReapCheck`, `ReapLook`, `ReapAct` | `_reap`: the check of `busy`, its thread, and the stop, when its turn comes |
| `ReadFile`, `Link`, `Close`, `Exit` | the feeder's `main`, its `ProcessLink` and `_process_client` |

**Faults.**  A copy dies, the feeder dies, the server dies (or is stopped with an
operation under way) and may start again, a copy runs without getting live, the feeder
is too slow to link, a process does not end when told.  Each kind happens at most once,
and at most `MaxFaults` of them in one behaviour.

**Timing assumptions**, each from a constant of the code: a ready feeder
links within `FEED_RELINK_S` unless the fault "slow" happens; a launch has written
its pid file when it returns; a loopback link does not break while both its ends
live.  Nothing is assumed of how long the worker takes between its two looks, nor of how
long the reaper holds what it saw: it waits up to 5 s for each feeder it stops, and with
several radios whole operations begin and end meanwhile.  `_feeding` reads the receivers
of the radio in one step; the hub and the pid file of `:739` are one look, for a link made
between the two ends the wait that follows at once.

| Run | Instance | Shows |
|---|---|---|
| `feeder_control` | 2 receivers, 3 requests, 3 feeders, any 2 of 6 fault kinds (675,604 states) | `OneFeeder`, `FedByRunning`, `KeepsFeeding`, `RequestsAnswered`, `OrphanFeederEnds`, `ImplementsService` |
| `feeder_serves` | no fault | violates `FeederServes` |

**Bounds.**  Two receivers are what "still fed by another" needs; three requests let
one set up, one disturb and one follow; two faults combine (a server that dies while
a copy has died).  A queue of two is always large enough for two receivers, as eight
is for the machine's: the refusal for a full queue needs more receivers.  An operation
starts one feeder at most, so three requests never meet the bound of three feeders.

**What the two guards of the code do not cover**, and the properties therefore do not say.
`OneFeeder` is about feeders at work (starting, posting, or told to stop and still linked):
a feeder linked at the first look and gone at the second is replaced without a look at its
process, so a new one may start beside a process that has closed its link and is about to end,
whose last post may still be on its way.  `KeepsFeeding` has one exception: a request
that is accepted and answered while the reaper holds what it saw is not noticed (`late`), and the
feeder of a copy just started may be stopped.

**What it implements.**  `FeederService` is the feeder as the protocol's documentation
speaks of it: one or none, started for a receiver that runs and an upload that is
not off, posting in the file's mode, stopped for a new mode, with the last receiver or
when none runs.  It has no queue, hub, pid file, reaper or list of processes.  The
mapping takes the last feeder of `feeders` (`ServiceStage`, `ServiceMode`), `op` for
the operation asked, and `InSight` for `sight`, whether the server knows of the
feeder.  A feeder gets out of sight when the server dies or the feeder has not linked
in time; of the mode of such a feeder the documentation promises too much (a `set` of
`rbn_upload` then writes the file and leaves the feeder as it is), and
`FeederService` promises nothing of it until it is back.  It says nothing of the receivers a
feeder reads (`FedByRunning` does) nor of liveness.

**Fairness.**  Weak fairness of the worker (an executor thread runs what is queued
and every wait in it has an end), of the reaper's steps (the state loop runs every
second) and of each feeder's own steps (its threads run, its link retries).  None on
requests, faults or the return of the server: `OrphanFeederEnds` asks only about
behaviours in which the server is up for good.

## 5. `FlexReceiver`: a copy's receiver on a FlexRadio

**State.**  The radio (external, modelled from what `flex_iq.py` and
`tests/flex_fake_radio.py` rely on): where our pan is and which station has it, our
streams and whether they flow, calibration, transmission, the station registered,
whether it answers.  Between the two: `inbox`, the status lines nobody has read, and
`air`, the IQ packets in the socket, each labelled with where and when it was taken.
The copy: `FlexIQReceiver.state`, `pc` (the loop, or where its `_recover` is), the
attributes of the same names, and `lock` with `aim` for the live change under `_lock`.

**Actions.**  `Poll` and `ReadPacket` are a turn of `receive`; `Lost` to `Build` are
`_recover` with `await_radio`, `_new_stream`, `_connect` and `_build`; `LiveRetune`,
`TuneStep`, `TuneEnds` are `retune` and what it undoes; `CalRestore` is
`_cal_restore`, `SetRx` is `set_rx`; `Stop` and `StopRemoves` are `stop`.  A command that waits for its
reply reads the lines before it and drops them, as `_command` does: `swallowed`
remembers which.

**What that abstraction says of the code.**  Where a command swallows "calibration is
done", the mute stays: `HearsAgain` excepts it by name.  Where it swallows the
interlock's line, transmission goes unnoticed until the next key-up; `_build` asks for
the status anew but looks at calibration only.

| Run | Instance | Shows |
|---|---|---|
| `flex_receiver` | 2 frequencies, budget 1, any 2 of 8 kinds of event (264,914 states) | `OneStream`, `HeardAsTold`, `EndIsFinal`, `RecoveryEnds`, `HearsAgain` |
| `flex_held` | calibration, a live retune | violates `MutedWhileHeld` |

**Bounds.**  Two events are what a race needs (a stall during a calibration, an outage
during a move); a budget of 1 is reached by two losses; a second station is a
registration that replaced the first.  A packet queued is one of its kind: the code
treats all up to a deadline alike, so `hold` and `discard` count the queued packets a
deadline still covers.

**Fairness.**  The loop turns, commands return, every wait of a recovery has an end
(`OUTAGE_MAX_S`, `RADIO_SETTLE_S`), and `_cal_restore` does not retry for ever
(`CAL_RESTORE_S`), hence the strong fairness of the halt that ends it.  None on the radio.

## 6. `RbnPosting`: from the receivers' spots to RBN

**State.**  `readers` (`Readers.stops`), `lingering` (readers told to stop that are
still in their `recv`), `interval` and `last` (`Respot`), the queue, the upload thread
with the end of its wait, `registered`, and how the process ends.  `passed` and `held`
observe what `Respot.allow` let through and held back; each entry of `passed` keeps in `gap` the
least interval in force since.

**Actions.**  `Skim` is a spot read by a reader, `Set` is `Readers.set`, `Wakes`, `Takes`, `Drained`
and `Posted` the upload loop: the end of its wait, one spot taken off the queue and judged, the
post once the queue is empty, and its answer. `PostId` is the heartbeat's sign-in (it matters
only at an upload, so it is taken there), `Dies` and `Marks` a thread that raises, `Asked` and `Exits`
the ways `wait_for_stop` ends, `Pass` the clock.  From the moment a thread has died or
the shutdown is asked nothing looks at the queue again, so `LetGo` forgets it.

| Run | Instance | Shows |
|---|---|---|
| `rbn_posting` | 2 receivers with intervals of their own, one on two bands, 3 spots, 2 lists (2,365,095 states) | `OnePostPerInterval`, `HeldForOne`, `FreshPosts`, `CleanExit` |

**Bounds.**  One call is enough, for `Respot` keeps calls apart and only its frequency
matters; three spots are two that must be apart and one elsewhere or held back between
them; two lists change the interval and change it back.  The clock moves at most to the next
end of the upload thread's wait, one unit standing for five seconds.  No liveness is
asked and no fairness stated.

## 7. `GuiFeed`: the browser feed of a copy and its change of band

**State.**  The copy's loop (`pc`, the IQ buffer, the scanner and the spectrum tap with
the band each was made for, `controls`), `calls` (what `call_soon_threadsafe` has
queued for the feed's thread), the feed (`hello`, `store` and `status` of its snapshot)
and, per client, its place in the table, its two queues and what it has been sent.

**Actions.**  `Turn` is one turn of `SparkGap.run` with what it publishes;
`TakeChange`, `Retune`, `Moved`, `Answers` and `Pop` are `_live_change` around its
await; `RunCall` runs one callback (`publish_*`, `set_bands`, an answer, `shutdown`);
`Join`, `Sends`, `Asks`, `Idle`, `Leaves` are `_handle`, `_sender`, `_take_control`,
`_keepalive` and the handler's end.  A client's `view` follows
`docs/GUI_FEED_PROTOCOL.md`: a hello is a fresh start.

**Abstraction.**  IQ is the set of bands it was taken from.  A packet is handed over in
one step.  The receiver is `FlexReceiver`'s contract: a retune moves, is refused, or
halts.  Left out are the refusals that only depend on the configuration, changes of the
receive path, the status counters, subscriptions and the thinning of rows, join codes,
pings (they could only bring a cut-off forward) and `MAX_PENDING`; how many windows the
snapshot drops for their age is any number.  `Join` takes the check of `MAX_CLIENTS`
(`feed_server.py:611`) and the client's entry (`:708`) as one step: the drain between them writes a
short reply to a fresh TCP connection and does not hand over, so the limit under an await
that does is not checked.

| Run | Instance | Shows |
|---|---|---|
| `gui_feed` | 2 clients for 1 place, 2 bands, 2 turns, queues of 3 and 1 (642,927 states) | `TrueToBand`, `NothingOldAfterHello`, `NoneMissed`, `AskAnswered`, `EveryoneMoves` |

**Bounds.**  Two clients for one place let one be refused, or one follow another that
was cut off; a text queue of 3 holds the hello, the snapshot and one message, so the
next cuts a client off; a spectrum queue of 1 overflows at the second row; two turns
are one on each band.

**Fairness.**  Of all that runs by itself together: the loop turns, its threads return, the
feed's loop runs what is queued, a client reads, a cut connection ends.  None on joining,
asking, leaving or the radio's answer.

## 8. `TelnetServer`: the DX cluster port

**State.**  `table` is `_clients`; each connection has its handler's place, its
transport and the lines unsent; `calls` are spots handed over from the FT8 thread
(`call_soon_threadsafe`).  `sent`, `since`, `got`, `early` observe.

**Actions.**  `Connect` to `ReadsEnd` are `_handle_client`; `SpotOnLoop`, `SpotOffLoop`
and `RunCall` are `broadcast_spot` on the loop and off it with `_send`; `Stop` and
`Stopped` are `stop`.  `Flushed` and `HangsUp` are asyncio's transport: closing
flushes what is unsent, and from Python 3.12 on `wait_closed` waits for every
connection.

| Run | Instance | Shows |
|---|---|---|
| `telnet_server` | 2 clients, 3 spots, 2 lines unsent at most (49,997 states) | `NoGap`, `StopEndsForServed` |
| `telnet_stop` | the same | violates `StopEnds` |

**Bounds.**  Three spots overfill a buffer of one line and leave one to be missed; one
client stalls while the other reads.  **Fairness:** timers fire and the loop runs what is
due.  No client need read, leave or log in.  `writer.close` flushes what is unsent first and
`wait_closed` has no time limit, so a stop is held by any client that stops reading with
lines unsent, dropped or not: both liveness properties ask, as their premise `ClientsRead`, about
behaviours in which none does so for ever.  The counterexample of `telnet_stop` satisfies it: its
client reads everything and stays.

## 9. `FlexStation`: who holds the radio's one GUI client

**State.**  The radio (external): `gui`, the client registered under SparkGap's id with
whether its connection is gone already (`stale`), and `bound`, the copies whose pans hang on it.
`st` is the `FlexStation` of each holder, the process or a copy; `pc` where each
copy's `FlexIQReceiver` is; `op` and `asked` the seat's start or stop under the radio's
lock.  `blind` and `upset` observe: who looked before the entry was made, and whether more than
one thing has gone wrong since all was at rest.

**Actions.**  `Look`, `Register`, `BeatLost`, `Returns`, `NoAnswer` are a station's `start`,
`_beat` and `_recover`; `Connect` to `LooksAgain` are `_connect` and `_wait_for_station`,
`Bind` and `Build` what follows, `Missed`, `Settles`, `Lost`, `Stalls` and `Ends` the recovery around
them; `Start` to `StationStopped` are `Seat._start` and `_stop` with `station_up` and
`station_down`, `Reap` the server's reaper.

**Abstraction.**  The loss budgets, commands the radio refuses and live changes are
`FlexReceiver`'s; a copy that reads of its station's end and one whose IQ stalls do the
same here; a restart is a stop and a start.  Waits are not timed, with one exception: after a
single loss that all saw at the same time, `Turn` keeps the order `STATION_TAKEOVER_S`
times the channel gives (a station that returns, then the lowest channel); after anything
more, any order may happen.  The seat's waits for a process are taken to be long enough.

| Run | Instance | Shows |
|---|---|---|
| `flex_station` | 2 copies, any 4 starts, stops, deaths, broken connections and outages (376,195 states) | `EvictsUnseen`, `KeepsRunning`, `AgreeAgain`, `StationGoes` |

**Bounds.**  Two copies are one that holds the station and one that needs it, with the
process a third holder; four events start both copies and leave two, so that a station dies
while its successor takes over.  Five events and three copies found nothing more in what was
explored of them.

**Fairness.**  Of each station, each copy, the seat and the process: their threads run and
every wait has an end; of the radio only that its keepalive drops a client that is gone.
None on starts, stops, faults or the end of an outage.

## 10. What the runs found

1. `spot_rule_bins`: of three bins on one signal, the middle and strongest one moves a
   copy of an outer one next to the other's, and one transmission counts twice.
2. `feeder_serves`: a `set` between `dry` and `live` waits for the old feeder's link
   to go, not for its process; `_feeder_up` may take the ending process for a feeder
   that will link again and starts none.  Seen with the real programs as well.
3. `flex_held`: a live retune that the radio refuses while calibration holds the pan
   ends the mute, and the decoders get packets of another frequency under our label.
4. `telnet_stop`: a client that logs in while the port stops enters a table that has
   been emptied, and the stop waits for it as long as it stays.

Observed while modelling, without a run:

* `Respot` compares times of uploads, which come in steps of `serverUploadInterval`
  (10 s) and of the post before, so a receiver's own re-spot may be held back although its
  skimmer kept the interval and `RESPOT_SLACK_S` (5 s) is meant for it: with the real
  `upload_loop` and posts of 0.2 to 1 s, 4080 of 13336 re-spots of one receiver;
* a copy that recovers and takes the station's place halts when its registration gets no
  reply, where the comment in `_recover` says "no reply: not ready yet, so wait again":
  `_start_missed` asks the copy's own connection, which missed nothing (seen with the real
  receiver and the tests' fake radio; `NoAnswer` has it);
* after an outage the copies settle at moments up to `RETRY_CONNECT_S` apart, as much as
  one step of the takeover waits: two can look together, and the second evicts the first,
  which `_connect` says the waits prevent.  `AgreeAgain` says they agree in the end;
* the re-spot table of the spot rule is pruned at `REPEAT_S`, so the margin of
  `RESPOT_S` is only waited for by calls whose entry happens not to have been pruned;
* the calls of one text are decided one by one (`spot_rule.py:657-675`): the first of two
  level rivals that one text names is spotted before the second is counted, where the module's
  text (`spot_rule.py:10-13`) says that a tie waits.  No property is stated of the vote: for texts
  that name one call it would only repeat the comparison, and for these it is false;
* the first path's copy and the `+ 1` of the second path count one window twice, so a
  takeover may come one copy short of the tier;
* `_feeder_up` reads the hub twice (`sparkgap_server.py:739`, `:744`): a feeder that is linked at
  the first and has closed its link at the second is not looked for by its pid, and a new one is
  started beside the ending process, where the comment at `:740` says "never a second feeder".
  The other has nothing left to read by then, but a post of its may still be under way;
* the reaper's "an operation began while this looked: it decides" (`sparkgap_server.py:804`) holds for an
  operation still under way.  It holds what it saw through waits of up to 5 s for other
  radios' feeders, and one that began and ended meanwhile is not noticed: a copy was started and
  its feeder is stopped (the exception of `KeepsFeeding`);
* a telnet client that stops reading with lines unsent holds `SpotTelnetServer.stop` as long as
  it keeps its connection: `close` flushes first, and `wait_closed` has no time limit
  (`telnet_server.py:95`, `:100`, `:335`);
* when a copy runs but is not live in time, the operation fails before `_feeder_up`, so
  the feeder is not told of it (`NotLive`);
* `docs/GUI_FEED_PROTOCOL.md` (line 343) says a stop closes clients with 1001; the loop
  is stopped before any close frame can be sent;
* a move of the band clears a slow client's queue with the answer in it (the `dropped`
  exception of `AskAnswered`), where the document says every change is answered; and a
  client whose answer has just come may still be told "busy", for the change leaves the
  queue after its answer.

## 11. What is proved

TLAPS proves the following for every value of the constants that satisfies the
modules' named assumptions (`SpotRuleAssumption`, `FeederControlAssumption`,
`FlexReceiverAssumption`, `RbnPostingAssumption`, `GuiFeedAssumption`,
`TelnetAssumption`, `FlexStationAssumption`); the arguments follow the inductive invariant `IInv` of each
proof module.

`SpotRuleProofs`, for bins that lie in any way: `TypeCorrect`, `SeenAgrees`, `OwnersKeepApart`, `TableRemembers`,
`RespotsKeepInterval`, from `Invariance`, and `OwnersCalled`.  `IInv` is `TypeOK`, `SeenMatchesCopies`,
`OwnersApart` and `SpotsRemembered`: the re-spot interval is a property of steps, and
no step knows the last spot of a key unless the table, or the file while the process
is down, still holds it, so `SpotsRemembered` is what the proof of `RespotInterval` rests on;
the agreement of keys and copies is what types the copy a second bin replaces.  The
start needs `REPEAT_S <= RESPOT_S`: `restore_last_spots` drops by the longer interval.
The lemmas follow the
code: what `AddCopy`, `Decide` and `CountCall` preserve, then what `Feed` does with
three of them in a row.  `OwnersCalled` needs that a sign-off names nobody but the owner there is.

The same module, on any grid of bins: `OneCopy`, `TakeoversEarned`, `SteadyRunnersSpotted`,
`SpotsBacked`, each in every state in which what this life of the process has read is `InEarshot`
(`TakeoversEarned`, a property of steps, while it stays so).  `InEarshot` is a condition on what was
read, not on where the bins are: no three readings of one call within `REPEAT_S` are at bins of which
the middle one hears the outer two and they do not hear each other.  Bins every 100 Hz across a
band satisfy it as long as one signal is decoded within 250 Hz of its frequency (all bins
that read it are then within `NEAR_KHZ` of each other), and so does a call that moves on by
more than 1 kHz; it fails when a strong station is decoded in a chain of bins
that reaches further than `NEAR_KHZ`.  That chain is what finding 1 (section 10) is made of, with bins at 14030.0, 14030.3
and 14030.6 kHz: the theorems say that no other order of readings, however many bins, windows, moves
and expiries it has, makes the rule miscount.  The premise holds in all of `spot_rule_readings`
(two bins) and fails in the behaviour `spot_rule_bins` finds (three).
`TakeoversEarned` assumes as well, as `TakeoverAsLock`, the shipped idle time of an owner
(`takeover_idle_s` is not given at `src/sparkgap.py:2285`, and `src/spot_rule.py:791` then takes
`LOCK_IDLE_S`).  The invariants, each for the next, all but the first under the same premise:

* `Sited`: every copy stands at a bin that read its call, when the copy was taken or later.  So where
  all that was read is in earshot, the bins the copies of a call stand at are too
  (`BinsTogether`, `Within`), and the premise, once it fails, fails until the process ends
  (`StayInEarshot`);
* `Numbered` and `Singled`: windows are numbered in order, one bin each, and no two copies near one
  frequency come from two bins within a window length.  `_same_audio` compares a text with the copies
  near it, and moving a copy brings it near no copy it was not near before, by the premise;
* `Evidence`: every copy was read, in its window, by a bin near it.  With it the copies that
  earn a takeover are readings (`Earned`: an owner is put there by a text, after the tier
  was asked);
* `Seated`, `Spaced`: every recent reading is in a window of its bin, and the windows of a bin are
  a window length apart.  So two readings of one bin are two transmissions;
* `NoneLost`: every reading of the last `REPEAT_S` but a window is covered by a copy, its own or
  the one another bin took of the same transmission, through joins, moves and expiry.  With `Noted` (what the
  table or the file knows was spotted) and the vote's outcome where nobody else is read, this is
  `SteadyRunnersSpotted`;
* `Backed`: from the copies that a spot counted, the readings it rests on are chosen one by one
  (`CopiesBack`), and they are as many.

`FeederControlProofs`: `FeederTypes`, `NeverASecondFeeder`, `InSightFollows`,
`NeverStoppedWhileFed`, `FeederKnowsTheRunning`, from `FeederInvariance`.  `OneFeeder` is not inductive: a
second feeder could be started if an older one were at work while the pid file names
a dead one, so `OneAlive` says that every feeder but the last has closed its link or ended.  Between
the worker's two looks at the hub links come and go: `AgainSees` says that when there is none at
the second, no feeder is at work, for what was linked, or had ended, at the first has
closed its link since.  `HubLives`
says what the hub links has linked and not closed its link.  `ReaperSees` relates what the
reaper holds to the requests since: as long as there was none (`late` is false), no
operation is under way and, if it found that nothing feeds, nothing does; with one, `KeepsFeeding` is
left with its exception.  `Sight` says what the modes of the
feeder in sight are at every step of a worker's operation.  `FedByRunning` speaks of moments
without an operation; `Fed` says what holds in between, that a feeder at work knows every
running receiver but the one `AtHand`, which the operation has taken off the list or not told yet.

`FeederRefinementProofs`: `FeederControlImplementsService`, whatever the faults.  Each
step maps to a step of
`FeederService` or to none: a step that leaves the last feeder and the files alone is
one of `KeptUnseen`; one that moves a feeder is one of the last feeder, for `OneAlive`
says the others have closed their links or ended; a start after the second look finds none at work by
`AgainSees`; a stop is one that `FeederService` allows by `HubLives`, the reaper's included, for
`FeederService` too lets what was found long ago stop a feeder while nothing is asked; a write finds no feeder at work by `Sight` unless it is out of sight.  The one
addition to the invariant is `AtStep`: the worker is at a step its operation has.

`FlexReceiverProofs`: `NeverTwoStreams` and `EndStaysFinal`, from `Invariance`.  `OneStream`
alone does not say why a new stream is the only one: `NoStreamYet` says where in a
recovery the old one is confirmed gone (or its connection closed, which takes its streams along), and
`OneAtATime` that no live change runs beside a recovery.  `Types`, by parts.
`DecodersHearAsTold`, that IQ reaches the decoders for the frequency it was taken on and never our own
transmission, from `Knows`, what the loop knows while it listens: the pan is where the
copy says, or the radio has told otherwise (`CentreKnown`, with `Told` the status
lines read or to be read); so are the queued packets that it will not drop
(`QueueKnown`); while the radio transmits the last word told is the key (`KeyKnown`), and a
packet of ours is held back or the loop silent or about to be (`OwnKnown`); a change mutes it
(`Muted`), and a closed connection has nothing queued (`NothingQueued`).

`RbnPostingProofs`: `Types`; `PostsApart` and `NoneHeldInVain`, from `Rule`: what was let
through stays in the rule's memory for as long as the least interval since
(`Remembered`), and nothing else is there (`OnlyPassed`).  A new list, which may come between two spots of
one upload, only shortens an interval still open, and the prune takes only what no such interval
holds.  That `Readers.set` gives an interval of some receiver needs that a finite set
of naturals has a greatest element, which is proved from the well-foundedness of `<` (`LongestIsOne`).
`NoBacklog` (`FreshPosts`), from `Punctual`: at each place of the upload thread, since when the spots queued
and at hand were read.  `CleanOnlyWhenAsked`, from `MarkedFirst`: the failure is marked before the
dying thread asks for the shutdown, the order `worker` has.

`GuiFeedProofs`: `TypeCorrect`, `PublishedTrue`, `NothingOld`, from `Invariance`.  What a client is
shown depends on everything upstream of it: `InHand` (scanner and tap hold IQ of their own
band), `Carried` (the callbacks queued lead from the band of the feed's hello to the band of the
copy, each message under the band then in force), `FeedNow` (what the feed stores is of its
hello's band) and `ClientNow` (what a client shows and has queued is of one band, up to a
hello in its queue, and of the feed's band after it).

The same module: `NoGaps` (`NoneMissed`), what a client shows and has queued goes on to the feed's latest
windows and spots, none left out and none twice.  It follows from `Ordered`: the
callbacks queued are in the order they were made (`Made`), nothing the feed or a client has is newer
than those (`Before`), and what a client *will* show, when it has read what waits for it, ends in what the feed
keeps (`ShowsKept`).  `WillShow` is a recursive function over the frames; as induction rules are
out of reach, its lemmas (`RunExists`, `RunsAgree`, `AfterMore`, `AfterHead`) take the least number of
frames for which they would fail.

`TelnetServerProofs`: `TypeCorrect`, `EntriesServed`, `LinesInStep`, from `Invariance`: `InStep` says that what
a client has read followed by what is unsent is a run of what was sent, complete while it is in the
table, and `NotYet` that nothing was written to a connection before its login.

`FlexStationProofs`: `TypeCorrect` and `EvictsOnlyUnseen`, from `Invariance`.  `FreeOrBlind` is
the argument: between a station's look and its registration somebody may register, and only then
is it among the `blind`; no other step names another holder.  `NotYetLaunched` is what types the
launch.  The assumption is the names only: channels above 0, a `None` that is no record.

`OthersKeepRunning` (`KeepsRunning`): of one start, stop, death or broken connection at rest no
other copy ends by itself, for any number of copies.  `Order` says, whatever happens, in which
order the seat and a copy work (a first run has no station and no pan yet, only the copy that is
stopped was told to, a holder is live).  `OneThing` says where all are while one thing at most
has happened since rest: while a broken holder is not dropped nobody looks for its place (`CutOff`);
while there is a holder nobody takes its place, and a copy that builds is bound to it (`Served`); while there
is none (`Vacant`) one station at most is there or on its way, the copy that makes one is the
lowest that runs, and no copy waits with a halted station of its own: the last two are `Turn` and
`_wait_for_station`, and without either two copies would go for the place, one of them to end.

**Proved and no longer run.**  `SeenMatchesCopies` and `SpotsRemembered` of the rule,
`FollowsUploadInSight` of the feeder (it also follows from `ImplementsService`) and `EntryServed` of the telnet port hold by their theorems for every
instance; no run repeats them.

**Model-checked only.**  Liveness everywhere, for which TLAPS has no rule of fairness here:
`RequestsAnswered` and `OrphanFeederEnds` of the feeder control, `RecoveryEnds` and `HearsAgain` of
the receiver, `AskAnswered` and `EveryoneMoves` of the browser feed, `StopEndsForServed` of the telnet port,
`AgreeAgain` and `StationGoes` of the stations.  Every safety and action property that a passing run checks is a
theorem; four of the spot rule's hold while what was read is `InEarshot`, whose failure is finding 1.

## 12. Not modelled

Most of the repository is signal processing (the decoders, the scanners, the engine),
packet and file formats, and input and output; the models are of its control, and
cover a small share of its lines.  Radio discovery, config
files, HTTP bodies, the web page and the command line are input and output; voice,
tools and evaluation are not part of the running program; the recorder and the
rosters write and fetch files.  Discrete and left for later: the locks and the undo of the seat, the hub's pending commands
and proxied feeds, the HPSDR ring and its proxy, the dispatcher of the C decoders and the FT8
windows of the daemon.  `PROJECT.json` gives the reason for each under `components`.
