------------------------------ MODULE SpotRule ------------------------------
(***************************************************************************)
(* The repeat-evidence spot rule: class RepeatSpotRule of spot_rule.py as  *)
(* SpotTracker.process_intent drives it, and the re-spot table that        *)
(* spot_rule_memory carries over a restart of the process (sparkgap.py).   *)
(*                                                                         *)
(* A bin decodes one window of audio after another and each window gives   *)
(* up to two texts (the two low-pass paths).  Every text is fed to the     *)
(* rule, which counts the calls the text names as copies, keeps the owner  *)
(* of each frequency, and returns the calls to spot.                       *)
(*                                                                         *)
(* A text is abstracted to what the rule asks of it: the CQ groups that    *)
(* name a call (each with the call standing right before its keyword, or   *)
(* None), the calls that are tokens of it, and those that sign off in it.  *)
(* A bin is identified with its frequency.  Options that change what a     *)
(* text says or what decides are left out: window_join, runner_signs,      *)
(* fragments, owner_listed and strongest_db, which no shipped              *)
(* configuration sets, and spot_validation, which the examples for the     *)
(* Flex and the HPSDR set to "normal" and which puts a validator in the    *)
(* place of the tier count and of the vote (Decide).  What is modelled is  *)
(* the rule without it.  takeover_idle_s, owner_cell and                   *)
(* owned_two_windows, which change the control, are constants.             *)
(***************************************************************************)
EXTENDS Integers, Sequences, FiniteSets

CONSTANTS
  Calls,              \* callsigns
  Tier,               \* call -> the copies it needs (2 active, 3 rare, 4 unknown)
  OneEdit,            \* pairs of calls one edit apart (_lev1)
  Texts,              \* what a decoded window can say
  Freqs,              \* frequencies of the bins
  MaxSnr,             \* the levels of signal strength told apart
  None,               \* no call, no spot
  NEAR, MOVE, CELL, BAND,                 \* NEAR_KHZ, MOVE_KHZ, the owner's cell, 1 MHz
  REPEAT_S, RESPOT_S, LOCK_IDLE_S, TAKEOVER_IDLE_S, WINDOW_S, PRUNE_S,
  TWO_WINDOWS,        \* owned_two_windows
  SECOND_PATH,        \* whether the second low-pass path of a window gives a text too
  MaxTime, MaxWindows \* bounds: the last instant, windows one process opens

Snrs == 1..MaxSnr
MaxGroups == 2        \* bound: CQ groups of one text
Abs(x) == IF x < 0 THEN -x ELSE x
Band(f) == f \div BAND
Keys == Calls \X {Band(f) : f \in Freqs}

Group == [call : Calls, after : Calls \cup {None}]
Text == [groups : Seq(Group), tokens : SUBSET Calls, signs : SUBSET Calls]
Spot == [time : Int, freq : Freqs]

ASSUME SpotRuleAssumption ==
  /\ None \notin Calls /\ None \notin Spot
  /\ Tier \in [Calls -> Nat \ {0}]
  /\ OneEdit \subseteq Calls \X Calls /\ \A c \in Calls : <<c, c>> \notin OneEdit
  /\ \A t \in Texts : /\ t.groups \in Seq(Group) /\ Len(t.groups) <= MaxGroups
                      /\ t.tokens \subseteq Calls /\ t.signs \subseteq t.tokens
                      /\ \A i \in DOMAIN t.groups : t.groups[i].call \in t.tokens
  /\ Freqs \subseteq Nat /\ MaxSnr \in Nat
  /\ {NEAR, MOVE, CELL, REPEAT_S, RESPOT_S, LOCK_IDLE_S, TAKEOVER_IDLE_S,
      WINDOW_S, PRUNE_S, MaxTime, MaxWindows} \subseteq Nat
  /\ BAND \in Nat \ {0}
  /\ CELL <= NEAR
  /\ REPEAT_S <= RESPOT_S
  /\ TWO_WINDOWS \in BOOLEAN /\ SECOND_PATH \in BOOLEAN

VARIABLES
  running,      \* the skimmer process is up
  now,          \* the tracker's clock
  copies,       \* _copies
  seen,         \* _seen: <<window, call, nth>>
  owners,       \* _owners
  windows,      \* _window_ids and _bins: the windows not yet pruned
  nextWindow,   \* _next_window
  pruned,       \* _pruned: when the tables were last pruned
  lastSpot,     \* _last_spot
  memory,       \* the spot_rule_memory file
  heard,        \* observer: every counted reading of a call since the start
  spotted,      \* observer: the last spot of each key a restart must remember
  out           \* what feed returned, until the next step

rule == <<copies, seen, owners, windows, nextWindow, pruned, lastSpot>>
vars == <<running, now, rule, memory, heard, spotted, out>>

Copy == [time : Int, window : Nat, call : Calls, freq : Freqs, snr : Snrs, nth : Nat]
Owner == [call : Calls, freq : Freqs, last : Int]
Window == [id : Nat, bin : Freqs, first : Int]

-----------------------------------------------------------------------------
(* Copies near a frequency, and the owner of it.                           *)

Near(f, g) == Abs(f - g) <= NEAR

CopiesOf(cs, call, f) == {c \in cs : c.call = call /\ Near(c.freq, f)}

Count(cs, call, f) == Cardinality(CopiesOf(cs, call, f))

\* owner(): the live owner nearest f; of two as near, the one that came first.
LiveOwners(os, f, t, idle) == {o \in os : Near(o.freq, f) /\ t - o.last <= idle}

OwnerOf(os, f, t, idle) ==
  LET live == LiveOwners(os, f, t, idle)
      nearest(o) == \A p \in live : \/ Abs(o.freq - f) < Abs(p.freq - f)
                                    \/ Abs(o.freq - f) = Abs(p.freq - f) /\ o.last <= p.last
  IN IF live = {} THEN None ELSE (CHOOSE o \in live : nearest(o)).call

OwnBesideOthers(os, call, f, t) ==                               \* mutant
  {o \in os : t - o.last <= LOCK_IDLE_S} \cup {[call |-> call, freq |-> f, last |-> t]}

\* _own()
Own(os, call, f, t) ==
  {o \in os : Abs(o.freq - f) > CELL /\ t - o.last <= LOCK_IDLE_S}
     \cup {[call |-> call, freq |-> f, last |-> t]}

\* _truer_call()
Truer(call, owner) == <<call, owner>> \in OneEdit /\ Tier[call] < Tier[owner]

-----------------------------------------------------------------------------
(* _lockon_calls: the calls a reading counts as copies of.  lk carries the *)
(* owners and the calls so far; rd is the reading; cs the copies held.     *)

Counts(lk, call) == [lk EXCEPT !.calls = Append(@, call)]

CountsAndOwns(lk, rd, call) ==
  [calls |-> Append(lk.calls, call), owners |-> Own(lk.owners, call, rd.freq, rd.time)]

EnoughAtOnce(cs, call, f) == TRUE                                \* mutant

\* A challenger's copies here, with this one, reach its tier.
Enough(cs, call, f) == Count(cs, call, f) + 1 >= Tier[call]

ReadGroup(lk, rd, cs, i) ==
  IF i \notin DOMAIN rd.text.groups THEN lk
  ELSE LET g == rd.text.groups[i]
           owner == OwnerOf(lk.owners, rd.freq, rd.time, TAKEOVER_IDLE_S)
           signing == g.after # None /\ g.after # g.call /\ owner = g.after
           challenges == owner # None /\ owner # g.call
           garble == owner \in rd.text.tokens /\ ~Truer(g.call, owner)
           enough == Enough(cs, g.call, rd.freq)
       IN CASE signing                             -> lk
            [] ~signing /\ challenges /\ garble    -> lk
            [] ~signing /\ challenges /\ ~garble /\ ~enough -> Counts(lk, g.call)
            [] OTHER                               -> CountsAndOwns(lk, rd, g.call)

SignOffOfAnyone(lk, rd) ==                                       \* mutant
  IF rd.text.signs = {} THEN lk
  ELSE CountsAndOwns(lk, rd, CHOOSE call \in rd.text.signs : TRUE)

ReadSignOff(lk, rd) ==
  LET owner == OwnerOf(lk.owners, rd.freq, rd.time, LOCK_IDLE_S)
  IN IF owner \in rd.text.signs /\ \A i \in DOMAIN lk.calls : lk.calls[i] # owner
     THEN CountsAndOwns(lk, rd, owner)
     ELSE lk

LockonCalls(os, rd, cs) ==
  LET start == [owners |-> os, calls |-> <<>>]
  IN ReadSignOff(ReadGroup(ReadGroup(start, rd, cs, 1), rd, cs, 2), rd)

-----------------------------------------------------------------------------
(* feed, per call: add the copies, then decide.  r carries what the loop   *)
(* over the calls changes: copies, seen, lastSpot and the spots found.     *)

First(cs) == CHOOSE c \in cs : \A d \in cs :
               c.window < d.window \/ (c.window = d.window /\ c.nth <= d.nth)

SameAudioTooLate(r, rd, call, wins) ==                           \* mutant
  {c \in CopiesOf(r.copies, call, rd.freq) : rd.time - c.time > WINDOW_S}

SameAudioOfOwnBin(r, rd, call, wins) ==                          \* mutant
  {c \in CopiesOf(r.copies, call, rd.freq) : rd.time - c.time <= WINDOW_S}

\* _same_audio: the copies another bin took of the same transmission.
SameAudio(r, rd, call, wins) ==
  {c \in CopiesOf(r.copies, call, rd.freq) :
     /\ rd.time - c.time < WINDOW_S
     /\ \E v \in wins : v.id = c.window /\ v.bin # rd.freq}

AddCopy(r, rd, call, nth, wins) ==
  LET key == <<rd.window, call, nth>>
      same == SameAudio(r, rd, call, wins)
      c == First(same)
  IN CASE key \in r.seen -> r
       [] key \notin r.seen /\ same # {} /\ rd.snr > c.snr ->
            [r EXCEPT !.copies = (@ \ {c}) \cup {[c EXCEPT !.freq = rd.freq, !.snr = rd.snr]}]
       [] key \notin r.seen /\ same # {} /\ rd.snr <= c.snr -> r
       [] OTHER ->
            [r EXCEPT !.seen = @ \cup {key},
                      !.copies = @ \cup {[time |-> rd.time, window |-> rd.window, call |-> call,
                                          freq |-> rd.freq, snr |-> rd.snr, nth |-> nth]}]

Best(cs) == First({c \in cs : \A d \in cs : d.snr <= c.snr})

\* The vote: a call one edit away has as many copies here.
Undecided(cs, call, f) ==
  \E d \in Calls : <<d, call>> \in OneEdit /\ Count(cs, d, f) >= Count(cs, call, f)

\* The rule's own decision; with spot_validation a validator takes the place of its
\* first two conditions.
Decide(r, rd, call, owned) ==
  LET mine == CopiesOf(r.copies, call, rd.freq)
      waits == owned # None /\ owned # call /\ Cardinality({c.window : c \in mine}) < 2
      f == Best(mine).freq
      key == <<call, Band(f)>>
      last == r.lastSpot[key]
      due == \/ last = None
             \/ rd.time - last.time >= RESPOT_S
             \/ Abs(f - last.freq) >= MOVE
  IN IF \/ Undecided(r.copies, call, rd.freq)
        \/ Cardinality(mine) < Tier[call]
        \/ waits \/ ~due
     THEN r
     ELSE [r EXCEPT !.lastSpot[key] = [time |-> rd.time, freq |-> f],
                    !.out = @ \cup {[call |-> call, freq |-> f]}]

\* The i-th call of the reading, once, with all its groups.
CountCall(r, rd, calls, i, owned, wins) ==
  IF i > Len(calls) \/ \E j \in 1..(i - 1) : calls[j] = calls[i]
  THEN r
  ELSE LET once == AddCopy(r, rd, calls[i], 0, wins)
           again == \E j \in (i + 1)..Len(calls) : calls[j] = calls[i]
       IN Decide(IF again THEN AddCopy(once, rd, calls[i], 1, wins) ELSE once,
                 rd, calls[i], owned)

-----------------------------------------------------------------------------
(* Actions.                                                                *)

NoKeys == [k \in {} |-> None]                                    \* mutant

NoSpots == [k \in Keys |-> None]

Init ==
  /\ running = TRUE /\ now = 0
  /\ copies = {} /\ seen = {} /\ owners = {} /\ windows = {}
  /\ nextWindow = 0 /\ pruned = -PRUNE_S
  /\ lastSpot = NoSpots /\ memory = NoSpots /\ spotted = NoSpots
  /\ heard = {} /\ out = {}

\* The id the reading's window has: the bin's next window, or the window of
\* the bin whose first path has just been fed.
WindowIds(f) ==
  {w \in {nextWindow} : /\ nextWindow < MaxWindows
                        /\ \A v \in windows : v.bin = f => now - v.first >= WINDOW_S}
  \cup {v.id : v \in {v \in windows : /\ SECOND_PATH /\ v.id = nextWindow - 1
                                      /\ v.bin = f /\ v.first = now}}

\* _expire, its once-a-minute part
Fresh(wins) == IF now - pruned >= PRUNE_S THEN {v \in wins : v.first >= now - REPEAT_S} ELSE wins
FreshSpotsTooFew ==                                              \* mutant
  [k \in Keys |-> IF lastSpot[k] # None /\ lastSpot[k].time < now - WINDOW_S
                  THEN None ELSE lastSpot[k]]

FreshSpots ==
  IF now - pruned >= PRUNE_S
  THEN [k \in Keys |-> IF lastSpot[k] # None /\ lastSpot[k].time < now - REPEAT_S
                       THEN None ELSE lastSpot[k]]
  ELSE lastSpot
FreshCopiesKept == copies                                        \* mutant

FreshCopies == {c \in copies : c.time >= now - REPEAT_S}

FreshSeen == seen \ {<<c.window, c.call, c.nth>> : c \in copies \ FreshCopies}

\* process_intent: window_id, then feed.
Feed(f, text, snr) ==
  /\ running
  /\ \E w \in WindowIds(f) :
       LET rd == [window |-> w, freq |-> f, text |-> text, snr |-> snr, time |-> now]
           wins == Fresh(windows \cup (IF w = nextWindow THEN {[id |-> w, bin |-> f, first |-> now]}
                                       ELSE {}))
           owned == IF TWO_WINDOWS THEN OwnerOf(owners, f, now, TAKEOVER_IDLE_S) ELSE None
           lk == LockonCalls(owners, rd, FreshCopies)
           r0 == [copies |-> FreshCopies, seen |-> FreshSeen, lastSpot |-> FreshSpots, out |-> {}]
           r1 == CountCall(r0, rd, lk.calls, 1, owned, wins)
           r2 == CountCall(r1, rd, lk.calls, 2, owned, wins)
           r3 == CountCall(r2, rd, lk.calls, 3, owned, wins)
       IN /\ copies' = r3.copies /\ seen' = r3.seen /\ lastSpot' = r3.lastSpot /\ out' = r3.out
          /\ owners' = lk.owners
          /\ windows' = wins
          /\ nextWindow' = IF w = nextWindow THEN w + 1 ELSE nextWindow
          /\ pruned' = IF now - pruned >= PRUNE_S THEN now ELSE pruned
          /\ heard' = heard \cup {[call |-> lk.calls[i], window |-> w, bin |-> f, time |-> now,
                                   nth |-> Cardinality({j \in 1..(i - 1) : lk.calls[j] = lk.calls[i]}),
                                   byCq |-> \E g \in DOMAIN text.groups : text.groups[g].call = lk.calls[i]]
                                  : i \in DOMAIN lk.calls}
          /\ spotted' = [k \in Keys |-> IF \E s \in r3.out : k = <<s.call, Band(s.freq)>>
                                        THEN r3.lastSpot[k] ELSE spotted[k]]
  /\ UNCHANGED <<running, now, memory>>

Tick ==
  /\ now < MaxTime
  /\ now' = now + 1 /\ out' = {}
  /\ UNCHANGED <<running, rule, memory, heard, spotted>>

\* _save_spot_memory at the status interval
Save ==
  /\ running
  /\ memory' = lastSpot /\ out' = {}
  /\ UNCHANGED <<running, now, rule, heard, spotted>>

Down ==
  /\ running' = FALSE
  /\ copies' = {} /\ seen' = {} /\ owners' = {} /\ windows' = {}
  /\ nextWindow' = 0 /\ pruned' = -PRUNE_S /\ lastSpot' = NoSpots
  /\ heard' = {} /\ out' = {}
  /\ UNCHANGED now

\* stop(): the table is saved as the process ends.
Stop ==
  /\ running
  /\ memory' = lastSpot
  /\ UNCHANGED spotted
  /\ Down

\* The process dies: what it spotted after the last save is not remembered.
Crash ==
  /\ running
  /\ spotted' = memory
  /\ UNCHANGED memory
  /\ Down

\* start(): restore_last_spots keeps the entries younger than RESPOT_S.
Start ==
  /\ ~running
  /\ running' = TRUE /\ out' = {}
  /\ lastSpot' = [k \in Keys |-> IF memory[k] # None /\ now - memory[k].time < RESPOT_S
                                 THEN memory[k] ELSE None]
  /\ UNCHANGED <<now, copies, seen, owners, windows, nextWindow, pruned, memory, heard, spotted>>

Decode == \E f \in Freqs, text \in Texts, snr \in Snrs : Feed(f, text, snr)

Next ==
  \/ Decode
  \/ Tick
  \/ Save
  \/ Stop
  \/ Crash
  \/ Start

Spec == Init /\ [][Next]_vars

\* One life of the process, for the properties that no restart can disturb: what
\* they speak of is gone when the process is.
LifeSpec == Init /\ [][Decode \/ Tick]_vars

-----------------------------------------------------------------------------
(* Properties.                                                             *)

\* Every variable has its type.
TypeOK ==
  /\ running \in BOOLEAN /\ now \in Nat
  /\ copies \subseteq Copy /\ seen \subseteq Nat \X Calls \X Nat
  /\ owners \subseteq Owner /\ windows \subseteq Window
  /\ nextWindow \in Nat /\ pruned \in Int
  /\ lastSpot \in [Keys -> Spot \cup {None}]
  /\ memory \in [Keys -> Spot \cup {None}]
  /\ spotted \in [Keys -> Spot \cup {None}]

\* The set of window/call/group keys that feed has counted is exactly the set of
\* the copies still held, each held once: a key that outlived its copy would
\* keep a window from counting, a copy that lost its key would count it twice.
SeenMatchesCopies ==
  /\ seen = {<<c.window, c.call, c.nth>> : c \in copies}
  /\ \A c, d \in copies : <<c.window, c.call, c.nth>> = <<d.window, d.call, d.nth>> => c = d

\* Two owners are never in one cell: _own replaces every owner within it.
OwnersApart ==
  \A o, p \in owners : o # p => Abs(o.freq - p.freq) > CELL

\* "A call never named by a CQ group never owns a frequency": the sign-offs of a
\* caller cannot promote him.
OwnerCalledCq ==
  \A o \in owners : \E h \in heard : h.call = o.call /\ h.byCq

\* A live owner loses the frequency a text was read on only to a call that has
\* been heard there in all but one of the copies its tier asks for.
TakeoverEarned ==
  [][\A o \in owners' \ owners :
       LET before == OwnerOf(owners, o.freq, now, TAKEOVER_IDLE_S)
           heardHere == {h \in heard' : h.call = o.call /\ Near(h.bin, o.freq)}
       IN before \notin {None, o.call} => Cardinality(heardHere) >= Tier[o.call] - 1]_vars

\* One transmission counts once: copies of a call near one frequency that two bins
\* took are at least a window length apart.
OneTransmissionOneCopy ==
  \A c, d \in copies, v, u \in windows :
     /\ c.call = d.call /\ Near(c.freq, d.freq)
     /\ v.id = c.window /\ u.id = d.window /\ v.bin # u.bin
     => Abs(c.time - d.time) >= WINDOW_S

\* A spot rests on tier(call) readings of the call within REPEAT_S, no two of
\* which are one transmission heard by two bins.
Independent(h, g) == h.bin # g.bin => Abs(h.time - g.time) >= WINDOW_S

SpotsCorroborated ==
  \A s \in out :
    LET recent == {h \in heard : h.call = s.call /\ now - h.time <= REPEAT_S}
    IN \E witness \in SUBSET recent :
         /\ Cardinality(witness) = Tier[s.call]
         /\ \A h, g \in witness : Independent(h, g)

\* A runner alone on the band, read in tier(call) windows of one bin within
\* REPEAT_S less one window length, has been spotted: no step on the way loses a
\* copy for good.  (The window length is the age of the copy another bin may hold
\* in place of this bin's: it expires that much earlier.)
SteadyRunnerSpotted ==
  \A call \in Calls, f \in Freqs :
     /\ \A h \in heard : h.call = call
     /\ Cardinality({h.window : h \in {g \in heard : g.bin = f /\ now - g.time <= REPEAT_S - WINDOW_S}})
          >= Tier[call]
     => \E k \in Keys : k[1] = call /\ spotted[k] # None

\* A spot the process made, or a restart had a chance to remember, is still in the
\* table while the process is up and in the file while it is down, until REPEAT_S
\* has passed: neither the pruning nor a stop and a start drops it sooner.
Remembers(table) ==
  \A k \in Keys : spotted[k] # None =>
     table[k] = spotted[k] \/ (table[k] = None /\ now - spotted[k].time >= REPEAT_S)

SpotsRemembered == Remembers(IF running THEN lastSpot ELSE memory)

\* A call is spotted again on a band within REPEAT_S only when it has moved, also
\* after a restart, for every spot the restart had a chance to remember.
RespotInterval ==
  [][\A s \in out' :
       LET last == spotted[<<s.call, Band(s.freq)>>]
       IN last # None => now - last.time >= REPEAT_S \/ Abs(s.freq - last.freq) >= MOVE]_vars

=============================================================================
