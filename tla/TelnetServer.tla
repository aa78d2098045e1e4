---------------------------- MODULE TelnetServer ----------------------------
(***************************************************************************)
(* The DX cluster port of a copy (telnet_server.py): the table of its      *)
(* clients, the spots written to them by the loop and handed to it by the  *)
(* FT8 thread, a client that does not read, and the stop.                  *)
(*                                                                         *)
(* A client is in the table from its login until its handler ends, it is   *)
(* dropped, or the port stops.  Closing a connection flushes what is       *)
(* unsent first, however long its client takes to read it, and wait_closed *)
(* waits for every connection, as it does since Python 3.12.  Left out:    *)
(* the form of a line, and the commands that only print.                   *)
(***************************************************************************)
EXTENDS Naturals, Sequences

CONSTANTS
  Clients,             \* connections, each made once
  MAX_CLIENT_BUFFER,   \* in lines
  MaxSpots             \* bound: spots made

ASSUME TelnetAssumption == MAX_CLIENT_BUFFER \in Nat /\ MaxSpots \in Nat

VARIABLES
  server,     \* "up", "closing" (stop waits), "down"
  table,      \* _clients
  handler,    \* "none", "login", "commands", "over"
  conn,       \* its transport: "none", "open", "closing", "closed"
  buffer,     \* lines unsent
  calls,      \* spots handed to the loop
  spots,      \* spots made
  \* history
  sent,       \* spots the loop has written to the table
  since,      \* how many when the client came
  got,        \* lines a client has read
  early       \* connections at their login when the stop came

clients == <<table, handler, conn, since, early>>
lines == <<buffer, got>>
vars == <<server, clients, lines, calls, spots, sent>>

Init ==
  /\ server = "up" /\ table = {} /\ calls = <<>> /\ spots = 0 /\ sent = <<>> /\ early = {}
  /\ handler = [c \in Clients |-> "none"] /\ conn = [c \in Clients |-> "none"]
  /\ since = [c \in Clients |-> 0]
  /\ buffer = [c \in Clients |-> <<>>] /\ got = [c \in Clients |-> <<>>]

-----------------------------------------------------------------------------
(* Connections.                                                            *)

Closed(S) == [c \in Clients |-> IF c \in S /\ conn[c] = "open" THEN "closing" ELSE conn[c]]

Connect(c) ==
  /\ server = "up" /\ conn[c] = "none"
  /\ conn' = [conn EXCEPT ![c] = "open"] /\ handler' = [handler EXCEPT ![c] = "login"]
  /\ UNCHANGED <<server, table, since, early, lines, calls, spots, sent>>

\* Its call read and its prompt sent, it is in the table.
Login(c) ==
  /\ handler[c] = "login" /\ conn[c] = "open"
  /\ handler' = [handler EXCEPT ![c] = "commands"]
  /\ table' = table \cup {c} /\ since' = [since EXCEPT ![c] = Len(sent)]
  /\ UNCHANGED <<server, conn, early, lines, calls, spots, sent>>

OutOfTable(c) == table \ {c}

\* The end of _handle_client (its finally).
Finally(c) ==
  /\ handler' = [handler EXCEPT ![c] = "over"] /\ table' = OutOfTable(c)
  /\ conn' = Closed({c})
  /\ UNCHANGED <<server, since, early, lines, calls, spots, sent>>

\* No call within 60 s.
LoginTimeout(c) == handler[c] = "login" /\ conn[c] = "open" /\ Finally(c)

\* bye.
Bye(c) == handler[c] = "commands" /\ Finally(c)

\* set/ve7cc from a line read before the client was dropped: its entry is gone.
StaleCommand(c) == handler[c] = "commands" /\ c \notin table /\ Finally(c)

\* The end of the connection is read.
ReadsEnd(c) == handler[c] \in {"login", "commands"} /\ conn[c] = "closed" /\ Finally(c)

\* The other side goes.
HangsUp(c) ==
  /\ conn[c] \in {"open", "closing"}
  /\ conn' = [conn EXCEPT ![c] = "closed"] /\ buffer' = [buffer EXCEPT ![c] = <<>>]
  /\ UNCHANGED <<server, table, handler, since, early, got, calls, spots, sent>>

\* A closing transport is done when nothing is unsent.
Flushed(c) ==
  /\ conn[c] = "closing" /\ buffer[c] = <<>>
  /\ conn' = [conn EXCEPT ![c] = "closed"]
  /\ UNCHANGED <<server, table, handler, since, early, lines, calls, spots, sent>>

Reads(c) ==
  /\ conn[c] \in {"open", "closing"} /\ buffer[c] # <<>>
  /\ got' = [got EXCEPT ![c] = Append(@, Head(buffer[c]))]
  /\ buffer' = [buffer EXCEPT ![c] = Tail(@)]
  /\ UNCHANGED <<server, clients, calls, spots, sent>>

-----------------------------------------------------------------------------
(* Spots.                                                                  *)

StalledNever == {}                                               \* mutant
Stalled == {c \in table : Len(buffer[c]) > MAX_CLIENT_BUFFER}

\* A transport whose connection is lost takes a line and drops it.
Written(S, n) ==
  [c \in Clients |-> IF c \in S /\ conn[c] # "closed" THEN Append(buffer[c], n) ELSE buffer[c]]

SkipsStalled(n) ==                                               \* mutant
  /\ buffer' = Written(table \ Stalled, n)
  /\ sent' = Append(sent, n) /\ UNCHANGED <<table, conn>>

\* One spot to every client; a stalled one is dropped.
Send(n) ==
  /\ buffer' = Written(table \ Stalled, n)
  /\ table' = table \ Stalled /\ conn' = Closed(Stalled)
  /\ sent' = Append(sent, n)

\* The copy's loop, until the copy stops.
SpotOnLoop ==
  /\ server = "up" /\ table # {} /\ spots < MaxSpots
  /\ spots' = spots + 1 /\ Send(spots + 1)
  /\ UNCHANGED <<server, handler, since, early, got, calls>>

\* The FT8 thread looks whether there is a client, and hands the lines to the loop.
SpotOffLoop ==
  /\ table # {} /\ spots < MaxSpots
  /\ spots' = spots + 1 /\ calls' = Append(calls, spots + 1)
  /\ UNCHANGED <<server, clients, lines, sent>>

RunCall ==
  /\ calls # <<>> /\ Send(Head(calls)) /\ calls' = Tail(calls)
  /\ UNCHANGED <<server, handler, since, early, got, spots>>

-----------------------------------------------------------------------------
(* The stop.                                                               *)

ClosesNone == {}                                                 \* mutant
ClosedFirst == table

\* stop closes the clients first.
Stop ==
  /\ server = "up" /\ server' = "closing"
  /\ conn' = Closed(ClosedFirst) /\ table' = {}
  /\ early' = {c \in Clients : handler[c] = "login"}
  /\ UNCHANGED <<handler, since, lines, calls, spots, sent>>

\* wait_closed returns.
Stopped ==
  /\ server = "closing" /\ \A c \in Clients : conn[c] \in {"none", "closed"}
  /\ server' = "down"
  /\ UNCHANGED <<clients, lines, calls, spots, sent>>

Client(c) == Connect(c) \/ Login(c) \/ Bye(c) \/ StaleCommand(c) \/ HangsUp(c)
Port(c) == LoginTimeout(c) \/ ReadsEnd(c) \/ Flushed(c)

Next ==
  \/ \E c \in Clients : Client(c) \/ Port(c) \/ Reads(c)
  \/ SpotOnLoop \/ SpotOffLoop \/ RunCall \/ Stop \/ Stopped

\* Timers fire and the loop runs what is due.  A client need not read, go or log in.
Fairness ==
  /\ \A c \in Clients : WF_vars(LoginTimeout(c)) /\ WF_vars(ReadsEnd(c)) /\ WF_vars(Flushed(c))
  /\ WF_vars(RunCall) /\ WF_vars(Stopped)

Spec == Init /\ [][Next]_vars /\ Fairness

-----------------------------------------------------------------------------
(* Properties.                                                             *)

TypeOK ==
  /\ server \in {"up", "closing", "down"} /\ table \subseteq Clients /\ early \subseteq Clients
  /\ handler \in [Clients -> {"none", "login", "commands", "over"}]
  /\ conn \in [Clients -> {"none", "open", "closing", "closed"}]
  /\ since \in [Clients -> Nat] /\ spots \in 0..MaxSpots
  /\ {calls, sent} \subseteq Seq(1..MaxSpots)
  /\ buffer \in [Clients -> Seq(1..MaxSpots)] /\ got \in [Clients -> Seq(1..MaxSpots)]
  /\ \A c \in Clients : Len(buffer[c]) <= MAX_CLIENT_BUFFER + 1

\* What a client reads is what the loop wrote since it came, in order and without
\* a gap; of a client in the table not one line is missing, whichever thread
\* made the spot and however slowly the client reads (_send).
NoGap ==
  \A c \in Clients :
    LET sure == got[c] \o buffer[c]
    IN /\ \A i \in DOMAIN sure : since[c] + i <= Len(sent) /\ sure[i] = sent[since[c] + i]
       /\ c \in table /\ conn[c] # "closed" => since[c] + Len(sure) = Len(sent)

\* A client in the table is being served: no entry outlives its handler.
EntryServed == \A c \in table : handler[c] = "commands" /\ conn[c] # "none"

\* No client leaves lines unread for ever: it reads them, or its connection breaks.
ClientsRead == \A c \in Clients : []<>(buffer[c] = <<>> \/ conn[c] = "closed")

\* A stop that meets no login ends, if no client leaves lines unread for ever (stop,
\* which closes every client of the table): the dropped ones, the ones that said bye
\* and the ones whose line or timeout comes during the stop do not hold it.
StopEndsForServed == ClientsRead => ((server = "closing" /\ early = {}) ~> server = "down")

\* "Close clients first: since Python 3.12 wait_closed() waits for them" (stop): a stop
\* ends, at least if no client leaves lines unread for ever.
StopEnds == ClientsRead => (server = "closing" ~> server = "down")
=============================================================================
