---------------------------- MODULE FeederService ----------------------------
(***************************************************************************)
(* What the server promises of a radio's RBN feeder, whoever asks and      *)
(* whatever dies: there is one at work or none; an operation starts it,    *)
(* when the upload is not off; it posts in the mode the radio's file       *)
(* names; it is stopped for a new mode, with the last receiver, or because *)
(* none ran when the server last looked and nothing is asked now.  Nothing *)
(* is promised of a feeder once one has been out of the server's sight.    *)
(*                                                                         *)
(* FeederControl implements it with a queue, a hub, a pid file, a reaper   *)
(* and a list of processes: none of them is seen here.                     *)
(***************************************************************************)
CONSTANTS
  Receivers,    \* the receivers of the radio
  Modes,        \* what rbn_upload may be, "off" among them
  Op,           \* what may be asked: a record of cmd, r and mode
  None          \* nothing is asked

VARIABLES
  copies,       \* the receivers that run
  upload,       \* rbn_upload in the radio's file
  asked,        \* the operation under way
  stage, mode,  \* the feeder, and the mode it posts in
  found,        \* the server has looked and found that no receiver runs
  sight         \* no feeder has been out of the server's sight

vars == <<copies, upload, asked, stage, mode, found, sight>>

Init ==
  /\ copies = {} /\ upload \in Modes /\ asked = None
  /\ stage = "none" /\ mode = "off" /\ found = FALSE /\ sight = TRUE

-----------------------------------------------------------------------------
(* The operation under way.                                                *)

Asked(cmds) == asked # None /\ asked.cmd \in cmds

Ask ==
  /\ asked = None /\ asked' \in Op
  /\ UNCHANGED <<copies, upload, stage, mode, found>>

Answer ==
  /\ asked # None /\ asked' = None
  /\ UNCHANGED <<copies, upload, stage, mode, found>>

\* The operation goes on, or is answered with this step.
OnOrAnswered == asked' \in {asked, None}

CopyStarts ==
  /\ Asked({"start", "restart"})
  /\ copies' = copies \cup {asked.r}
  /\ UNCHANGED <<upload, asked, stage, mode, found>>

CopyStops ==
  /\ Asked({"stop", "restart"})
  /\ copies' = copies \ {asked.r} /\ OnOrAnswered
  /\ UNCHANGED <<upload, stage, mode, found>>

\* rbn_upload changes only when no feeder works by the old one.
UploadSet ==
  /\ Asked({"set"}) /\ stage \in {"none", "ending"}
  /\ upload' = asked.mode /\ OnOrAnswered
  /\ UNCHANGED <<copies, stage, mode, found>>

CopyDies ==
  /\ \E r \in copies : copies' = copies \ {r}
  /\ UNCHANGED <<upload, asked, stage, mode, found>>

-----------------------------------------------------------------------------
(* The feeder.                                                             *)

\* For a start, a restart or a new mode; a copy that ran may have died by now.
FeederStarts ==
  /\ Asked({"start", "restart", "set"})
  /\ stage = "none" /\ upload # "off"
  /\ stage' = "starting"
  /\ UNCHANGED <<copies, upload, asked, mode, found>>

FeederPosts ==
  /\ stage = "starting" /\ upload # "off"
  /\ stage' = "posting" /\ mode' = upload
  /\ UNCHANGED <<copies, upload, asked, found>>

\* The server looks, begun while nothing was asked, and sooner or later acts on it.
Look ==
  /\ copies = {}
  /\ found' = TRUE
  /\ UNCHANGED <<copies, upload, asked, stage, mode>>

LookEnds ==
  /\ found' = FALSE
  /\ UNCHANGED <<copies, upload, asked, stage, mode>>

\* A feeder is told to stop to follow a new mode, with the last receiver, or because of
\* the look, with nothing asked; what was asked and answered since the look goes
\* unnoticed.
FeederTold ==
  /\ stage = "posting"
  /\ \/ Asked({"set"}) /\ UNCHANGED found
     \/ Asked({"stop", "restart"}) /\ copies \subseteq {asked.r} /\ UNCHANGED found
     \/ asked = None /\ found /\ found' = FALSE
  /\ stage' = "ending"
  /\ UNCHANGED <<copies, upload, asked, mode>>

\* It has ended: told, of itself, or because its upload is off.
FeederEnds ==
  /\ stage # "none"
  /\ stage' = "none" /\ mode' = "off"
  /\ UNCHANGED <<copies, upload, asked, found>>

Seen ==
  \/ Ask \/ Answer
  \/ CopyStarts \/ CopyStops \/ UploadSet \/ CopyDies
  \/ FeederStarts \/ FeederPosts \/ Look \/ LookEnds \/ FeederTold \/ FeederEnds

Next ==
  \/ sight' = TRUE /\ sight = TRUE /\ Seen
  \/ sight' = FALSE

Spec == Init /\ [][Next]_vars

=============================================================================
