------------------------------ MODULE EventLog ------------------------------
(***************************************************************************)
(* What a URP ledger promises to the code that writes to it: one totally   *)
(* ordered log of events.  An event enters the log at most once, at the    *)
(* end; a writer is told of success only for an event it submitted; a      *)
(* reader gets the whole log or an error, never a part of it.              *)
(*                                                                         *)
(* A log can be damaged by an interrupted write.  Damage is detected, not  *)
(* hidden: a damaged log answers every read with an error and takes no     *)
(* further event.  The last event may be among what the damage destroys.   *)
(***************************************************************************)
EXTENDS Naturals, Sequences

CONSTANT Event

VARIABLES
  log,      \* the events, oldest first
  damaged,  \* TRUE once a read can only fail
  seen      \* what the latest successful read returned

logVars == <<log, damaged, seen>>

EventsOf(s) == {s[i] : i \in DOMAIN s}

LogInit ==
  /\ log = << >>
  /\ damaged = FALSE
  /\ seen = << >>

(* One writer's event reaches the log.                                     *)
AppendEvent(e) ==
  /\ ~damaged
  /\ e \notin EventsOf(log)
  /\ log' = Append(log, e)
  /\ UNCHANGED <<damaged, seen>>

(* A write is interrupted: the log stops being readable, and its last      *)
(* event may have been part of the line that was damaged.                  *)
Damage ==
  /\ ~damaged
  /\ damaged' = TRUE
  /\ \/ log' = log
     \/ log # << >> /\ log' = SubSeq(log, 1, Len(log) - 1)
  /\ UNCHANGED seen

ReadLog ==
  /\ ~damaged
  /\ seen' = log
  /\ UNCHANGED <<log, damaged>>

LogNext ==
  \/ \E e \in Event : AppendEvent(e)
  \/ Damage
  \/ ReadLog

LogSpec == LogInit /\ [][LogNext]_logVars
=============================================================================
