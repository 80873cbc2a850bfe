-------------------------- MODULE StructuredOutput --------------------------
(***************************************************************************)
(* Calls of the language model for a structured answer                     *)
(* (llm/structured_output.py, ObservableStructuredOutput.ainvoke).         *)
(*                                                                         *)
(* An attempt ends in one of three ways: the transport fails, the answer   *)
(* fails the local validation (whether the runnable or the wrapper finds   *)
(* out) or it is valid.  A failed validation is repaired by asking again,  *)
(* at most RepairAttempts times; a failed transport is not.  Each attempt  *)
(* records one event in a log that all callers share.  (An event that      *)
(* cannot be written to the file is lost there and the call goes on: the   *)
(* log is what is recorded.)                                               *)
(*                                                                         *)
(* Prompts, durations and contents are left out.  What a caller asks with  *)
(* is its messages and the correction for the event `from`: a repair is    *)
(* always built from the original messages.                                *)
(***************************************************************************)
EXTENDS Integers, Sequences

CONSTANTS
  Caller,         \* who calls; one call at a time each
  RepairAttempts  \* StructuredOutputOptions.repair_attempts

ASSUME CallsAssumption == RepairAttempts \in Nat

VARIABLES
  call,  \* of each caller: its call
  log    \* the events in the order they are recorded, an id is a position

callVars == <<call, log>>

NoEvent == 0

\* repaired_from_event and the details of the correction are those of `from`.
Idle == [state |-> "idle", attempt |-> 0, from |-> NoEvent, event |-> NoEvent,
         category |-> "none"]

CallsInit ==
  /\ call = [c \in Caller |-> Idle]
  /\ log = <<>>

Invoke(c) ==
  /\ call[c].state = "idle"
  /\ call' = [call EXCEPT ![c].state = "waiting"]
  /\ UNCHANGED log

\* _record_event.
Record(c, status, from) ==
  log' = Append(log, [caller |-> c, attempt |-> call[c].attempt + 1,
                      status |-> status, from |-> from])

Repairable(c, category) ==
  category = "validation_error" /\ call[c].attempt < RepairAttempts

Repaired(c, event) ==
  [call EXCEPT ![c] = [@ EXCEPT !.attempt = call[c].attempt + 1, !.from = event]]

\* StructuredOutputInvocationError.
Raised(c, category, event) ==
  [call EXCEPT ![c] = [@ EXCEPT !.state = "raised", !.category = category,
                                !.event = event]]

\* Mutant: the transport is tried again, as a failed validation is.
MutAttemptFails(c, category) ==
  /\ call[c].state = "waiting"
  /\ Record(c, category, NoEvent)
  /\ call' = IF call[c].attempt < RepairAttempts
             THEN Repaired(c, Len(log) + 1)
             ELSE Raised(c, category, Len(log) + 1)

AttemptFails(c, category) ==
  /\ call[c].state = "waiting"
  /\ Record(c, category, NoEvent)
  /\ call' = IF Repairable(c, category)
             THEN Repaired(c, Len(log) + 1)
             ELSE Raised(c, category, Len(log) + 1)

AttemptSucceeds(c) ==
  /\ call[c].state = "waiting"
  /\ Record(c, IF call[c].attempt = 0 THEN "success" ELSE "repaired", call[c].from)
  /\ call' = [call EXCEPT ![c] = [@ EXCEPT !.state = "returned", !.event = Len(log) + 1]]

-----------------------------------------------------------------------------
(* What the log must tell.                                                 *)

EventsOf(c) == {n \in DOMAIN log : log[n].caller = c}

\* The events of a caller are its attempts 1 to last, in that order.
Attempts(c, last) ==
  /\ {log[n].attempt : n \in EventsOf(c)} = 1..last
  /\ \A n, p \in EventsOf(c) : n < p <=> log[n].attempt < log[p].attempt

\* The event an error or a repaired answer names is one of the same call, the
\* attempt before or the last one.
Names(c, event, attempt, status) ==
  /\ event \in EventsOf(c)
  /\ log[event].attempt = attempt
  /\ log[event].status = status

\* An ended call made its attempts one after the other; all but the last failed
\* the validation, a repaired answer names the one before, and the last is what
\* the caller was told.
Audited(c) ==
  LET event == call[c].event
      last  == log[event]
  IN  /\ event \in EventsOf(c)
      /\ Attempts(c, last.attempt)
      /\ last.attempt <= RepairAttempts + 1
      /\ \A n \in EventsOf(c) \ {event} : log[n].status = "validation_error"
      /\ call[c].state = "returned" =>
           /\ last.status = IF last.attempt = 1 THEN "success" ELSE "repaired"
           /\ last.attempt > 1 => Names(c, last.from, last.attempt - 1, "validation_error")
      /\ call[c].state = "raised" =>
           /\ last.status = call[c].category
           /\ call[c].category = "validation_error" => last.attempt = RepairAttempts + 1
=============================================================================
