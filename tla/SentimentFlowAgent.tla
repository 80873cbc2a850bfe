-------------------------- MODULE SentimentFlowAgent -------------------------
(***************************************************************************)
(* The sentiment and capital-flow agent (agents/sentiment_flow/            *)
(* subgraph.py).  A task is reserved for all its checks beforehand, even   *)
(* those answered already or refused; a stock needs no identity check.     *)
(***************************************************************************)
EXTENDS AgentFrame

Init == Prepared("sentiment_flow", Stock)

Results == {"answered", "empty", "foreign", "failed"}

Reusable == {"answered", "empty", "foreign"}  \* _REUSABLE_STATUSES
Citable  == {"answered", "empty", "foreign"}  \* _EVIDENCE_CITABLE_STATUSES

\* _build_tasks.
BuildTasks(allowed) ==
  [w \in Written |-> Build(w, {r \in Range(w) : r.stock \in allowed})]

\* A draft cites one or two calls.
Draft == [about: Stock \cup {Market}, cites: {{o, p} : o, p \in obs}]

\* _daily_snapshot_permissions.
SnapshotTargets == Listed \cup {Market}

\* _observation_supports_target and the permissions of the snapshot: that there is
\* nothing about a stock may be cited too.
Supports(o, about) ==
  IF o.tool = "snapshot" THEN about \in SnapshotTargets
  ELSE o.stock = about /\ o.result \in {"answered", "empty"}

\* _filter_review_drafts.
ReviewDrafts(written) ==
  {d \in written : \A o \in d.cites : o.result \in Citable /\ Supports(o, d.about)}

\* _filter_daily_drafts: the last snapshot is the only source.
DailyDrafts(written) ==
  {d \in written : /\ \A o \in d.cites : \A p \in obs : o.position >= p.position
                   /\ d.about \in SnapshotTargets}

\* _materialize_evidence checks the same again, when it reads the sources back.
Proved(written) == ReviewDrafts(written)

Snapshot == AcquireSnapshot({1} \X SnapshotResults)
Analyze  == AnalyzeDaily(DailyDrafts(Draft), Draft, BuildTasks(Listed))
Plan     == PlanTargeted(Plans(TasksOf(BuildTasks({target})), Request[agent]))

\* execute_verification up to the first call.
Execute == StartRound(Reserve([r \in Range(pending) |-> Len(r.checks)]))

\* Unusual trading is looked up for one day: that of the snapshot, or one in the window
\* of the request.  Positioning is known of stocks whose code names an exchange.
Refused(r, check) ==
  \/ check = "unusual" /\ ~ r.day_allowed
  \/ check = "positioning" /\ ~ r.exchange

\* The task goes on with its next check whatever came of this one.
Advance(failed) ==
  /\ IF cursor.call = Len(pending[cursor.task].checks) THEN NextTask(1)
     ELSE cursor' = [cursor EXCEPT !.call = @ + 1] /\ UNCHANGED pc
  /\ errors' = (errors \/ failed)

\* Mutant: a failed call is not recorded as an error.
MutCall ==
  /\ pc = "call"
  /\ LET r     == pending[cursor.task]
         check == r.checks[cursor.call]
     IN \/ Refused(r, check) /\ Advance(TRUE) /\ UNCHANGED <<obs, count>>
        \/ /\ ~ Refused(r, check)
           /\ \E o \in Answers(check, r.stock, {}, Results, Reusable) :
                Ask(o, Reusable) /\ Advance(FALSE)
  /\ UNCHANGED <<fixed, pending, seen, round, exhausted, skipped, drafts, evidence, status>>

\* One check of _execute_task.
Call ==
  /\ pc = "call"
  /\ LET r     == pending[cursor.task]
         check == r.checks[cursor.call]
     IN \/ Refused(r, check) /\ Advance(TRUE) /\ UNCHANGED <<obs, count>>
        \/ /\ ~ Refused(r, check)
           /\ \E o \in Answers(check, r.stock, {}, Results, Reusable) :
                Ask(o, Reusable) /\ Advance(o.result = "failed")
  /\ UNCHANGED <<fixed, pending, seen, round, exhausted, skipped, drafts, evidence, status>>

\* A further round stays with the stocks of this one.
Review   == ReviewRound(ReviewDrafts(Draft), Draft,
                        BuildTasks({r.stock : r \in Range(pending)}))
Finalize == FinalizeRun(Proved(drafts), [d \in drafts |-> d])

Next == Snapshot \/ Analyze \/ Plan \/ Execute \/ Call \/ Review \/ Finalize \/ Ended

-----------------------------------------------------------------------------

\* What a task has to show when it was worked on: each check that is not refused was
\* asked.
Researched(r) ==
  \A check \in Range(r.checks) :
    Refused(r, check) \/ \E o \in obs : o.tool = check /\ o.stock = r.stock
=============================================================================
