------------------------------ MODULE EventAgent -----------------------------
(***************************************************************************)
(* The news and event agent (agents/event/subgraph.py).  Tasks are reserved*)
(* one at a time, each when the calls of those before it are known, and a  *)
(* draft has to name the rows it rests on as well as the calls.            *)
(***************************************************************************)
EXTENDS AgentFrame

CONSTANTS
  Related,  \* stocks which a news row of the snapshot names as supported by it
  Covered   \* the stock of a snapshot item that two rows support together

Init == Prepared("event", Stock)

Results(tool) == IF tool = "identity" THEN {"confirmed", "denied", "failed"}
                 ELSE {"answered", "empty", "foreign", "failed"}

Reusable == {"confirmed", "denied", "answered", "empty", "foreign"}  \* _REUSABLE_STATUSES
Citable  == {"answered", "foreign"}                                  \* _EVIDENCE_CITABLE_STATUSES

\* _planned_task_calls: the identity of the stock first.
Planned(r) == <<"identity">> \o r.checks

\* _build_tasks.
BuildTasks(allowed) ==
  [w \in Written |-> Build(w, {r \in Range(w) : r.stock \in allowed})]

-----------------------------------------------------------------------------
(* Drafts.                                                                 *)

\* The rows of the snapshot: one of news, and the two of one item.
SnapshotRows == {"fact", "left", "right"}

\* The rows of a query: one that may be cited, and a mere clue.
QueryRows == {"fact", "clue"}

Rows(o) == {o} \X (IF o.tool = "snapshot" THEN SnapshotRows ELSE QueryRows)

\* A draft cites one or two calls, and one or two of their rows.
Draft ==
  UNION {[about: Stock \cup {Market}, cites: {c},
          keys: {{k, l} : k, l \in UNION {Rows(o) : o \in c}}] : c \in {{o, p} : o, p \in obs}}

\* _record_keys_support_target over the catalogues of the cited answers.
RowsSupport(d) ==
  \A k \in d.keys :
    /\ k[2] # "clue"
    /\ IF k[1].tool # "snapshot" THEN k[1].stock = d.about
       ELSE IF k[2] = "fact" THEN d.about \in Related \cup {Market}
       ELSE d.about = Covered /\ {k[1]} \X {"left", "right"} \subseteq d.keys

\* _daily_snapshot_permissions.
SnapshotTargets == Listed \cup {Market}

\* _observation_supports_target and the permissions of the snapshot.
Supports(o, about) ==
  CASE o.tool = "snapshot" -> about \in SnapshotTargets
    [] o.tool = "identity" -> FALSE
    [] OTHER               -> o.stock = about /\ o.result = "answered"

\* _filter_review_drafts.
ReviewDrafts(written) ==
  {d \in written : /\ \A o \in d.cites : o.result \in Citable /\ Supports(o, d.about)
                   /\ RowsSupport(d)}

\* _filter_daily_drafts: the last snapshot is the only source.
DailyDrafts(written) ==
  {d \in written : /\ \A o \in d.cites : \A p \in obs : o.position >= p.position
                   /\ d.about \in SnapshotTargets
                   /\ RowsSupport(d)}

\* _materialize_evidence checks the same again, when it reads the sources back.
Proved(written) == ReviewDrafts(written)

-----------------------------------------------------------------------------
(* The nodes.                                                              *)

Snapshot == AcquireSnapshot({n \in 1..2 : n >= MaxCalls} \X {"too_large"})

\* The rows are looked up in the stored snapshot; if that cannot be read no draft is
\* taken.
Analyze ==
  \/ AnalyzeDaily(DailyDrafts(Draft), Draft, BuildTasks(Listed))
  \/ AnalyzeDaily({}, Draft, BuildTasks(Listed))

Plan == PlanTargeted(Plans(TasksOf(BuildTasks({target})), Request[agent]))

Without(tasks, gone) ==
  FoldLeft(LAMBDA kept, r : IF r \in gone THEN kept ELSE Append(kept, r), <<>>, tasks)

\* The end of a task; with the last one the node keeps the tasks it did not skip.
EndTask ==
  /\ NextTask(0)
  /\ pending' = IF cursor.task < Len(pending) THEN pending ELSE Without(pending, skipped')

\* execute_verification starts with the first task; call 0 is its reservation.
Execute ==
  /\ pc = "execute"
  /\ round' = round + 1
  /\ cursor' = Task(1, 0)
  /\ pc' = "call"
  /\ UNCHANGED <<fixed, pending, seen, obs, count, exhausted, skipped, drafts, errors, evidence, status>>

Fresh(r) == {t \in Range(Planned(r)) : Found(t, r.stock, {}, Reusable) = {}}

\* Mutant: the identity check is not charged.
MutTake ==
  /\ pc = "call" /\ cursor.call = 0
  /\ LET r    == pending[cursor.task]
         over == Cardinality(Fresh(r) \ {"identity"}) > Left
     IN /\ skipped' = IF over THEN skipped \cup {r} ELSE skipped
        /\ exhausted' = (exhausted \/ over)
        /\ errors' = (errors \/ over)
        /\ IF over THEN EndTask
           ELSE cursor' = [cursor EXCEPT !.call = 1] /\ UNCHANGED <<pc, pending>>
  /\ UNCHANGED <<fixed, seen, obs, round, count, drafts, evidence, status>>

\* A task is taken if the budget, less what the tasks before it really cost, holds for
\* its calls that were not answered yet.
Take ==
  /\ pc = "call" /\ cursor.call = 0
  /\ LET r    == pending[cursor.task]
         over == Cardinality(Fresh(r)) > Left
     IN /\ skipped' = IF over THEN skipped \cup {r} ELSE skipped
        /\ exhausted' = (exhausted \/ over)
        /\ errors' = (errors \/ over)
        /\ IF over THEN EndTask
           ELSE cursor' = [cursor EXCEPT !.call = 1] /\ UNCHANGED <<pc, pending>>
  /\ UNCHANGED <<fixed, seen, obs, round, count, drafts, evidence, status>>

\* The task ends with its last call, or with a stock that was not confirmed.
Advance(o) ==
  LET stops == o.tool = "identity" /\ o.result # "confirmed"
  IN /\ IF stops \/ cursor.call = Len(Planned(pending[cursor.task])) THEN EndTask
        ELSE cursor' = [cursor EXCEPT !.call = @ + 1] /\ UNCHANGED <<pc, pending>>
     /\ errors' = (errors \/ stops)

\* One planned call of _execute_task.
Call ==
  /\ pc = "call" /\ cursor.call > 0
  /\ UNCHANGED <<fixed, seen, round, exhausted, skipped, drafts, evidence, status>>
  /\ LET r    == pending[cursor.task]
         tool == Planned(r)[cursor.call]
     IN \E o \in Answers(tool, r.stock, {}, Results(tool), Reusable) : Ask(o, Reusable) /\ Advance(o)

\* A further round stays with the stocks of this one.
Review   == ReviewRound(ReviewDrafts(Draft), Draft,
                        BuildTasks({r.stock : r \in Range(pending)}))
Finalize == FinalizeRun(Proved(drafts), [d \in drafts |-> d])

Next ==
  \/ Snapshot \/ Analyze \/ Plan \/ Execute \/ Take \/ Call \/ Review \/ Finalize \/ Ended

-----------------------------------------------------------------------------

\* What a task has to show when it was worked on: each of its calls was made, or its
\* stock was not confirmed.
Researched(r) ==
  LET Asked(tool) == \E o \in obs : o.tool = tool /\ o.stock = r.stock
  IN \/ \A t \in Range(Planned(r)) : Asked(t)
     \/ \E o \in obs : o.tool = "identity" /\ o.stock = r.stock /\ o.result # "confirmed"
=============================================================================
