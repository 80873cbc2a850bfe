--------------------------- MODULE FundamentalAgent --------------------------
(***************************************************************************)
(* The fundamental evidence agent (agents/fundamental/subgraph.py).  Calls *)
(* which tasks share are reserved once for a round, and a stock is queried *)
(* only once its identity is confirmed.                                    *)
(***************************************************************************)
EXTENDS AgentFrame

Init == Prepared("fundamental", Stock)

\* An identity check confirms the stock, answers without it, or fails.  A query
\* answers (perhaps with no rows), answers with rows of something else, or fails.
Results(tool) == IF tool = "identity" THEN {"confirmed", "denied", "failed"}
                 ELSE {"answered", "foreign", "failed"}

Reusable == {"confirmed", "denied", "answered", "foreign"}  \* _REUSABLE_STATUSES
Citable  == {"answered", "foreign"}                         \* _EVIDENCE_CITABLE_STATUSES

\* _planned_task_calls: the identity of the stock first.
Planned(r) == <<"identity">> \o r.checks
Calls(r)   == {[tool |-> t, stock |-> r.stock] : t \in Range(Planned(r))}

\* _build_tasks.  Report periods are left out: a request with a wrong one is like one
\* about another stock.
BuildTasks(allowed) ==
  [w \in Written |-> Build(w, {r \in Range(w) : r.stock \in allowed})]

\* A draft cites one or two calls.
Draft == [about: Stock \cup {Market}, cites: {{o, p} : o, p \in obs}]

\* _daily_snapshot_permissions.
SnapshotTargets == Listed \cup {Market}

\* What an observation proves: its own stock, or what the snapshot names.
Supports(o, about) ==
  CASE o.tool = "snapshot" -> about \in SnapshotTargets
    [] o.tool = "identity" -> FALSE
    [] OTHER               -> o.stock = about /\ o.result = "answered"

\* _filter_review_drafts.
ReviewDrafts(written) ==
  {d \in written : \A o \in d.cites : o.result \in Citable /\ Supports(o, d.about)}

\* _filter_daily_drafts: the last snapshot is the only source.
DailyDrafts(written) ==
  {d \in written : /\ \A o \in d.cites : \A p \in obs : o.position >= p.position
                   /\ d.about \in SnapshotTargets}

\* _materialize_evidence checks the same again, when it reads the sources back.
Proved(written) == ReviewDrafts(written)

Snapshot == AcquireSnapshot({1} \X SnapshotResults)
Analyze  == AnalyzeDaily(DailyDrafts(Draft), Draft, BuildTasks(Listed))
Plan     == PlanTargeted(Plans(TasksOf(BuildTasks({target})), Request[agent]))

\* Mutant: a task that exceeds what is left is dropped without a trace.
MutReservation ==
  FoldLeft(LAMBDA acc, r :
             LET new == Calls(r) \ acc.reserved
             IN IF Cardinality(new) > acc.left THEN acc
                ELSE [acc EXCEPT !.tasks = Append(@, r), !.left = @ - Cardinality(new),
                                 !.reserved = @ \cup new],
           [tasks |-> <<>>, skipped |-> {}, left |-> Left,
            reserved |-> {[tool |-> o.tool, stock |-> o.stock] : o \in {p \in obs : p.result \in Reusable}}],
           pending)

\* Tasks are taken in order as long as the budget holds for the calls that are new:
\* not answered before and not reserved for an earlier task.
Reservation ==
  FoldLeft(LAMBDA acc, r :
             LET new == Calls(r) \ acc.reserved
             IN IF Cardinality(new) > acc.left
                THEN [acc EXCEPT !.skipped = @ \cup {r}]
                ELSE [acc EXCEPT !.tasks = Append(@, r), !.left = @ - Cardinality(new),
                                 !.reserved = @ \cup new],
           [tasks |-> <<>>, skipped |-> {}, left |-> Left,
            reserved |-> {[tool |-> o.tool, stock |-> o.stock] : o \in {p \in obs : p.result \in Reusable}}],
           pending)

Execute == StartRound(Reservation)

\* The task ends with its last call, or with a stock that was not confirmed.
Advance(o) ==
  LET stops == o.tool = "identity" /\ o.result # "confirmed"
  IN /\ IF stops \/ cursor.call = Len(Planned(pending[cursor.task])) THEN NextTask(1)
        ELSE cursor' = [cursor EXCEPT !.call = @ + 1] /\ UNCHANGED pc
     /\ errors' = (errors \/ stops \/ o.result = "failed")

\* One planned call of _execute_task.  A failed one is made again by the next task
\* that plans it.
Call ==
  /\ pc = "call"
  /\ LET r    == pending[cursor.task]
         tool == Planned(r)[cursor.call]
     IN \E o \in Answers(tool, r.stock, {}, Results(tool), Reusable) : Ask(o, Reusable) /\ Advance(o)
  /\ UNCHANGED <<fixed, pending, seen, round, exhausted, skipped, drafts, evidence, status>>

\* A further round stays with the stocks of this one.
Review   == ReviewRound(ReviewDrafts(Draft), Draft,
                        BuildTasks({r.stock : r \in Range(pending)}))
Finalize == FinalizeRun(Proved(drafts), [d \in drafts |-> d])

Next == Snapshot \/ Analyze \/ Plan \/ Execute \/ Call \/ Review \/ Finalize \/ Ended

-----------------------------------------------------------------------------

\* What a task has to show when it was worked on: each of its calls was made, or its
\* stock was not confirmed.
Researched(r) ==
  LET Asked(tool) == \E o \in obs : o.tool = tool /\ o.stock = r.stock
  IN \/ \A t \in Range(Planned(r)) : Asked(t)
     \/ \E o \in obs : o.tool = "identity" /\ o.stock = r.stock /\ o.result # "confirmed"
=============================================================================
