------------------------------ MODULE AgentFrame -----------------------------
(***************************************************************************)
(* The graph that the four evidence agents of agents/ share, each with its *)
(* own copy of the code:                                                   *)
(*                                                                         *)
(*   snapshot --> analyze --+--> execute --> review --> finalize           *)
(*   plan ------------------+       ^           |                          *)
(*                                  +-----------+                          *)
(*                                                                         *)
(* A daily run analyses a snapshot of the market, a verification run plans *)
(* for the target of one research request.  Either asks for verification   *)
(* tasks, execute makes their tool calls within the budget of the run, and *)
(* review may ask for more.  This module has the state and the steps whose *)
(* control is the same; an agent's module completes them with what it lets *)
(* a model write, which calls it makes and what it takes as proof.  Calls  *)
(* are awaited, so execute is taken in steps.                              *)
(***************************************************************************)
EXTENDS Integers, Sequences, SequencesExt, FiniteSets

CONSTANTS
  Stock,        \* stocks a request may be about
  Listed,       \* those the daily snapshot names
  Market,       \* the market as a whole
  Request,      \* of each agent, what a model may ask for: a stock and its checks
  Retryable,    \* daily_candidate_count > 3
  MaxRounds, MaxRequests, MaxCalls,  \* the limits of an agent
  MaxWritten    \* bound of the requests in one answer of a model

Agents == {"fundamental", "event", "sentiment_flow", "technical"}

ASSUME AgentAssumption ==
  /\ Listed \subseteq Stock /\ Market \notin Stock
  /\ DOMAIN Request = Agents
  /\ \A a \in Agents : \A r \in Request[a] :
       /\ r.checks \in Seq(STRING) \ {<<>>} /\ IsInjective(r.checks)
       /\ Range(r.checks) \cap {"snapshot", "identity", "context"} = {}
  /\ Retryable \in BOOLEAN
  /\ MaxRounds \in Nat \ {0} /\ MaxRequests \in Nat \ {0} /\ MaxCalls \in Nat \ {0}

VARIABLES
  agent,
  pc,        \* the node that runs next, "call" within execute_verification; when the
             \* graph has ended "done", or "raised" if a node did
  mode,
  target,    \* of the research request, or what a daily run is about
  pending,   \* pending_tasks, each as the request it was built from
  seen,      \* seen_request_fingerprints
  obs,       \* observations
  cursor,    \* place in execute: the task, its next call, the contexts it has fetched
  round,     \* verification_round
  count,     \* tool_call_count
  exhausted, \* budget_exhausted
  skipped,   \* skipped_task_ids
  drafts,    \* evidence_drafts
  errors,    \* whether errors were recorded
  evidence,  \* evidence_records
  status     \* of completed_research_request, "none" before and in daily runs

fixed == <<agent, mode, target>>
vars  == <<agent, pc, mode, target, pending, seen, obs, cursor, round, count, exhausted,
           skipped, drafts, errors, evidence, status>>

Task(n, first) == [task |-> n, call |-> first, data |-> <<>>]

\* prepare, for a request it does not refuse.  A daily run is about the market.
Prepared(a, targets) ==
  /\ agent = a
  /\ mode \in {"DAILY", "VERIFICATION"}
  /\ target \in IF mode = "DAILY" THEN {Market} ELSE targets
  /\ pc = IF mode = "DAILY" THEN "snapshot" ELSE "plan"
  /\ pending = <<>> /\ seen = {} /\ obs = {} /\ cursor = Task(1, 1)
  /\ round = 0 /\ count = 0 /\ exhausted = FALSE /\ skipped = {}
  /\ drafts = {} /\ errors = FALSE /\ evidence = {} /\ status = "none"

-----------------------------------------------------------------------------
(* Calls.  An observation has the place of its call in the run, what was   *)
(* asked, the contexts a calculation used, and how the tool answered.      *)

Observation(place, tool, stock, uses, result) ==
  [round |-> place[1], position |-> place[2], tool |-> tool, stock |-> stock,
   uses |-> uses, result |-> result]

\* _find_observation.
Found(tool, stock, uses, reusable) ==
  {o \in obs : o.tool = tool /\ o.stock = stock /\ o.uses = uses /\ o.result \in reusable}

\* What a task may go on with: an earlier answer that can be used, or else that of a
\* call made now, which may be that the tool failed.
Answers(tool, stock, uses, results, reusable) ==
  LET found == Found(tool, stock, uses, reusable)
      asked == {Observation(<<round, cursor.task>>, tool, stock, uses, result) :
                  result \in results}
  IN IF found # {} THEN found ELSE asked

\* The answer is there, or the call is made and counted.
Ask(o, reusable) ==
  IF o \in obs /\ o.result \in reusable THEN UNCHANGED <<obs, count>>
  ELSE obs' = obs \cup {o} /\ count' = count + 1

Left == IF MaxCalls > count THEN MaxCalls - count ELSE 0

\* Tasks are taken in order as long as the budget holds for what they may cost.
Reserve(cost) ==
  FoldLeft(LAMBDA acc, r :
             IF cost[r] > acc.left THEN [acc EXCEPT !.skipped = @ \cup {r}]
             ELSE [acc EXCEPT !.tasks = Append(@, r), !.left = @ - cost[r]],
           [tasks |-> <<>>, skipped |-> {}, left |-> Left], pending)

\* The task ends, and with the last one the node.
NextTask(first) ==
  /\ cursor' = Task(cursor.task + 1, first)
  /\ pc' = IF cursor.task = Len(pending) THEN "review" ELSE "call"

-----------------------------------------------------------------------------
(* What models write.                                                      *)

\* The first requests only.
Considered(written) == SubSeq(written, 1, Min({MaxRequests, Len(written)}))

\* _build_tasks: of the first requests, those that are permitted and were not built
\* before.
Build(written, permitted) ==
  FoldLeft(LAMBDA tasks, r :
             IF r \in permitted \ (seen \cup Range(tasks)) THEN Append(tasks, r) ELSE tasks,
           <<>>, Considered(written))

\* The requests of an answer.
Written == BoundedSeq(Request[agent], MaxWritten)

\* What can become of them, when `built` are the tasks made of each.
TasksOf(built) ==
  {[tasks |-> built[w], refused |-> Len(Considered(w)) > Len(built[w])] : w \in Written}

\* What can become of its evidence.  Drafts are judged one by one: models write one in
\* a run.
DraftsOf(accepted, draft) ==
  {[kept |-> d \cap accepted, refused |-> ~ d \subseteq accepted] :
     d \in {{}} \cup (IF drafts = {} THEN {{d} : d \in draft} ELSE {})}

\* A model that answers nothing valid leaves an error, and nothing to verify.
ModelFails ==
  /\ errors' = TRUE
  /\ pc' = "finalize"
  /\ UNCHANGED <<pending, seen, drafts>>

\* The tasks of the first round.
Begin(tasks, refused) ==
  /\ pending' = tasks
  /\ seen' = Range(tasks)
  /\ errors' = refused
  /\ pc' = IF tasks = <<>> THEN "finalize" ELSE "execute"

-----------------------------------------------------------------------------
(* The nodes.                                                              *)

SnapshotResults == {"answered", "too_large", "failed"}

\* acquire_daily_snapshot: asked again for fewer candidates if it was too large and
\* the budget allows.  `spent` are the numbers of calls and results that an agent takes
\* for an exhausted budget.
AcquireSnapshot(spent) ==
  /\ pc = "snapshot"
  /\ \E first, second \in SnapshotResults :
       LET retry  == first = "too_large" /\ Retryable
           again  == retry /\ 1 < MaxCalls
           result == IF again THEN second ELSE first
       IN /\ obs' = {Observation(<<0, 1>>, "snapshot", Market, {}, first)} \cup
                    (IF again THEN {Observation(<<0, 2>>, "snapshot", Market, {}, second)} ELSE {})
          /\ count' = IF again THEN 2 ELSE 1
          /\ exhausted' = (retry /\ <<count', result>> \in spent)
          /\ errors' = (result # "answered")
          /\ pc' = IF result = "answered" THEN "analyze" ELSE "finalize"
  /\ UNCHANGED <<fixed, pending, seen, cursor, round, skipped, drafts, evidence, status>>

\* analyze_daily.
AnalyzeDaily(accepted, draft, built) ==
  /\ pc = "analyze"
  /\ \/ ModelFails
     \/ \E d \in DraftsOf(accepted, draft), t \in TasksOf(built) :
          /\ drafts' = d.kept
          /\ Begin(t.tasks, d.refused \/ t.refused)
  /\ UNCHANGED <<fixed, obs, cursor, round, count, exhausted, skipped, evidence, status>>

\* A plan without a task that covers the target is refused.
Plans(tasks, covering) ==
  {IF Range(t.tasks) \cap covering = {} THEN [tasks |-> <<>>, refused |-> TRUE] ELSE t : t \in tasks}

\* plan_targeted.
PlanTargeted(plans) ==
  /\ pc = "plan"
  /\ \/ ModelFails
     \/ \E p \in plans : Begin(p.tasks, p.refused) /\ UNCHANGED drafts
  /\ UNCHANGED <<fixed, obs, cursor, round, count, exhausted, skipped, evidence, status>>

\* execute_verification up to its first call, where the tasks are reserved before it.
StartRound(reservation) ==
  /\ pc = "execute"
  /\ round' = round + 1
  /\ pending' = reservation.tasks
  /\ skipped' = skipped \cup reservation.skipped
  /\ exhausted' = (exhausted \/ reservation.skipped # {})
  /\ errors' = (errors \/ reservation.skipped # {})
  /\ cursor' = Task(1, 1)
  /\ pc' = IF pending' = <<>> THEN "review" ELSE "call"
  /\ UNCHANGED <<fixed, seen, obs, count, drafts, evidence, status>>

\* review_verification.  Tasks of a further round are left where they are if no call
\* is left for them.
ReviewRound(accepted, draft, built) ==
  /\ pc = "review"
  /\ \/ /\ pending = <<>>
        /\ pc' = "finalize"
        /\ UNCHANGED <<pending, seen, drafts, errors>>
     \/ /\ pending # <<>>
        /\ errors' = TRUE /\ pending' = <<>> /\ pc' = "finalize"
        /\ UNCHANGED <<seen, drafts>>
     \/ /\ pending # <<>>
        /\ \E d \in DraftsOf(accepted, draft),
              t \in IF ~ exhausted /\ round < MaxRounds THEN TasksOf(built)
                    ELSE {[tasks |-> <<>>, refused |-> FALSE]} :
             /\ drafts' = drafts \cup d.kept
             /\ pending' = t.tasks
             /\ seen' = seen \cup Range(t.tasks)
             /\ errors' = (errors \/ d.refused \/ t.refused)
             /\ pc' = IF t.tasks # <<>> /\ count < MaxCalls THEN "execute" ELSE "finalize"
  /\ UNCHANGED <<fixed, obs, cursor, round, count, exhausted, skipped, evidence, status>>

\* _complete_research_request.
Closed(outOfBudget, found, failed) ==
  IF mode = "DAILY" THEN "none"
  ELSE IF outOfBudget THEN "CANCELLED_BY_BUDGET"
  ELSE IF found THEN "COMPLETED"
  ELSE IF failed THEN "FAILED" ELSE "NO_NEW_EVIDENCE"

\* ResearchRequest.validate_completion: only a completed request refers to evidence.
Valid(closed, found) == mode = "DAILY" \/ (closed = "COMPLETED" <=> found # {})

\* finalize: each draft becomes a record if its sources can be read back and prove it,
\* and the request is closed by what came of it.  If it cannot be closed like that the
\* node raises, and what it was to return is lost.
FinalizeRun(proved, recorded) ==
  /\ pc = "finalize"
  /\ \E kept \in SUBSET proved :
       LET found  == {recorded[d] : d \in kept}
           failed == errors \/ kept # drafts
           closed == Closed(exhausted, found # {}, failed)
       IN IF Valid(closed, found)
          THEN evidence' = found /\ errors' = failed /\ status' = closed /\ pc' = "done"
          ELSE pc' = "raised" /\ UNCHANGED <<evidence, errors, status>>
  /\ UNCHANGED <<fixed, pending, seen, obs, cursor, round, count, exhausted, skipped, drafts>>

Ended == pc \in {"done", "raised"} /\ UNCHANGED vars

=============================================================================
