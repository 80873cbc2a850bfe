---------------------------- MODULE EvidenceStages ---------------------------
(***************************************************************************)
(* The evidence stages of the research graph: graph/builder.py runs        *)
(* technical, sentiment and flow, fundamental and event research one after *)
(* the other, each with the same four nodes (graph/nodes/*_research.py):   *)
(*                                                                         *)
(*   initial --> targeted --> release --> next stage, or collect_evidence  *)
(*       |        |  ^  |       ^   |                                      *)
(*       |        +--+  v       |   +--> compose_report if the stage failed *)
(*       +-----------> cancel --+                                          *)
(*                                                                         *)
(* initial runs the daily research, targeted one request of the queue      *)
(* research_requests, cancel closes what exceeds the budget of the stage,  *)
(* and release drops the sub-graph that the resolver keeps for the run.    *)
(* A request is its place in the queue.                                    *)
(***************************************************************************)
EXTENDS Integers, Sequences, FiniteSets

CONSTANTS
  Domain,      \* the evidence domains
  Stages,      \* those with a configured agent, in the order of their stages
  MaxPerStage, \* MAX_..._REQUESTS_PER_RUN
  MaxQueued    \* bound of the requests a run is started with

ASSUME StagesAssumption ==
  /\ Stages \in Seq(Domain) /\ Stages # <<>>
  /\ \A i, j \in DOMAIN Stages : Stages[i] = Stages[j] => i = j
  /\ MaxPerStage \in Nat \ {0}
  /\ MaxQueued \in Nat

Active   == {"PENDING", "RUNNING"}
Terminal == {"COMPLETED", "NO_NEW_EVIDENCE", "FAILED", "CANCELLED_BY_BUDGET"}
Request  == [domain: Domain, status: Active \cup Terminal]

VARIABLES
  pc,         \* the node that runs next
  stage,      \* the stage it belongs to
  queue,      \* research_requests
  count,      \* technical_request_count and its like
  total,      \* research_request_count
  failed,     \* evidence_stage_failed
  resolved,   \* domains whose resolver keeps a sub-graph of the run
  seeded      \* history: the queue the run was started with

vars == <<pc, stage, queue, count, total, failed, resolved, seeded>>

\* initialize_run accepts requests of its own run, whatever their status.
Init ==
  /\ pc = "initial"
  /\ stage = 1
  /\ queue \in UNION {[1..n -> Request] : n \in 0..MaxQueued}
  /\ count = [d \in Domain |-> 0]
  /\ total = 0
  /\ failed = FALSE
  /\ resolved = {}
  /\ seeded = queue

-----------------------------------------------------------------------------

Current == Stages[stage]

\* The open requests of a domain in a queue; the first one is next.
Open(q, d)  == {r \in DOMAIN q : q[r].domain = d /\ q[r].status \in Active}
NextOpen(q, d) == CHOOSE r \in Open(q, d) : \A s \in Open(q, d) : r <= s

Close(r, status) == [queue EXCEPT ![r].status = status]

\* Mutant: the budget is checked after one request too many.
MutRoute ==
  pc' = IF failed' THEN "release"
        ELSE IF Open(queue', Current) = {} THEN "release"
        ELSE IF count'[Current] > MaxPerStage THEN "cancel"
        ELSE "targeted"

\* _route_after_..._node, on the state the node leaves.
Route ==
  pc' = IF failed' THEN "release"
        ELSE IF Open(queue', Current) = {} THEN "release"
        ELSE IF count'[Current] >= MaxPerStage THEN "cancel"
        ELSE "targeted"

\* resolve builds the sub-graph unless the run has one; the factory may raise.
Resolve(ok) ==
  /\ Current \in resolved => ok
  /\ resolved' = IF ok THEN resolved \cup {Current} ELSE resolved

\* The sub-graph raises, or its result carries errors and a fatal stop reason or no
\* summary (_run_summary_is_fatal), or it is in order.
Run == {"raises", "fatal", "fine"}

\* The daily research of the stage.
Initial ==
  /\ pc = "initial"
  /\ \E ok \in BOOLEAN, run \in Run :
       /\ Resolve(ok)
       /\ failed' = (failed \/ ~ ok \/ run # "fine")
  /\ UNCHANGED <<stage, queue, count, total, seeded>>
  /\ Route

\* Mutant: the request that comes back may be open.
MutCompletion(status) ==
  [status |-> IF status = "none" THEN "FAILED" ELSE status, valid |-> status # "none"]

\* _is_valid_completion: another request, or one that is still open, is replaced by
\* a failure.
Completion(status) ==
  [status |-> IF status \in Terminal THEN status ELSE "FAILED", valid |-> status \in Terminal]

\* The first open request is researched and closed, whatever happens.
Targeted ==
  /\ pc = "targeted"
  /\ \E ok \in BOOLEAN, run \in Run, status \in Active \cup Terminal \cup {"none"} :
       LET raised == ~ ok \/ run = "raises"
           done   == IF raised THEN [status |-> "FAILED", valid |-> FALSE] ELSE Completion(status)
       IN /\ Resolve(ok)
          /\ queue' = Close(NextOpen(queue, Current), done.status)
          /\ failed' = (failed \/ run = "fatal" \/ ~ done.valid)
  /\ count' = [count EXCEPT ![Current] = @ + 1]
  /\ total' = total + 1
  /\ UNCHANGED <<stage, seeded>>
  /\ Route

\* Mutant: the finished requests of the stage are cancelled too.
MutCancel ==
  /\ pc = "cancel"
  /\ queue' = [r \in DOMAIN queue |->
                 IF queue[r].domain = Current
                 THEN [queue[r] EXCEPT !.status = "CANCELLED_BY_BUDGET"] ELSE queue[r]]
  /\ failed' = TRUE
  /\ pc' = "release"
  /\ UNCHANGED <<stage, count, total, resolved, seeded>>

\* What the budget does not allow is cancelled, and the stage fails.
Cancel ==
  /\ pc = "cancel"
  /\ queue' = [r \in DOMAIN queue |->
                 IF r \in Open(queue, Current)
                 THEN [queue[r] EXCEPT !.status = "CANCELLED_BY_BUDGET"] ELSE queue[r]]
  /\ failed' = (failed \/ Open(queue, Current) # {})
  /\ pc' = "release"
  /\ UNCHANGED <<stage, count, total, resolved, seeded>>

\* Mutant: a failed stage is left without releasing its sub-graph.
MutRelease ==
  /\ pc = "release"
  /\ resolved' = IF failed THEN resolved ELSE resolved \ {Current}
  /\ pc' = IF failed THEN "report" ELSE IF stage = Len(Stages) THEN "collect" ELSE "initial"
  /\ stage' = IF ~ failed /\ stage < Len(Stages) THEN stage + 1 ELSE stage
  /\ UNCHANGED <<queue, count, total, failed, seeded>>

\* release_..._runtime and _route_after_evidence_runtime_release.
Release ==
  /\ pc = "release"
  /\ resolved' = resolved \ {Current}
  /\ pc' = IF failed THEN "report" ELSE IF stage = Len(Stages) THEN "collect" ELSE "initial"
  /\ stage' = IF ~ failed /\ stage < Len(Stages) THEN stage + 1 ELSE stage
  /\ UNCHANGED <<queue, count, total, failed, seeded>>

Ended == pc \in {"collect", "report"} /\ UNCHANGED vars

Next == Initial \/ Targeted \/ Cancel \/ Release \/ Ended

Spec == Init /\ [][Next]_vars

-----------------------------------------------------------------------------

\* Type invariant.
TypeOK ==
  /\ pc \in {"initial", "targeted", "cancel", "release", "collect", "report"}
  /\ stage \in DOMAIN Stages
  /\ queue \in Seq(Request) /\ seeded \in Seq(Request)
  /\ count \in [Domain -> 0..MaxPerStage]
  /\ total \in Nat
  /\ failed \in BOOLEAN
  /\ resolved \subseteq {Current}

\* The stages a run has left behind, and the ones it has not come to.
Past   == {Stages[i] : i \in {j \in DOMAIN Stages : j < stage \/ pc = "collect"}}
Future == Domain \ {Stages[i] : i \in 1..stage}

\* Stages keep to their own: nothing of a stage the run has not come to was touched,
\* nothing of one it left is open, and evidence is collected only when every request
\* of every stage was answered, within the budget, and no sub-graph is kept.  The
\* failure of a stage ends the run with its sub-graph released.
StagesSettled ==
  /\ \A r \in DOMAIN queue :
       /\ queue[r].domain \in Future => queue[r] = seeded[r]
       /\ queue[r].domain \in Past => queue[r].status \in Terminal
  /\ pc = "report" => failed
  /\ pc \in {"report", "collect", "initial"} => resolved = {}
  /\ pc = "collect" => ~ failed

\* The requests of a domain that the run closed, and those of them it cancelled.
Closed(d)    == {r \in DOMAIN queue : queue[r].domain = d /\ queue[r] # seeded[r]}
Cancelled(d) == {r \in Closed(d) : queue[r].status = "CANCELLED_BY_BUDGET"}

\* What each stage counted, one by one.
Counted == {p \in Domain \X (1..MaxPerStage) : p[2] <= count[p[1]]}

AccountExact(d) ==
  /\ count[d] <= Cardinality(Closed(d))
  /\ \/ count[d] = Cardinality(Closed(d))
     \/ /\ count[d] = MaxPerStage /\ failed
        /\ Cardinality(Cancelled(d)) >= Cardinality(Closed(d)) - count[d]

\* The counters are exact: a stage counts every request it closed but those that it
\* cancelled, and cancels only with its budget used up, in which case the run fails;
\* total is what all stages researched.
RequestsAccounted ==
  /\ \A d \in Domain : AccountExact(d)
  /\ total = Cardinality(Counted)

\* A request is closed once: no later node reopens it or changes its result, though
\* the reducer of the channel overwrites by id.
ClosedForGood ==
  [][\A r \in DOMAIN queue :
       /\ r \in DOMAIN queue'
       /\ queue[r].status \in Terminal => queue'[r] = queue[r]]_vars
=============================================================================
