----------------------------- MODULE CrossReview -----------------------------
(***************************************************************************)
(* The cross review: each portfolio manager scores the proposals of the    *)
(* other one, the scores are written into the proposal pool, and a manager *)
(* who supports both sides of a decision slot has to correct its scores    *)
(* (graph/nodes/cross_review.py, conflict_score_validation.py,             *)
(* agents/debate/models.py):                                               *)
(*                                                                         *)
(*   review -> apply -> validate --> gate (Negotiation)                    *)
(*               ^         |   |                                           *)
(*               |         v   +---> ended                                 *)
(*               +---- correct ----> ended                                 *)
(*                                                                         *)
(* A step is one LangGraph superstep.  The two first reviews run in one    *)
(* superstep on the same state and their updates are merged at its end;    *)
(* a correction awaits the calls it makes inside one node.                 *)
(*                                                                         *)
(* Proposals and scores are those of Negotiation.  An evaluation is its    *)
(* score: veto, reason and suggestion go with it.                          *)
(***************************************************************************)
EXTENDS Integers, FiniteSets

CONSTANTS
  Slot,        \* decision slots
  Items,       \* the proposals, <<slot, proposer>>
  Insistence,  \* scores of a proposer for its own proposal, in quarters
  Score,       \* scores a reviewer may give
  MaxAttempts  \* PortfolioCrossReviewLimits.max_attempts, the first one included

Manager == {"AGGRESSIVE", "CONSERVATIVE"}

ASSUME CrossReviewAssumption ==
  /\ Items \subseteq Slot \X Manager
  /\ IsFiniteSet(Items)
  /\ \A m \in Manager : \E i \in Items : i[2] = m
  /\ Insistence \subseteq 1..4
  /\ Score \subseteq -4..4
  /\ MaxAttempts \in 1..3

VARIABLES
  pc,           \* the node LangGraph runs next
  own_score,    \* normalized_proposal_pool: the proposers' scores
  reviews,      \* aggressive_cross_review and conservative_cross_review
  pool,         \* cross_reviewed_proposal_pool
  application,  \* cross_review_application_run_summary
  report,       \* conflict_score_validation_report
  correction,   \* cross_review_correction_run_summary
  failure       \* what the cross review failed of

vars == <<pc, own_score, reviews, pool, application, report, correction, failure>>

-----------------------------------------------------------------------------
(* The proposals and the records about them.                               *)

Proposer(i) == i[2]
Other(m)    == IF m = "AGGRESSIVE" THEN "CONSERVATIVE" ELSE "AGGRESSIVE"
Rivals(i)   == {j \in Items \ {i} : j[1] = i[1]}

\* The counterpart proposals a manager has to score.
Reviewed(m) == {i \in Items : Proposer(i) = Other(m)}

NoScore     == 9
NoPrevious  == [i \in {} |-> NoScore]
NoReview    == [attempt |-> 0]
NoPool      == [i \in {} |-> NoReview]
NoReport    == [stop |-> "none"]
NoSummary   == [stop |-> "none"]

Attempts == [m \in Manager |-> reviews[m].attempt]
Reviewing == \A m \in Manager : reviews[m] # NoReview

\* conflict_score_source_fingerprint.
Source(p, attempts) == [items |-> p, attempts |-> attempts]

Init ==
  /\ own_score \in [Items -> Insistence]
  /\ pc = "review"
  /\ reviews = [m \in Manager |-> NoReview]
  /\ pool = NoPool
  /\ application = NoSummary
  /\ report = NoReport
  /\ correction = NoSummary
  /\ failure = "none"

-----------------------------------------------------------------------------
(* The review node (_build_cross_review_node), which both reviews and the  *)
(* corrections run.                                                        *)

\* _retry_feedback: what the report holds against a manager.
Feedback(m) == IF report.stop = "retry_required"
               THEN {v \in report.violations : v.manager = m} ELSE {}

\* Mutant: a manager who has to correct one score may correct them all.
MutEditable(m) == Reviewed(m)

\* The items whose evaluation a retry may change.
Editable(m) == IF Feedback(m) = {} THEN Reviewed(m) ELSE {v.item : v \in Feedback(m)}

\* The checks the node makes before it asks the model.  A first review finds no
\* record; a retry finds the record the report is about, with attempts left, and
\* the feedback repeats the scores of that record (PortfolioCrossReviewInput).
CanReview(m) ==
  IF Feedback(m) = {} THEN reviews[m] = NoReview
  ELSE /\ reviews[m] # NoReview
       /\ reviews[m].attempt = report.attempts[m]
       /\ reviews[m].attempt < MaxAttempts
       /\ \A v \in Feedback(m) : /\ v.own_score = own_score[v.own]
                                 /\ v.score = reviews[m].evaluations[v.item]

Record(m, evaluations) ==
  [attempt |-> reviews[m].attempt + 1, evaluations |-> evaluations,
   previous |-> IF reviews[m] = NoReview THEN NoPrevious ELSE reviews[m].evaluations,
   feedback |-> Feedback(m)]

\* The drafts the node accepts: every counterpart item is scored and a retry
\* leaves the items it was not asked about as they are (_validate_retry_output).
Drafts(m) ==
  {e \in [Reviewed(m) -> Score] :
     reviews[m] # NoReview =>
       \A i \in Reviewed(m) \ Editable(m) : e[i] = reviews[m].evaluations[i]}

\* How a call without an acceptable draft ends: the context is too large and no
\* call is made, or the model fails or its draft is rejected.
Failed == {"not_called", "failed"}

\* The outcomes of the calls of some managers, made together.
Calls(managers) == [managers -> Failed \cup {"accepted"}]
Accepting(calls) == {m \in DOMAIN calls : calls[m] = "accepted"}

Review ==
  /\ pc = "review"
  /\ pc' = "apply"
  /\ \E calls \in Calls({m \in Manager : CanReview(m)}) :
       \E a \in Drafts("AGGRESSIVE"), c \in Drafts("CONSERVATIVE") :
         LET draft == [m \in Manager |-> IF m = "AGGRESSIVE" THEN a ELSE c]
         IN /\ reviews' = [m \in Manager |-> IF m \in Accepting(calls)
                                             THEN Record(m, draft[m]) ELSE reviews[m]]
            /\ failure' = IF Accepting(calls) = Manager THEN "none" ELSE "call"
  /\ UNCHANGED <<own_score, pool, application, report, correction>>

-----------------------------------------------------------------------------
(* apply_cross_reviews.                                                    *)

\* Mutant: the previous score shown is the corrected one.
MutPrevious(i) ==
  LET review == reviews[Other(Proposer(i))]
      first  == review.previous = NoPrevious
  IN [score |-> review.evaluations[i],
      previous |-> IF first THEN NoScore ELSE review.evaluations[i],
      change |-> IF \E v \in review.feedback : v.item = i THEN review.attempt
                 ELSE IF first THEN 0 ELSE 1]

\* _apply_counterpart_evaluation.  change abstracts score_change_reason: 0 for a
\* first score, 1 for a score kept in a correction, else the attempt it was
\* corrected in.
Applied(i) ==
  LET review == reviews[Other(Proposer(i))]
      first  == review.previous = NoPrevious
  IN [score |-> review.evaluations[i],
      previous |-> IF first THEN NoScore ELSE review.previous[i],
      change |-> IF \E v \in review.feedback : v.item = i THEN review.attempt
                 ELSE IF first THEN 0 ELSE 1]

AppliedPool == [i \in Items |-> Applied(i)]

\* _existing_applied_pool_matches_state.
PoolIsApplied == Reviewing /\ pool = AppliedPool

\* The records the report blames follow it by one attempt, the others not at all
\* (_corrected_record_matches_report).
Expected(m) == report.attempts[m] + IF Feedback(m) # {} THEN 1 ELSE 0

RecordFollowsReport(m) ==
  /\ reviews[m].attempt = Expected(m)
  /\ Feedback(m) # {} =>
       /\ reviews[m].feedback = Feedback(m)
       /\ DOMAIN reviews[m].previous = Reviewed(m)
       /\ \A i \in Reviewed(m) \ Editable(m) :
            reviews[m].evaluations[i] = reviews[m].previous[i]

\* Mutant: the corrected evaluations are looked for in the pool they replace.
MutFollowsPool(m) == \A i \in Reviewed(m) : pool[i].score = reviews[m].evaluations[i]

\* _previous_evaluations_match_pool, _record_evaluations_match_pool.
RecordFollowsPool(m) ==
  \A i \in Reviewed(m) :
    pool[i].score = IF Feedback(m) # {} THEN reviews[m].previous[i]
                    ELSE reviews[m].evaluations[i]

\* _can_replace_pool_after_correction.
CanReplace ==
  /\ Reviewing
  /\ report.stop = "retry_required"
  /\ correction.stop = "complete"
  /\ correction.source = report.source
  /\ correction.requested = {v.manager : v \in report.violations}
  /\ correction.completed = correction.requested
  /\ report.source = Source(pool, report.attempts)
  /\ correction.attempts = Attempts
  /\ \A m \in Manager : RecordFollowsReport(m) /\ RecordFollowsPool(m)

Apply ==
  /\ pc = "apply"
  /\ pc' = "validate"
  /\ IF pool # NoPool /\ PoolIsApplied
     THEN UNCHANGED <<pool, application, failure>>
     ELSE IF pool # NoPool /\ ~ CanReplace
     THEN /\ application' = [stop |-> "invalid_state", attempts |-> Attempts]
          /\ failure' = "refused"
          /\ UNCHANGED pool
     ELSE IF ~ Reviewing
     THEN /\ application' = [stop |-> "missing_cross_review", attempts |-> Attempts]
          /\ UNCHANGED <<pool, failure>>
     ELSE /\ pool' = AppliedPool
          /\ application' = [stop |-> "complete", attempts |-> Attempts]
          /\ UNCHANGED failure
  /\ UNCHANGED <<own_score, reviews, report, correction>>

-----------------------------------------------------------------------------
(* validate_conflict_scores.                                               *)

\* The score each manager gives a proposal.
ScoreBy(m, i) == IF m = Proposer(i) THEN own_score[i] ELSE pool[i].score

\* Mutant: a sum of exactly one quarter is let through.
MutViolations ==
  {v \in [manager: Manager, own: Items, own_score: Insistence, item: Items, score: Score] :
     /\ Proposer(v.own) = v.manager
     /\ v.item \in Rivals(v.own)
     /\ v.own_score = own_score[v.own] /\ v.score = pool[v.item].score
     /\ v.own_score + v.score > 1}

Violation(i, j) ==
  [manager |-> Proposer(i), own |-> i, own_score |-> own_score[i],
   item |-> j, score |-> ScoreBy(Proposer(i), j)]

\* _collect_violations: a manager is in favour of both proposals of a slot.
Violations ==
  {Violation(p[1], p[2]) :
     p \in {q \in Items \X Items :
             /\ q[2] \in Rivals(q[1])
             /\ own_score[q[1]] + ScoreBy(Proposer(q[1]), q[2]) > 0}}

Blamed(violations) == {v.manager : v \in violations}

\* _validation_state_error.
StateIsValid ==
  /\ Reviewing
  /\ \A m \in Manager : reviews[m].attempt <= MaxAttempts
  /\ application.stop = "complete"
  /\ application.attempts = Attempts
  /\ \A i \in Items : pool[i].score = reviews[Other(Proposer(i))].evaluations[i]

Stop(violations) ==
  IF violations = {} THEN "valid"
  ELSE IF \E m \in Blamed(violations) : reviews[m].attempt >= MaxAttempts
  THEN "retry_exhausted" ELSE "retry_required"

Validate ==
  /\ pc = "validate"
  /\ IF pool = NoPool
     THEN /\ report' = [stop |-> "missing_cross_reviewed_pool", attempts |-> Attempts]
          /\ pc' = "ended"
          /\ UNCHANGED failure
     ELSE IF ~ StateIsValid
     THEN /\ report' = [stop |-> "invalid_state", attempts |-> Attempts]
          /\ pc' = "ended"
          /\ failure' = "refused"
     ELSE /\ report' = [stop |-> Stop(Violations), violations |-> Violations,
                        attempts |-> Attempts, source |-> Source(pool, Attempts)]
          /\ \/ report'.stop = "valid" /\ pc' = "gate" /\ UNCHANGED failure
             \/ report'.stop = "retry_required" /\ pc' = "correct" /\ UNCHANGED failure
             \/ report'.stop = "retry_exhausted" /\ pc' = "ended" /\ failure' = "scores"
  /\ UNCHANGED <<own_score, reviews, pool, application, correction>>

-----------------------------------------------------------------------------
(* correct_conflict_scores.                                                *)

\* _existing_correction_matches_state: the correction the report asks for was
\* made already, and its outcome is in place.
AlreadyCorrected ==
  /\ correction # NoSummary /\ Reviewing /\ pool # NoPool
  /\ report.stop = "retry_required"
  /\ correction.source = report.source
  /\ correction.requested = Blamed(report.violations)
  /\ correction.attempts = [m \in Manager |-> Expected(m)]
  /\ \/ /\ correction.stop = "complete"
        /\ correction.completed = correction.requested
        /\ \A m \in Manager : RecordFollowsReport(m)
        /\ IF Source(pool, report.attempts) = report.source
           THEN \A m \in Manager : RecordFollowsPool(m)
           ELSE PoolIsApplied
     \/ /\ correction.stop = "attempt_failed"
        /\ Source(pool, Attempts) = report.source
        /\ Attempts = report.attempts
        /\ correction.staged \subseteq correction.called
        /\ correction.called \subseteq correction.requested

\* _correction_state_error.
CanCorrect ==
  /\ Reviewing /\ pool # NoPool
  /\ report.source = Source(pool, Attempts)
  /\ report.attempts = Attempts
  /\ \A m \in Blamed(report.violations) : reviews[m].attempt < MaxAttempts

Corrected(calls, stop, attempts) ==
  [source |-> report.source, requested |-> DOMAIN calls,
   called |-> {m \in DOMAIN calls : calls[m] # "not_called"},
   staged |-> Accepting(calls),
   completed |-> IF stop = "complete" THEN DOMAIN calls ELSE {},
   attempts |-> attempts, stop |-> stop]


\* All the corrections that were asked for are committed, or none.
Committed(calls) == IF Accepting(calls) = DOMAIN calls THEN DOMAIN calls ELSE {}

Correct ==
  /\ pc = "correct"
  /\ IF AlreadyCorrected
     THEN /\ pc' = IF correction.stop = "complete" THEN "apply" ELSE "ended"
          /\ UNCHANGED <<reviews, correction, failure>>
     ELSE IF ~ CanCorrect \/ \E m \in Blamed(report.violations) : ~ CanReview(m)
     THEN /\ correction' = [stop |-> "invalid_state"]
          /\ pc' = "ended"
          /\ failure' = "refused"
          /\ UNCHANGED reviews
     ELSE \E calls \in Calls(Blamed(report.violations)) :
          \E a \in Drafts("AGGRESSIVE"), c \in Drafts("CONSERVATIVE") :
            LET draft == [m \in Manager |-> IF m = "AGGRESSIVE" THEN a ELSE c]
                done  == Accepting(calls) = DOMAIN calls
            IN /\ reviews' = [m \in Manager |-> IF m \in Committed(calls)
                                                THEN Record(m, draft[m]) ELSE reviews[m]]
               /\ correction' = Corrected(calls, IF done THEN "complete" ELSE "attempt_failed",
                                          [m \in Manager |-> Expected(m)])
               /\ pc' = IF done THEN "apply" ELSE "ended"
               /\ failure' = IF done THEN failure ELSE "call"
  /\ UNCHANGED <<own_score, pool, application, report>>

Ended == pc \in {"gate", "ended"} /\ UNCHANGED vars

Next == Review \/ Apply \/ Validate \/ Correct \/ Ended

Spec == Init /\ [][Next]_vars

-----------------------------------------------------------------------------
(* Properties.                                                             *)

\* Who supports both sides of a slot, by the reviews themselves.
Contradicts(m, i) ==
  /\ i \in Reviewed(m)
  /\ \E j \in Rivals(i) : Proposer(j) = m /\ own_score[j] + reviews[m].evaluations[i] > 0

\* Corrections are local and converge.  A correction is no second negotiation: it
\* changes the reviews of all managers who contradicted themselves together or of
\* none, and of their scores only the contradicting ones; everything else a
\* manager said stands.  And a report never holds against a manager what the
\* report before it did not, so that a manager who was in order is never asked
\* again, nor anyone more often than the limit says.
CorrectionsConverge ==
  [][/\ pc = "correct" /\ reviews' # reviews =>
          \A m \in Manager :
            /\ (reviews'[m] # reviews[m]) <=> \E i \in Items : Contradicts(m, i)
            /\ reviews'[m].attempt <= MaxAttempts
            /\ \A i \in Reviewed(m) :
                 reviews'[m].evaluations[i] # reviews[m].evaluations[i] => Contradicts(m, i)
     /\ report # NoReport /\ report' # report =>
          \A v \in report'.violations : \E w \in report.violations :
            v.own = w.own /\ v.item = w.item]_vars

\* The pool tells how its scores came about: a score that is replaced is kept as
\* the previous score of the one that replaces it, which names the attempt when it
\* differs; the scores of a manager who was not asked again stay as they are.
AuditTrail ==
  [][pool # NoPool /\ pool' # pool =>
       \A i \in Items :
         LET reviewer == Other(Proposer(i))
         IN /\ (pool'[i].previous = pool[i].score) \/ pool'[i] = pool[i]
            /\ pool'[i].score # pool[i].score =>
                 pool'[i].change = reviews[reviewer].attempt /\ reviews[reviewer].attempt > 1
            /\ reviewer \notin Blamed(report.violations) => pool'[i] = pool[i]]_vars

\* The provenance checks of apply, validate and correct accept what the nodes
\* before them wrote, so that the cross review fails of a model or of scores only;
\* and a node that runs again on its own result changes nothing: apply finds the
\* pool it wrote, correct finds the correction it made or the attempt that failed,
\* and no model is asked a second time.
BookkeepingAccepted ==
  /\ failure # "refused"
  /\ pc \in {"validate", "correct", "gate"} /\ pool # NoPool => PoolIsApplied
  /\ pc \in {"apply", "validate"} /\ correction # NoSummary => AlreadyCorrected
  /\ correction.stop = "attempt_failed" => AlreadyCorrected

\* What passes the validation is what the negotiation starts from
\* (NegotiationProposalPool.from_cross_reviewed).
Gate == INSTANCE Negotiation WITH
  Required <- Slot, MaxRounds <- 1,
  pool <- [i \in Items |->
             [status |-> "PROPOSED", revision |-> 1, scored |-> 1,
              scores |-> [m \in Manager |-> ScoreBy(m, i)]]],
  Score <- Score \cup Insistence, debate_round <- 0,
  report <- [round |-> -1], application <- [round |-> 0], validation <- [round |-> 0],
  exchanges <- {}, revisions <- {}, score_records <- {}, rounds <- {},
  recommendation <- [stop |-> "none"], failure <- failure
HandsOver == pc = "gate" => Gate!Init
=============================================================================
