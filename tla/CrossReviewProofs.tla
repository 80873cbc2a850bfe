-------------------------- MODULE CrossReviewProofs --------------------------
(***************************************************************************)
(* Proofs about CrossReview, for every value of its constants.             *)
(*                                                                         *)
(* What the nodes know of each other goes through their records.  The      *)
(* inductive invariant says, node by node, which of them are about the     *)
(* pool as it is and which about the pool that the report was made for.    *)
(***************************************************************************)
EXTENDS CrossReview, TLAPS, FiniteSetTheorems

-----------------------------------------------------------------------------
(* The inductive invariant.                                                *)

Evaluations(m) == [Reviewed(m) -> Score]

\* A manager has no review, or one with a score for every counterpart proposal.
ReviewsTyped ==
  /\ own_score \in [Items -> Insistence]
  /\ reviews = [m \in Manager |-> reviews[m]]
  /\ \A m \in Manager :
       \/ reviews[m] = NoReview
       \/ /\ reviews[m].attempt \in 1..MaxAttempts
          /\ reviews[m].evaluations \in Evaluations(m)
          /\ reviews[m].previous \in {NoPrevious} \cup Evaluations(m)

\* The contradictions of a pool.
Conflict(p, v) ==
  /\ v.own \in Items /\ v.item \in Rivals(v.own)
  /\ v.manager = Proposer(v.own)
  /\ v.own_score = own_score[v.own] /\ v.score = p[v.item].score
  /\ v.own_score + v.score > 0

\* The pool a report was made for, and what it says of it.
Judged    == report.stop \in {"valid", "retry_required", "retry_exhausted"}
JudgedPool == report.source.items

JudgedPoolTyped ==
  /\ JudgedPool = [i \in Items |-> JudgedPool[i]]
  /\ \A i \in Items : /\ JudgedPool[i].score \in Score
                      /\ JudgedPool[i].change \in Nat
                      /\ JudgedPool[i].change <= report.attempts[Other(Proposer(i))]

ReportComplete ==
  /\ \A v \in report.violations : Conflict(JudgedPool, v)
  /\ \A i \in Items : \A j \in Rivals(i) :
       own_score[i] + JudgedPool[j].score > 0 =>
         \E v \in report.violations : v.own = i /\ v.item = j

ReportFits ==
  /\ report = NoReport \/ Judged \/ pc = "ended"
  /\ Judged =>
       /\ report.source = Source(JudgedPool, report.attempts)
       /\ report.attempts \in [Manager -> 1..MaxAttempts]
       /\ report.stop = "retry_required" => report.violations # {}
       /\ JudgedPoolTyped
       /\ ReportComplete

\* Before the first report.
FirstRound ==
  /\ pc = "review" => /\ \A m \in Manager : reviews[m] = NoReview
                      /\ report = NoReport
  /\ report = NoReport =>
       /\ correction = NoSummary
       /\ pc \in {"review", "apply"} => pool = NoPool
       /\ pc = "validate" => (pool = NoPool <=> ~ Reviewing)
       /\ pc \in {"review", "apply", "validate"}

\* The pool that is validated, and what was found valid or wrong, is that of the
\* reviews.
PoolFits ==
  /\ pc \in {"validate", "correct", "gate"} /\ pool # NoPool =>
       /\ PoolIsApplied
       /\ application = [stop |-> "complete", attempts |-> Attempts]
  /\ pc \in {"correct", "gate"} =>
       /\ Reviewing /\ pool # NoPool
       /\ pool = JudgedPool
       /\ report.attempts = Attempts
       /\ report.stop = IF pc = "gate" THEN "valid" ELSE "retry_required"
       /\ pc = "gate" => report.violations = {}

\* A correction that was made and not reported on follows its report: the blamed
\* scores replaced those of the judged pool, the others are those of the judged pool.
CorrectionFits ==
  /\ correction.stop = "complete" => correction # NoSummary
  /\ pc \in {"apply", "validate"} /\ report # NoReport =>
       /\ report.stop = "retry_required"
       /\ Reviewing /\ pool # NoPool
       /\ correction.stop = "complete"
       /\ correction.source = report.source
       /\ correction.requested = Blamed(report.violations)
       /\ correction.completed = correction.requested
       /\ correction.attempts = Attempts
       /\ \A m \in Manager :
            /\ RecordFollowsReport(m)
            /\ Feedback(m) # {} =>
                 \A i \in Reviewed(m) : JudgedPool[i].score = reviews[m].previous[i]
            /\ Feedback(m) = {} =>
                 \A i \in Reviewed(m) : JudgedPool[i] = Applied(i)
       /\ pc = "apply" => pool = JudgedPool
  /\ pc = "correct" =>
       /\ \A m \in Blamed(report.violations) : reviews[m].attempt < MaxAttempts
       /\ \/ correction = NoSummary
          \/ correction.stop = "complete" /\ correction.source # report.source
  /\ correction.stop = "attempt_failed" => pc = "ended" /\ AlreadyCorrected

\* The run has failed of nothing while the reviews are complete and under way.
NotFailed ==
  /\ failure \in {"none", "call", "scores"}
  /\ pc \in {"apply", "validate"} /\ Reviewing => failure = "none"
  /\ pc \in {"correct", "gate"} => failure = "none"

IInv ==
  /\ pc \in {"review", "apply", "validate", "correct", "gate", "ended"}
  /\ ReviewsTyped
  /\ ReportFits
  /\ FirstRound
  /\ PoolFits
  /\ CorrectionFits
  /\ NotFailed

-----------------------------------------------------------------------------
(* Proposals, their rivals and their reviewers.                            *)

LEMMA Managers ==
  /\ \A m \in Manager : Other(m) \in Manager /\ Other(m) # m /\ Other(Other(m)) = m
  /\ \A m, n \in Manager : n # m => n = Other(m)
BY DEF Manager, Other

LEMMA Reviewers ==
  /\ \A m \in Manager : /\ Reviewed(m) \subseteq Items
                        /\ Reviewed(m) # {}
                        /\ \A i \in Reviewed(m) : Other(Proposer(i)) = m
  /\ \A i \in Items : /\ Proposer(i) \in Manager
                      /\ Other(Proposer(i)) \in Manager
                      /\ i \in Reviewed(Other(Proposer(i)))
<1>1. \A i \in Items : Proposer(i) \in Manager
  BY CrossReviewAssumption DEF Proposer
<1>2. \A m \in Manager : \E i \in Items : Proposer(i) = Other(m)
  BY Managers, CrossReviewAssumption DEF Proposer
<1> QED
  BY <1>1, <1>2, Managers DEF Reviewed

\* A slot has one proposal of each manager at most.
LEMMA RivalIsOther ==
  ASSUME NEW i \in Items, NEW j \in Rivals(i)
  PROVE  /\ j \in Items /\ j # i /\ i \in Rivals(j)
         /\ Proposer(j) = Other(Proposer(i))
         /\ Proposer(i) = Other(Proposer(j))
         /\ j \in Reviewed(Proposer(i))
         /\ \A k \in Rivals(j) : k = i
<1>1. /\ j \in Items /\ j # i /\ j[1] = i[1] /\ i \in Rivals(j)
  BY DEF Rivals
<1>2. \A k, l \in Items : k[1] = l[1] /\ k[2] = l[2] => k = l
  BY CrossReviewAssumption
<1>3. Proposer(j) # Proposer(i)
  BY <1>1, <1>2 DEF Proposer
<1>4. /\ Proposer(j) = Other(Proposer(i))
      /\ Proposer(i) = Other(Proposer(j))
  BY <1>1, <1>3, Managers, Reviewers
<1>5. j \in Reviewed(Proposer(i))
  BY <1>1, <1>4, Reviewers
<1>6. ASSUME NEW k \in Rivals(j) PROVE k = i
  <2>1. k \in Items /\ k # j /\ k[1] = j[1]
    BY DEF Rivals
  <2>2. Proposer(k) # Proposer(j)
    BY <1>1, <1>2, <2>1 DEF Proposer
  <2>3. Proposer(k) = Proposer(i)
    BY <1>1, <1>4, <2>1, <2>2, Managers, Reviewers
  <2> QED
    BY <1>1, <1>2, <2>1, <2>3 DEF Proposer
<1> QED
  BY <1>1, <1>4, <1>5, <1>6

LEMMA ScoresAreNumbers ==
  /\ \A s \in Score : s \in Int
  /\ \A s \in Insistence : s \in Int /\ s > 0
<1>1. \A s \in -4..4 : s \in Int
  OBVIOUS
<1>2. \A s \in 1..4 : s \in Int /\ s > 0
  OBVIOUS
<1> QED
  BY <1>1, <1>2, CrossReviewAssumption

LEMMA ItemsExist == Items # {}
BY CrossReviewAssumption DEF Manager

LEMMA SomePool == \A f : [i \in Items |-> f[i]] # NoPool
<1>1. ASSUME NEW f, [i \in Items |-> f[i]] = NoPool PROVE FALSE
  <2>1. DOMAIN [i \in Items |-> f[i]] = DOMAIN NoPool
    BY <1>1
  <2>2. DOMAIN NoPool = {}
    BY DEF NoPool
  <2> QED
    BY <2>1, <2>2, ItemsExist
<1> QED
  BY <1>1

LEMMA SomePrevious == \A m \in Manager : \A e : DOMAIN e = Reviewed(m) => e # NoPrevious
<1>1. DOMAIN NoPrevious = {}
  BY DEF NoPrevious
<1> QED
  BY <1>1, Reviewers

-----------------------------------------------------------------------------
(* What a pool says of the reviews.                                        *)

\* What apply writes about a proposal.
Writes(i) ==
  LET review == reviews[Other(Proposer(i))]
  IN /\ AppliedPool[i] = Applied(i)
     /\ Applied(i).score = review.evaluations[i]
     /\ Applied(i).score \in Score
     /\ Applied(i).change \in Nat
     /\ Applied(i).change <= review.attempt
     /\ review.previous # NoPrevious => Applied(i).previous = review.previous[i]
     /\ \A v \in review.feedback : v.item = i => Applied(i).change = review.attempt

LEMMA AppliedItem ==
  ASSUME ReviewsTyped, Reviewing, NEW i \in Items
  PROVE  Writes(i)
<1> DEFINE m == Other(Proposer(i))
           review == reviews[m]
<1>1. m \in Manager /\ i \in Reviewed(m)
  BY Reviewers
<1>2. /\ review.attempt \in 1..MaxAttempts
      /\ review.evaluations \in Evaluations(m)
  BY <1>1 DEF ReviewsTyped, Reviewing
<1>3. review.evaluations[i] \in Score /\ review.attempt \in Nat /\ review.attempt >= 1
  BY <1>1, <1>2, CrossReviewAssumption DEF Evaluations
<1> QED
  BY <1>3 DEF Writes, AppliedPool, Applied

\* The pool that is applied is one, and every attempt it names is made.
LEMMA AppliedIsPool ==
  ASSUME ReviewsTyped, Reviewing
  PROVE  /\ AppliedPool # NoPool
         /\ AppliedPool = [i \in Items |-> AppliedPool[i]]
         /\ \A i \in Items : /\ AppliedPool[i] = Applied(i)
                             /\ AppliedPool[i].score \in Score
                             /\ AppliedPool[i].change \in Nat
                             /\ AppliedPool[i].change <= Attempts[Other(Proposer(i))]
<1>1. AppliedPool = [i \in Items |-> AppliedPool[i]]
  BY DEF AppliedPool
<1>2. \A i \in Items : Attempts[Other(Proposer(i))] = reviews[Other(Proposer(i))].attempt
  BY Reviewers DEF Attempts
<1> QED
  BY <1>1, <1>2, SomePool, AppliedItem DEF Writes

LEMMA ScoreOfRival ==
  ASSUME NEW i \in Items, NEW j \in Rivals(i)
  PROVE  ScoreBy(Proposer(i), j) = pool[j].score
BY RivalIsOther, Managers, Reviewers DEF ScoreBy

\* The validator reports every contradiction and nothing else.
LEMMA ViolationsComplete ==
  /\ \A v \in Violations : Conflict(pool, v)
  /\ \A i \in Items : \A j \in Rivals(i) :
       own_score[i] + pool[j].score > 0 => \E v \in Violations : v.own = i /\ v.item = j
<1>1. ASSUME NEW v \in Violations PROVE Conflict(pool, v)
  <2>1. PICK p \in Items \X Items :
          /\ p[2] \in Rivals(p[1])
          /\ own_score[p[1]] + ScoreBy(Proposer(p[1]), p[2]) > 0
          /\ v = Violation(p[1], p[2])
    BY DEF Violations
  <2> QED
    BY <2>1, ScoreOfRival DEF Conflict, Violation
<1>2. ASSUME NEW i \in Items, NEW j \in Rivals(i), own_score[i] + pool[j].score > 0
      PROVE  \E v \in Violations : v.own = i /\ v.item = j
  <2>1. own_score[i] + ScoreBy(Proposer(i), j) > 0 /\ j \in Items
    BY <1>2, ScoreOfRival DEF Rivals
  <2>2. <<i, j>> \in {p \in Items \X Items :
                       /\ p[2] \in Rivals(p[1])
                       /\ own_score[p[1]] + ScoreBy(Proposer(p[1]), p[2]) > 0}
    BY <2>1
  <2>3. Violation(i, j) \in Violations
    BY <2>2 DEF Violations
  <2> QED
    BY <2>3 DEF Violation
<1> QED
  BY <1>1, <1>2

-----------------------------------------------------------------------------
(* The steps preserve the invariant.                                       *)

LEMMA StartsRight == ASSUME Init PROVE IInv
<1>1. /\ \A m \in Manager : reviews[m] = NoReview
      /\ reviews = [m \in Manager |-> reviews[m]]
      /\ report = NoReport /\ correction = NoSummary /\ pool = NoPool
      /\ pc = "review" /\ failure = "none" /\ own_score \in [Items -> Insistence]
  BY DEF Init
<1>2. /\ report.stop = "none" /\ correction.stop = "none"
  BY <1>1 DEF NoReport, NoSummary
<1> QED
  BY <1>1, <1>2 DEF IInv, ReviewsTyped, ReportFits, Judged, FirstRound, PoolFits,
                    CorrectionFits, NotFailed

\* What a review leaves in the place of a manager's record.
Rewrites(m, draft) ==
  /\ Record(m, draft).attempt = reviews[m].attempt + 1
  /\ Record(m, draft).evaluations = draft
  /\ Record(m, draft).feedback = Feedback(m)
  /\ Record(m, draft).previous
       = IF reviews[m] = NoReview THEN NoPrevious ELSE reviews[m].evaluations
  /\ Record(m, draft).attempt \in 1..MaxAttempts
  /\ Record(m, draft).previous \in {NoPrevious} \cup Evaluations(m)
  /\ Record(m, draft) # NoReview

LEMMA RecordTyped ==
  ASSUME ReviewsTyped, NEW m \in Manager, NEW draft,
         reviews[m] = NoReview \/ reviews[m].attempt < MaxAttempts
  PROVE  Rewrites(m, draft)
<1>1. reviews[m].attempt \in 0..(MaxAttempts - 1)
  BY CrossReviewAssumption DEF ReviewsTyped, NoReview
<1>2. /\ Record(m, draft).attempt = reviews[m].attempt + 1
      /\ Record(m, draft).evaluations = draft
      /\ Record(m, draft).feedback = Feedback(m)
      /\ Record(m, draft).previous
           = IF reviews[m] = NoReview THEN NoPrevious ELSE reviews[m].evaluations
  BY DEF Record
<1>3. Record(m, draft).attempt \in 1..MaxAttempts
  BY <1>1, <1>2, CrossReviewAssumption
<1>4. Record(m, draft).previous \in {NoPrevious} \cup Evaluations(m)
  BY <1>2 DEF ReviewsTyped
<1>5. Record(m, draft) # NoReview
  BY <1>3, CrossReviewAssumption DEF NoReview
<1> QED
  BY <1>2, <1>3, <1>4, <1>5 DEF Rewrites

\* Nobody is held anything against before the first report.
LEMMA NoFeedback == ASSUME report = NoReport PROVE \A m : Feedback(m) = {}
BY DEF Feedback, NoReport

\* The drafts of both managers.
LEMMA BothDraft ==
  ASSUME NEW a \in Drafts("AGGRESSIVE"), NEW c \in Drafts("CONSERVATIVE")
  PROVE  \A m \in Manager :
           [n \in Manager |-> IF n = "AGGRESSIVE" THEN a ELSE c][m] \in Drafts(m)
BY DEF Manager

LEMMA ReviewStep == ASSUME IInv, Review PROVE IInv'
<1>1. /\ \A m \in Manager : reviews[m] = NoReview
      /\ report = NoReport /\ correction = NoSummary /\ pool = NoPool
      /\ pc' = "apply"
  BY DEF IInv, FirstRound, Review
<1>2. UNCHANGED <<own_score, pool, application, report, correction>>
  BY DEF Review
<1>3. PICK calls \in Calls({m \in Manager : CanReview(m)}) :
        \E a \in Drafts("AGGRESSIVE"), c \in Drafts("CONSERVATIVE") :
          LET draft == [m \in Manager |-> IF m = "AGGRESSIVE" THEN a ELSE c]
          IN /\ reviews' = [m \in Manager |-> IF m \in Accepting(calls)
                                              THEN Record(m, draft[m]) ELSE reviews[m]]
             /\ failure' = IF Accepting(calls) = Manager THEN "none" ELSE "call"
  BY DEF Review
<1>4. PICK draft :
        /\ \A m \in Manager : draft[m] \in Drafts(m)
        /\ reviews' = [m \in Manager |-> IF m \in Accepting(calls)
                                         THEN Record(m, draft[m]) ELSE reviews[m]]
        /\ failure' = IF Accepting(calls) = Manager THEN "none" ELSE "call"
  BY <1>3, BothDraft
<1>5. Accepting(calls) \subseteq Manager
  BY DEF Accepting, Calls
<1>6. \A m \in Manager : Rewrites(m, draft[m]) /\ draft[m] \in Evaluations(m)
  BY <1>1, <1>4, RecordTyped DEF IInv, Drafts, Evaluations
<1>7. ReviewsTyped'
  <2>1. \A m \in Manager :
          \/ reviews'[m] = NoReview
          \/ /\ reviews'[m].attempt \in 1..MaxAttempts
             /\ reviews'[m].evaluations \in Evaluations(m)
             /\ reviews'[m].previous \in {NoPrevious} \cup Evaluations(m)
    BY <1>1, <1>4, <1>6 DEF Rewrites
  <2>2. reviews' = [m \in Manager |-> reviews'[m]]
    BY <1>4
  <2> QED
    BY <1>2, <2>1, <2>2 DEF IInv, ReviewsTyped, Evaluations
<1>8. Reviewing' => Accepting(calls) = Manager
  BY <1>1, <1>4, <1>5 DEF Reviewing
<1>9. report.stop = "none" /\ correction.stop = "none"
  BY <1>1 DEF NoReport, NoSummary
<1> QED
  BY <1>1, <1>2, <1>4, <1>7, <1>8, <1>9
     DEF IInv, ReportFits, Judged, FirstRound, PoolFits, CorrectionFits, NotFailed

\* Whom a report blames.
LEMMA BlamedHaveFeedback ==
  ASSUME report.stop = "retry_required"
  PROVE  /\ \A m : m \in Blamed(report.violations) <=> Feedback(m) # {}
         /\ \A m : \A v : v \in Feedback(m) <=> v \in report.violations /\ v.manager = m
BY DEF Blamed, Feedback

LEMMA ConflictIsAboutReviewed ==
  ASSUME NEW p, NEW v, Conflict(p, v)
  PROVE  /\ v.manager \in Manager /\ v.item \in Reviewed(v.manager)
         /\ v.item \in Items /\ v.own \in Items
         /\ Other(Proposer(v.item)) = v.manager
<1>1. v.own \in Items /\ v.item \in Rivals(v.own) /\ v.manager = Proposer(v.own)
  BY DEF Conflict
<1> QED
  BY <1>1, RivalIsOther, Reviewers

\* A correction was made and has not been reported on.
NotReported == pc \in {"apply", "validate"} /\ report # NoReport

\* The pool of a correction is not the one it corrects: it names a new attempt.
LEMMA CorrectionShows ==
  ASSUME IInv, NotReported
  PROVE  AppliedPool # JudgedPool
<1>1. /\ report.stop = "retry_required" /\ Reviewing
      /\ \A m \in Manager : RecordFollowsReport(m)
  BY DEF IInv, CorrectionFits, NotReported
<1>2. /\ report.violations # {} /\ JudgedPoolTyped
      /\ report.attempts \in [Manager -> 1..MaxAttempts]
      /\ \A v \in report.violations : Conflict(JudgedPool, v)
  BY <1>1 DEF IInv, ReportFits, Judged, ReportComplete
<1>3. PICK v \in report.violations : Conflict(JudgedPool, v)
  BY <1>2
<1> DEFINE m == v.manager
           i == v.item
<1>4. m \in Manager /\ i \in Items /\ Other(Proposer(i)) = m
  BY <1>3, ConflictIsAboutReviewed
<1>5. v \in Feedback(m)
  BY <1>1, BlamedHaveFeedback
<1>6. v \in reviews[m].feedback /\ reviews[m].attempt = report.attempts[m] + 1
  BY <1>1, <1>4, <1>5 DEF RecordFollowsReport, Expected
<1>7. AppliedPool[i].change = report.attempts[m] + 1
  BY <1>1, <1>4, <1>6, AppliedItem DEF IInv, Writes
<1>8. JudgedPool[i].change <= report.attempts[m] /\ JudgedPool[i].change \in Nat
  BY <1>2, <1>4 DEF JudgedPoolTyped
<1>9. report.attempts[m] \in Nat
  BY <1>2, <1>4, CrossReviewAssumption
<1> QED
  BY <1>7, <1>8, <1>9

\* The records follow the pool they were asked about.
LEMMA CorrectionFollowsPool ==
  ASSUME IInv, NotReported
  PROVE  \A m \in Manager : \A i \in Reviewed(m) :
           JudgedPool[i].score = IF Feedback(m) # {} THEN reviews[m].previous[i]
                                 ELSE reviews[m].evaluations[i]
<1>1. /\ report.stop = "retry_required" /\ Reviewing
      /\ \A m \in Manager :
            /\ Feedback(m) # {} =>
                 \A i \in Reviewed(m) : JudgedPool[i].score = reviews[m].previous[i]
            /\ Feedback(m) = {} =>
                 \A i \in Reviewed(m) : JudgedPool[i] = Applied(i)
  BY DEF IInv, CorrectionFits, NotReported
<1>2. ASSUME NEW m \in Manager, NEW i \in Reviewed(m)
      PROVE  Applied(i).score = reviews[m].evaluations[i]
  BY <1>1, Reviewers, AppliedItem DEF IInv, Writes
<1> QED
  BY <1>1, <1>2

LEMMA CorrectionCanReplace ==
  ASSUME IInv, NotReported, pc = "apply"
  PROVE  CanReplace /\ ~ PoolIsApplied /\ pool # NoPool
<1>1. /\ report.stop = "retry_required" /\ Reviewing /\ pool # NoPool
      /\ correction.stop = "complete" /\ correction.source = report.source
      /\ correction.requested = Blamed(report.violations)
      /\ correction.completed = correction.requested
      /\ correction.attempts = Attempts
      /\ \A m \in Manager : RecordFollowsReport(m)
      /\ pool = JudgedPool
  BY DEF IInv, CorrectionFits, NotReported
<1>2. report.source = Source(pool, report.attempts)
  BY <1>1 DEF IInv, ReportFits, Judged
<1>3. \A m \in Manager : RecordFollowsPool(m)
  BY <1>1, CorrectionFollowsPool DEF RecordFollowsPool
<1>4. ~ PoolIsApplied
  BY <1>1, CorrectionShows DEF PoolIsApplied
<1> QED
  BY <1>1, <1>2, <1>3, <1>4 DEF CanReplace, Blamed

\* What the properties of a state are read off when its reviews and report stay.
LEMMA ReviewsStay ==
  ASSUME UNCHANGED <<own_score, reviews, report>>
  PROVE  /\ (Reviewing <=> Reviewing') /\ AppliedPool' = AppliedPool /\ Attempts' = Attempts
         /\ \A m : Feedback(m)' = Feedback(m) /\ Expected(m)' = Expected(m)
         /\ \A m \in Manager : RecordFollowsReport(m) <=> RecordFollowsReport(m)'
         /\ \A i \in Items : Applied(i)' = Applied(i)
         /\ JudgedPool' = JudgedPool /\ (Judged <=> Judged')
         /\ ReviewsTyped => ReviewsTyped'
         /\ JudgedPoolTyped /\ ReportComplete => (JudgedPoolTyped /\ ReportComplete)'
<1>1. /\ \A m : Feedback(m)' = Feedback(m)
      /\ (Reviewing <=> Reviewing') /\ Attempts' = Attempts
  BY DEF Feedback, Reviewing, Attempts
<1>2. \A m : Expected(m)' = Expected(m) /\ Editable(m)' = Editable(m)
  BY <1>1 DEF Expected, Editable, Feedback
<1>3. \A m \in Manager : RecordFollowsReport(m) <=> RecordFollowsReport(m)'
  BY <1>1, <1>2 DEF RecordFollowsReport
<1>4. AppliedPool' = AppliedPool /\ \A i \in Items : Applied(i)' = Applied(i)
  BY DEF AppliedPool, Applied
<1>5. JudgedPool' = JudgedPool /\ (Judged <=> Judged')
  BY DEF JudgedPool, Judged
<1>6. ReviewsTyped => ReviewsTyped'
  BY DEF ReviewsTyped
<1>7. JudgedPoolTyped /\ ReportComplete => (JudgedPoolTyped /\ ReportComplete)'
  BY <1>5 DEF JudgedPoolTyped, ReportComplete, Conflict
<1> QED
  BY <1>1, <1>2, <1>3, <1>4, <1>5, <1>6, <1>7

\* What apply does, the invariant given: it leaves an empty pool, for want of reviews,
\* or writes one.
Applies ==
  \/ ~ Reviewing /\ report = NoReport /\ pool' = pool /\ pool = NoPool
  \/ Reviewing /\ pool' = AppliedPool /\ application' = [stop |-> "complete", attempts |-> Attempts]

LEMMA ApplyShape ==
  ASSUME IInv, Apply
  PROVE  /\ Applies
         /\ pc = "apply" /\ pc' = "validate" /\ failure' = failure
         /\ UNCHANGED <<own_score, reviews, report, correction>>
<1>1. pc = "apply" /\ pc' = "validate" /\ UNCHANGED <<own_score, reviews, report, correction>>
  BY DEF Apply
<1>2. CASE report = NoReport
  <2>1. pool = NoPool
    BY <1>1, <1>2 DEF IInv, FirstRound
  <2> QED
    BY <1>1, <1>2, <2>1 DEF Apply, Applies
<1>3. CASE report # NoReport
  <2>1. CanReplace /\ ~ PoolIsApplied /\ pool # NoPool
    BY <1>1, <1>3, CorrectionCanReplace DEF NotReported
  <2> QED
    BY <1>1, <2>1 DEF Apply, Applies, CanReplace
<1> QED
  BY <1>2, <1>3

LEMMA ApplyStep == ASSUME IInv, Apply PROVE IInv'
<1>1. /\ Applies
      /\ pc = "apply" /\ pc' = "validate" /\ failure' = failure
      /\ UNCHANGED <<own_score, reviews, report, correction>>
  BY ApplyShape
<1>2. /\ (Reviewing <=> Reviewing') /\ AppliedPool' = AppliedPool /\ Attempts' = Attempts
      /\ \A m : Feedback(m)' = Feedback(m) /\ Expected(m)' = Expected(m)
      /\ \A m \in Manager : RecordFollowsReport(m) <=> RecordFollowsReport(m)'
      /\ \A i \in Items : Applied(i)' = Applied(i)
      /\ JudgedPool' = JudgedPool /\ (Judged <=> Judged')
      /\ ReviewsTyped => ReviewsTyped'
      /\ JudgedPoolTyped /\ ReportComplete => (JudgedPoolTyped /\ ReportComplete)'
  BY <1>1, ReviewsStay
<1>3. Reviewing => AppliedPool # NoPool
  BY AppliedIsPool DEF IInv
<1>4. ReviewsTyped'
  BY <1>2 DEF IInv
<1>5. ReportFits'
  BY <1>1, <1>2 DEF IInv, ReportFits
<1>6. FirstRound'
  BY <1>1, <1>2, <1>3 DEF IInv, FirstRound, Applies
<1>7. PoolFits'
  BY <1>1, <1>2 DEF PoolFits, Applies, PoolIsApplied
<1>8. CorrectionFits'
  <2>1. correction.stop # "attempt_failed"
    BY <1>1 DEF IInv, CorrectionFits
  <2>2. CASE report = NoReport
    BY <1>1, <2>1, <2>2 DEF IInv, CorrectionFits
  <2>3. CASE report # NoReport
    <3>1. /\ report.stop = "retry_required"
          /\ Reviewing /\ pool # NoPool
          /\ correction.stop = "complete" /\ correction.source = report.source
          /\ correction.requested = Blamed(report.violations)
          /\ correction.completed = correction.requested
          /\ correction.attempts = Attempts
          /\ correction # NoSummary
      BY <1>1, <2>3 DEF IInv, CorrectionFits
    <3>2. \A m \in Manager :
            /\ RecordFollowsReport(m)
            /\ Feedback(m) # {} =>
                 \A i \in Reviewed(m) : JudgedPool[i].score = reviews[m].previous[i]
            /\ Feedback(m) = {} =>
                 \A i \in Reviewed(m) : JudgedPool[i] = Applied(i)
      BY <1>1, <2>3 DEF IInv, CorrectionFits
    <3>3. \A m \in Manager :
            /\ RecordFollowsReport(m)'
            /\ Feedback(m)' # {} =>
                 \A i \in Reviewed(m) : JudgedPool'[i].score = reviews'[m].previous[i]
            /\ Feedback(m)' = {} =>
                 \A i \in Reviewed(m) : JudgedPool'[i] = Applied(i)'
      BY <1>1, <1>2, <3>2, Reviewers
    <3>4. pool' # NoPool
      BY <1>1, <1>3, <3>1 DEF Applies
    <3>5. Blamed(report.violations)' = Blamed(report.violations)
      BY <1>1 DEF Blamed
    <3>6. \A m : Reviewed(m)' = Reviewed(m)
      BY DEF Reviewed
    <3> QED
      BY <1>1, <1>2, <2>1, <3>1, <3>3, <3>4, <3>5, <3>6 DEF CorrectionFits
  <2> QED
    BY <2>2, <2>3
<1>9. NotFailed'
  BY <1>1, <1>2 DEF IInv, NotFailed
<1> QED
  BY <1>1, <1>4, <1>5, <1>6, <1>7, <1>8, <1>9 DEF IInv

\* A report on the reviewed pool.
Reports ==
  /\ Reviewing /\ PoolIsApplied
  /\ report' = [stop |-> Stop(Violations), violations |-> Violations,
                attempts |-> Attempts, source |-> Source(pool, Attempts)]
  /\ \/ report'.stop = "valid" /\ pc' = "gate" /\ UNCHANGED failure
     \/ report'.stop = "retry_required" /\ pc' = "correct" /\ UNCHANGED failure
     \/ report'.stop = "retry_exhausted" /\ pc' = "ended" /\ failure' = "scores"

\* Nothing was reviewed, so there is nothing to validate.
Misses ==
  /\ pool = NoPool /\ report = NoReport
  /\ report' = [stop |-> "missing_cross_reviewed_pool", attempts |-> Attempts]
  /\ pc' = "ended"
  /\ UNCHANGED failure

\* The validator never refuses what apply wrote.
LEMMA ValidateShape ==
  ASSUME IInv, Validate
  PROVE  /\ (Misses /\ pool = NoPool) \/ (Reports /\ pool # NoPool)
         /\ pc = "validate"
         /\ UNCHANGED <<own_score, reviews, pool, application, correction>>
<1>1. /\ pc = "validate"
      /\ UNCHANGED <<own_score, reviews, pool, application, correction>>
  BY DEF Validate
<1>2. CASE pool = NoPool
  <2>1. report = NoReport
    BY <1>1, <1>2 DEF IInv, CorrectionFits
  <2> QED
    BY <1>1, <1>2, <2>1 DEF Validate, Misses
<1>3. CASE pool # NoPool
  <2>1. PoolIsApplied /\ application = [stop |-> "complete", attempts |-> Attempts]
    BY <1>1, <1>3 DEF IInv, PoolFits
  <2>2. Reviewing /\ pool = AppliedPool
    BY <2>1 DEF PoolIsApplied
  <2>3. \A m \in Manager : reviews[m].attempt \in 1..MaxAttempts
    BY <2>2 DEF IInv, ReviewsTyped, Reviewing
  <2>4. \A i \in Items : pool[i].score = reviews[Other(Proposer(i))].evaluations[i]
    BY <2>2, AppliedItem DEF IInv, Writes
  <2>5. StateIsValid
    BY <2>1, <2>2, <2>3, <2>4, CrossReviewAssumption DEF StateIsValid
  <2> QED
    BY <1>1, <1>3, <2>1, <2>2, <2>5 DEF Validate, Reports
<1> QED
  BY <1>1, <1>2, <1>3

LEMMA StopIs ==
  ASSUME ReviewsTyped, Reviewing, NEW violations,
         Blamed(violations) \subseteq Manager
  PROVE  /\ Stop(violations) \in {"valid", "retry_required", "retry_exhausted"}
         /\ Stop(violations) = "valid" <=> violations = {}
         /\ Stop(violations) = "retry_required" =>
              \A m \in Blamed(violations) : reviews[m].attempt < MaxAttempts
<1>1. \A m \in Manager : reviews[m].attempt \in Int
  BY CrossReviewAssumption DEF ReviewsTyped, Reviewing
<1> QED
  BY <1>1, CrossReviewAssumption DEF Stop

LEMMA ReportIsComplete ==
  ASSUME IInv, Reports, UNCHANGED <<own_score, reviews, pool>>
  PROVE  /\ JudgedPool' = pool
         /\ ReportFits'
         /\ report'.stop \in {"valid", "retry_required", "retry_exhausted"}
         /\ report' # NoReport
<1>1. JudgedPool' = pool
  BY DEF JudgedPool, Reports, Source
<1>2. /\ report'.attempts = Attempts /\ report'.violations = Violations
      /\ report'.source = Source(pool, Attempts) /\ report'.stop = Stop(Violations)
  BY DEF Reports
<1>3. /\ pool # NoPool
      /\ pool = [i \in Items |-> pool[i]]
      /\ \A i \in Items : /\ pool[i].score \in Score
                          /\ pool[i].change \in Nat
                          /\ pool[i].change <= Attempts[Other(Proposer(i))]
  BY AppliedIsPool DEF IInv, Reports, PoolIsApplied
<1>4. Attempts \in [Manager -> 1..MaxAttempts]
  BY DEF Attempts, IInv, ReviewsTyped, Reports, Reviewing
<1>5. JudgedPoolTyped'
  BY <1>1, <1>2, <1>3 DEF JudgedPoolTyped
<1>6. ReportComplete'
  <2>1. \A p, v : Conflict(p, v)' <=> Conflict(p, v)
    BY DEF Conflict
  <2> QED
    BY <1>1, <1>2, <2>1, ViolationsComplete DEF ReportComplete, Conflict
<1>7. Blamed(Violations) \subseteq Manager
  BY ViolationsComplete, ConflictIsAboutReviewed DEF Blamed
<1>8. /\ report'.stop \in {"valid", "retry_required", "retry_exhausted"}
      /\ report'.stop = "valid" <=> Violations = {}
  BY <1>2, <1>7, StopIs DEF IInv, Reports
<1>9. report' # NoReport
  BY <1>8 DEF NoReport
<1> QED
  BY <1>1, <1>2, <1>4, <1>5, <1>6, <1>8, <1>9 DEF ReportFits, Judged, Source

LEMMA ValidateStep == ASSUME IInv, Validate PROVE IInv'
<1>1. /\ (Misses /\ pool = NoPool) \/ (Reports /\ pool # NoPool)
      /\ pc = "validate"
      /\ UNCHANGED <<own_score, reviews, pool, application, correction>>
  BY ValidateShape
<1>2. /\ ReviewsTyped' /\ (Reviewing <=> Reviewing') /\ Attempts' = Attempts
      /\ AppliedPool' = AppliedPool
  BY <1>1 DEF IInv, ReviewsTyped, Evaluations, Reviewed, Reviewing, Attempts, AppliedPool, Applied
<1>3. correction.stop # "attempt_failed"
  BY <1>1 DEF IInv, CorrectionFits
<1>4. CASE Misses
  <2>1. report'.stop = "missing_cross_reviewed_pool" /\ pc' = "ended" /\ failure' = failure
    BY <1>4 DEF Misses
  <2>2. ReportFits' /\ FirstRound'
    BY <2>1 DEF ReportFits, FirstRound, Judged, NoReport
  <2>3. PoolFits' /\ CorrectionFits' /\ NotFailed'
    BY <1>1, <1>3, <2>1 DEF IInv, PoolFits, CorrectionFits, NotFailed
  <2> QED
    BY <1>2, <2>1, <2>2, <2>3 DEF IInv
<1>5. CASE Reports /\ pool # NoPool
  <2>1. /\ JudgedPool' = pool /\ ReportFits' /\ report' # NoReport
        /\ report'.stop \in {"valid", "retry_required", "retry_exhausted"}
    BY <1>1, <1>5, ReportIsComplete
  <2>2. /\ report'.attempts = Attempts /\ report'.violations = Violations
        /\ report'.source = Source(pool, Attempts) /\ report'.stop = Stop(Violations)
        /\ Reviewing /\ PoolIsApplied
        /\ pc' \in {"gate", "correct", "ended"}
        /\ pc' = "gate" => report'.stop = "valid"
        /\ pc' = "correct" => report'.stop = "retry_required"
        /\ IF pc' = "ended" THEN failure' = "scores" ELSE failure' = failure
    BY <1>5 DEF Reports
  <2>3. Blamed(Violations) \subseteq Manager
    BY ViolationsComplete, ConflictIsAboutReviewed DEF Blamed
  <2>4. /\ report'.stop = "valid" <=> Violations = {}
        /\ report'.stop = "retry_required" =>
             \A m \in Blamed(Violations) : reviews[m].attempt < MaxAttempts
    BY <2>2, <2>3, StopIs DEF IInv
  <2>5. FirstRound'
    BY <2>1, <2>2 DEF FirstRound
  <2>6. PoolFits'
    <3>1. application = [stop |-> "complete", attempts |-> Attempts]
      BY <1>1, <1>5 DEF IInv, PoolFits
    <3>2. PoolIsApplied'
      BY <1>1, <1>2, <2>2 DEF PoolIsApplied
    <3> QED
      BY <1>1, <1>2, <1>5, <2>1, <2>2, <2>4, <3>1, <3>2 DEF PoolFits
  <2>7. correction = NoSummary \/ (correction.stop = "complete" /\ correction.source # report'.source)
    <3>1. CASE report = NoReport
      BY <3>1 DEF IInv, FirstRound
    <3>2. CASE report # NoReport
      <4>1. correction.stop = "complete" /\ correction.source = report.source
        BY <1>1, <3>2 DEF IInv, CorrectionFits
      <4>2. JudgedPool # pool
        BY <1>1, <2>2, <3>2, CorrectionShows DEF NotReported, PoolIsApplied
      <4> QED
        BY <2>2, <4>1, <4>2 DEF JudgedPool, Source
    <3> QED
      BY <3>1, <3>2
  <2>8. CorrectionFits'
    <3>1. correction.stop = "complete" => correction # NoSummary
      BY DEF IInv, CorrectionFits
    <3>2. Blamed(report'.violations) = Blamed(Violations)
      BY <2>2
    <3>3. pc' = "correct" => \A m \in Blamed(report'.violations) : reviews'[m].attempt < MaxAttempts
      BY <1>1, <2>2, <2>4, <3>2
    <3> QED
      BY <1>1, <1>3, <2>2, <2>7, <3>1, <3>3 DEF CorrectionFits, Blamed
  <2>9. NotFailed'
    BY <1>1, <2>2 DEF IInv, NotFailed
  <2> QED
    BY <1>2, <2>1, <2>2, <2>5, <2>6, <2>8, <2>9 DEF IInv
<1> QED
  BY <1>1, <1>4, <1>5

\* What correct finds: the report on the pool as it is, and no correction for it.
LEMMA CorrectFinds ==
  ASSUME IInv, pc = "correct"
  PROVE  /\ ~ AlreadyCorrected /\ CanCorrect
         /\ \A m \in Blamed(report.violations) : m \in Manager /\ CanReview(m)
         /\ Blamed(report.violations) # {}
         /\ report.stop = "retry_required" /\ pool = JudgedPool
         /\ Reviewing /\ pool # NoPool /\ PoolIsApplied
         /\ report.attempts = Attempts
         /\ report.source = Source(pool, Attempts)
<1>1. /\ Reviewing /\ pool # NoPool /\ PoolIsApplied
      /\ pool = JudgedPool
      /\ report.attempts = Attempts
      /\ report.stop = "retry_required"
  BY DEF IInv, PoolFits
<1>2. /\ report.source = Source(pool, Attempts)
      /\ report.violations # {}
      /\ \A v \in report.violations : Conflict(pool, v)
  BY <1>1 DEF IInv, ReportFits, Judged, ReportComplete
<1>3. /\ \A m \in Blamed(report.violations) : reviews[m].attempt < MaxAttempts
      /\ \/ correction = NoSummary
         \/ correction.stop = "complete" /\ correction.source # report.source
  BY DEF IInv, CorrectionFits
<1>4. ~ AlreadyCorrected
  BY <1>3 DEF AlreadyCorrected
<1>5. CanCorrect
  BY <1>1, <1>2, <1>3 DEF CanCorrect
<1>6. ASSUME NEW m \in Blamed(report.violations) PROVE m \in Manager /\ CanReview(m)
  <2>1. m \in Manager /\ Feedback(m) # {}
    BY <1>1, <1>2, BlamedHaveFeedback, ConflictIsAboutReviewed DEF Blamed
  <2>2. reviews[m] # NoReview /\ reviews[m].attempt = report.attempts[m]
    BY <1>1, <2>1 DEF Reviewing, Attempts
  <2>3. ASSUME NEW v \in Feedback(m)
        PROVE  v.own_score = own_score[v.own] /\ v.score = reviews[m].evaluations[v.item]
    <3>1. Conflict(pool, v) /\ v.manager = m
      BY <1>1, <1>2, BlamedHaveFeedback
    <3>2. v.item \in Items /\ Other(Proposer(v.item)) = m
      BY <3>1, ConflictIsAboutReviewed
    <3>3. pool[v.item].score = reviews[m].evaluations[v.item]
      BY <1>1, <3>2, AppliedItem DEF IInv, Writes, PoolIsApplied
    <3> QED
      BY <3>1, <3>3 DEF Conflict
  <2> QED
    BY <1>3, <2>1, <2>2, <2>3 DEF CanReview
<1>7. Blamed(report.violations) # {}
  BY <1>2 DEF Blamed
<1> QED
  BY <1>1, <1>2, <1>4, <1>5, <1>6, <1>7

\* Every blamed manager has corrected its review.
CorrectsAll(draft) ==
  /\ \A m \in Blamed(report.violations) : draft[m] \in Drafts(m)
  /\ reviews' = [m \in Manager |-> IF m \in Blamed(report.violations)
                                   THEN Record(m, draft[m]) ELSE reviews[m]]
  /\ pc' = "apply" /\ failure' = failure
  /\ correction'.stop = "complete"
  /\ correction'.completed = correction'.requested

\* A call failed, and no review is changed.
GivesUp ==
  /\ reviews' = reviews
  /\ pc' = "ended" /\ failure' = "call"
  /\ correction'.stop = "attempt_failed"
  /\ correction'.staged \subseteq correction'.called
  /\ correction'.called \subseteq correction'.requested

LEMMA CorrectShape ==
  ASSUME IInv, Correct
  PROVE  /\ GivesUp \/ \E draft : CorrectsAll(draft)
         /\ correction'.source = report.source
         /\ correction'.requested = Blamed(report.violations)
         /\ correction'.attempts = [m \in Manager |-> Expected(m)]
         /\ pc = "correct"
         /\ UNCHANGED <<own_score, pool, application, report>>
<1> DEFINE blamed == Blamed(report.violations)
<1>1. pc = "correct" /\ UNCHANGED <<own_score, pool, application, report>>
  BY DEF Correct
<1>2. ~ AlreadyCorrected /\ CanCorrect /\ \A m \in blamed : m \in Manager /\ CanReview(m)
  BY <1>1, CorrectFinds
<1>3. PICK calls \in Calls(blamed) :
        \E a \in Drafts("AGGRESSIVE"), c \in Drafts("CONSERVATIVE") :
          LET draft == [m \in Manager |-> IF m = "AGGRESSIVE" THEN a ELSE c]
              done  == Accepting(calls) = DOMAIN calls
          IN /\ reviews' = [m \in Manager |-> IF m \in Committed(calls)
                                              THEN Record(m, draft[m]) ELSE reviews[m]]
             /\ correction' = Corrected(calls, IF done THEN "complete" ELSE "attempt_failed",
                                        [m \in Manager |-> Expected(m)])
             /\ pc' = IF done THEN "apply" ELSE "ended"
             /\ failure' = IF done THEN failure ELSE "call"
  BY <1>1, <1>2 DEF Correct
<1>4. PICK draft :
        /\ \A m \in Manager : draft[m] \in Drafts(m)
        /\ reviews' = [m \in Manager |-> IF m \in Committed(calls)
                                         THEN Record(m, draft[m]) ELSE reviews[m]]
        /\ correction' = Corrected(calls, IF Accepting(calls) = DOMAIN calls
                                          THEN "complete" ELSE "attempt_failed",
                                   [m \in Manager |-> Expected(m)])
        /\ pc' = IF Accepting(calls) = DOMAIN calls THEN "apply" ELSE "ended"
        /\ failure' = IF Accepting(calls) = DOMAIN calls THEN failure ELSE "call"
  BY <1>3, BothDraft
<1>5. DOMAIN calls = blamed
  BY DEF Calls
<1>6. /\ correction'.source = report.source /\ correction'.requested = blamed
      /\ correction'.attempts = [m \in Manager |-> Expected(m)]
      /\ correction'.called = {m \in blamed : calls[m] # "not_called"}
      /\ correction'.staged = {m \in blamed : calls[m] = "accepted"}
  BY <1>4, <1>5 DEF Corrected, Accepting
<1>7. CASE Accepting(calls) = DOMAIN calls
  <2>1. /\ Committed(calls) = blamed
        /\ correction'.stop = "complete" /\ correction'.completed = blamed
        /\ pc' = "apply" /\ failure' = failure
    BY <1>4, <1>5, <1>7 DEF Committed, Corrected
  <2>2. CorrectsAll(draft)
    BY <1>2, <1>4, <1>6, <2>1 DEF CorrectsAll
  <2> QED
    BY <1>1, <1>6, <2>2
<1>8. CASE Accepting(calls) # DOMAIN calls
  <2>1. /\ Committed(calls) = {}
        /\ correction'.stop = "attempt_failed"
        /\ pc' = "ended" /\ failure' = "call"
    BY <1>4, <1>8 DEF Committed, Corrected
  <2>2. reviews' = reviews
    BY <1>4, <2>1 DEF IInv, ReviewsTyped
  <2>3. GivesUp
    BY <1>6, <2>1, <2>2 DEF GivesUp
  <2> QED
    BY <1>1, <1>6, <2>3
<1> QED
  BY <1>7, <1>8

\* What has become of the review of a manager who was asked to correct it, and of
\* that of a manager who was not.
LEMMA CorrectedReviews ==
  ASSUME IInv, pc = "correct", UNCHANGED <<own_score, pool, report>>,
         NEW draft, CorrectsAll(draft), NEW m \in Manager
  PROVE  /\ m \in Blamed(report.violations) =>
              Rewrites(m, draft[m]) /\ reviews'[m] = Record(m, draft[m]) /\ draft[m] \in Drafts(m)
                                    /\ draft[m] \in Evaluations(m)
         /\ m \notin Blamed(report.violations) => reviews'[m] = reviews[m]
         /\ reviews[m] # NoReview /\ reviews[m].evaluations \in Evaluations(m)
         /\ \A i \in Reviewed(m) : JudgedPool[i] = Applied(i)
                                   /\ JudgedPool[i].score = reviews[m].evaluations[i]
<1>1. /\ Reviewing /\ PoolIsApplied /\ pool = JudgedPool
      /\ \A n \in Blamed(report.violations) : reviews[n].attempt < MaxAttempts
  BY CorrectFinds DEF IInv, CorrectionFits
<1>2. reviews[m] # NoReview /\ reviews[m].evaluations \in Evaluations(m)
  BY <1>1 DEF IInv, ReviewsTyped, Reviewing
<1>3. ASSUME m \in Blamed(report.violations)
      PROVE  /\ Rewrites(m, draft[m]) /\ reviews'[m] = Record(m, draft[m])
             /\ draft[m] \in Drafts(m) /\ draft[m] \in Evaluations(m)
  BY <1>1, <1>3, RecordTyped DEF IInv, CorrectsAll, Drafts, Evaluations
<1>4. \A i \in Reviewed(m) : /\ JudgedPool[i] = Applied(i)
                             /\ JudgedPool[i].score = reviews[m].evaluations[i]
  BY <1>1, AppliedItem, Reviewers DEF IInv, Writes, PoolIsApplied
<1> QED
  BY <1>2, <1>3, <1>4 DEF CorrectsAll

\* The corrected records are the ones the report asked for.
LEMMA CorrectedFollowsReport ==
  ASSUME IInv, pc = "correct", UNCHANGED <<own_score, pool, report>>,
         NEW draft, CorrectsAll(draft), NEW m \in Manager
  PROVE  /\ reviews'[m] # NoReview
         /\ reviews'[m].attempt = Expected(m)
         /\ RecordFollowsReport(m)'
         /\ Feedback(m) # {} => \A i \in Reviewed(m) : JudgedPool[i].score = reviews'[m].previous[i]
         /\ Feedback(m) = {} => \A i \in Reviewed(m) : JudgedPool[i] = Applied(i)'
<1>1. /\ report.stop = "retry_required" /\ report.attempts = Attempts
      /\ report.attempts[m] = reviews[m].attempt
  BY CorrectFinds DEF Attempts
<1>2. m \in Blamed(report.violations) <=> Feedback(m) # {}
  BY <1>1, BlamedHaveFeedback
<1>3. Feedback(m)' = Feedback(m) /\ Expected(m)' = Expected(m) /\ Editable(m)' = Editable(m)
  BY DEF Feedback, Expected, Editable
<1>4. CASE m \in Blamed(report.violations)
  <2>1. /\ Rewrites(m, draft[m]) /\ reviews'[m] = Record(m, draft[m]) /\ draft[m] \in Drafts(m)
        /\ reviews[m] # NoReview /\ reviews[m].evaluations \in Evaluations(m)
        /\ \A i \in Reviewed(m) : JudgedPool[i].score = reviews[m].evaluations[i]
    BY <1>4, CorrectedReviews
  <2>2. /\ reviews'[m].attempt = reviews[m].attempt + 1 /\ reviews'[m] # NoReview
        /\ reviews'[m].feedback = Feedback(m)
        /\ reviews'[m].previous = reviews[m].evaluations
        /\ reviews'[m].evaluations = draft[m]
    BY <2>1 DEF Rewrites
  <2>3. DOMAIN reviews'[m].previous = Reviewed(m)
    BY <2>1, <2>2 DEF Evaluations
  <2>4. \A i \in Reviewed(m) \ Editable(m) : draft[m][i] = reviews[m].evaluations[i]
    BY <2>1 DEF Drafts
  <2>5. RecordFollowsReport(m)'
    <3>1. /\ reviews'[m].attempt = Expected(m)
          /\ reviews'[m].feedback = Feedback(m)
          /\ DOMAIN reviews'[m].previous = Reviewed(m)
          /\ \A i \in Reviewed(m) \ Editable(m) :
               reviews'[m].evaluations[i] = reviews'[m].previous[i]
      BY <1>1, <1>2, <1>4, <2>2, <2>3, <2>4 DEF Expected
    <3> QED
      BY <1>3, <3>1 DEF RecordFollowsReport, Reviewed
  <2> QED
    BY <1>1, <1>2, <1>4, <2>1, <2>2, <2>5 DEF Expected
<1>5. CASE m \notin Blamed(report.violations)
  <2>1. /\ reviews'[m] = reviews[m] /\ reviews[m] # NoReview
        /\ \A i \in Reviewed(m) : JudgedPool[i] = Applied(i)
    BY <1>5, CorrectedReviews
  <2>2. \A i \in Reviewed(m) : Applied(i)' = Applied(i)
    BY <2>1, Reviewers DEF Applied
  <2>3. reviews[m].attempt \in Int
    BY <2>1, CrossReviewAssumption DEF IInv, ReviewsTyped
  <2>4. reviews'[m].attempt = Expected(m)
    BY <1>1, <1>2, <1>5, <2>1, <2>3 DEF Expected
  <2>5. RecordFollowsReport(m)'
    BY <1>2, <1>3, <1>5, <2>4 DEF RecordFollowsReport
  <2> QED
    BY <1>2, <1>5, <2>1, <2>2, <2>4, <2>5
<1> QED
  BY <1>4, <1>5

LEMMA CorrectStep == ASSUME IInv, Correct PROVE IInv'
<1>1. /\ GivesUp \/ \E draft : CorrectsAll(draft)
      /\ correction'.source = report.source
      /\ correction'.requested = Blamed(report.violations)
      /\ correction'.attempts = [m \in Manager |-> Expected(m)]
      /\ pc = "correct"
      /\ UNCHANGED <<own_score, pool, application, report>>
  BY CorrectShape
<1>2. /\ report.stop = "retry_required" /\ pool = JudgedPool /\ report # NoReport
      /\ Reviewing /\ pool # NoPool /\ report.attempts = Attempts
      /\ report.source = Source(pool, Attempts)
  BY <1>1, CorrectFinds DEF NoReport
<1>3. ReportFits' /\ FirstRound'
  <2>1. JudgedPool' = JudgedPool /\ (Judged <=> Judged') /\ Judged
    BY <1>1, <1>2 DEF JudgedPool, Judged
  <2>2. (JudgedPoolTyped /\ ReportComplete)'
    BY <1>1, <2>1 DEF IInv, ReportFits, JudgedPoolTyped, ReportComplete, Conflict
  <2>3. pc' \in {"apply", "ended"}
    BY <1>1 DEF GivesUp, CorrectsAll
  <2> QED
    BY <1>1, <1>2, <2>1, <2>2, <2>3 DEF IInv, ReportFits, FirstRound
<1>4. CASE GivesUp
  <2>1. reviews' = reviews /\ pc' = "ended" /\ failure' = "call"
    BY <1>4 DEF GivesUp
  <2>2. ReviewsTyped' /\ (Reviewing <=> Reviewing') /\ Attempts' = Attempts
    BY <1>1, <2>1 DEF IInv, ReviewsTyped, Reviewing, Attempts, Evaluations, Reviewed
  <2>3. [m \in Manager |-> Expected(m)]' = [m \in Manager |-> Expected(m)]
    BY <1>1 DEF Expected, Feedback
  <2>4. AlreadyCorrected'
    <3>1. correction' # NoSummary
      BY <1>4 DEF GivesUp, NoSummary
    <3>2. Blamed(report.violations)' = Blamed(report.violations)
      BY <1>1 DEF Blamed
    <3>3. Source(pool, Attempts)' = Source(pool, Attempts)
      BY <1>1, <2>2 DEF Source
    <3> QED
      BY <1>1, <1>2, <1>4, <2>2, <2>3, <3>1, <3>2, <3>3 DEF AlreadyCorrected, GivesUp
  <2>5. CorrectionFits'
    BY <1>4, <2>1, <2>4 DEF CorrectionFits, GivesUp
  <2>6. PoolFits' /\ NotFailed'
    BY <2>1 DEF PoolFits, NotFailed
  <2> QED
    BY <1>3, <2>1, <2>2, <2>5, <2>6 DEF IInv
<1>5. ASSUME NEW draft, CorrectsAll(draft) PROVE IInv'
  <2>1. pc' = "apply" /\ failure' = failure /\ correction'.stop = "complete"
        /\ correction'.completed = correction'.requested
    BY <1>5 DEF CorrectsAll
  <2>2. ASSUME NEW m \in Manager
        PROVE  /\ reviews'[m] # NoReview
               /\ reviews'[m].attempt = Expected(m)
               /\ RecordFollowsReport(m)'
               /\ Feedback(m) # {} => \A i \in Reviewed(m) : JudgedPool[i].score = reviews'[m].previous[i]
               /\ Feedback(m) = {} => \A i \in Reviewed(m) : JudgedPool[i] = Applied(i)'
    BY <1>1, <1>5, CorrectedFollowsReport
  <2>3. ReviewsTyped'
    <3>1. reviews' = [m \in Manager |-> reviews'[m]]
      BY <1>5 DEF CorrectsAll
    <3>2. ASSUME NEW m \in Manager
          PROVE  /\ reviews'[m].attempt \in 1..MaxAttempts
                 /\ reviews'[m].evaluations \in Evaluations(m)
                 /\ reviews'[m].previous \in {NoPrevious} \cup Evaluations(m)
      <4>1. /\ m \in Blamed(report.violations) =>
                 Rewrites(m, draft[m]) /\ reviews'[m] = Record(m, draft[m]) /\ draft[m] \in Evaluations(m)
            /\ m \notin Blamed(report.violations) => reviews'[m] = reviews[m]
            /\ reviews[m] # NoReview
        BY <1>1, <1>5, CorrectedReviews
      <4> QED
        BY <4>1 DEF Rewrites, IInv, ReviewsTyped
    <3> QED
      BY <1>1, <3>1, <3>2 DEF IInv, ReviewsTyped, Evaluations, Reviewed
  <2>4. Reviewing' /\ Attempts' = [m \in Manager |-> Expected(m)]
    BY <2>2 DEF Reviewing, Attempts
  <2>5. \A m : Feedback(m)' = Feedback(m)
    BY <1>1 DEF Feedback
  <2>6. CorrectionFits'
    <3>1. correction' # NoSummary
      BY <2>1 DEF NoSummary
    <3>2. Blamed(report.violations)' = Blamed(report.violations) /\ JudgedPool' = JudgedPool
      BY <1>1 DEF Blamed, JudgedPool
    <3>3. \A m \in Manager :
            /\ RecordFollowsReport(m)'
            /\ Feedback(m)' # {} =>
                 \A i \in Reviewed(m) : JudgedPool'[i].score = reviews'[m].previous[i]
            /\ Feedback(m)' = {} =>
                 \A i \in Reviewed(m) : JudgedPool'[i] = Applied(i)'
      BY <2>2, <2>5, <3>2
    <3>4. \A m : Reviewed(m)' = Reviewed(m)
      BY DEF Reviewed
    <3> QED
      BY <1>1, <1>2, <2>1, <2>4, <3>1, <3>2, <3>3, <3>4 DEF CorrectionFits
  <2>7. PoolFits' /\ NotFailed'
    BY <1>1, <2>1 DEF PoolFits, NotFailed, IInv
  <2> QED
    BY <1>3, <2>1, <2>3, <2>6, <2>7 DEF IInv
<1> QED
  BY <1>1, <1>4, <1>5

LEMMA StepInv == IInv /\ [Next]_vars => IInv'
<1> SUFFICES ASSUME IInv, [Next]_vars PROVE IInv'
  OBVIOUS
<1>1. CASE UNCHANGED vars
  <2>1. UNCHANGED <<own_score, reviews, report, pc, pool, application, correction, failure>>
    BY <1>1 DEF vars
  <2>2. /\ (Reviewing <=> Reviewing') /\ AppliedPool' = AppliedPool /\ Attempts' = Attempts
        /\ \A m : Feedback(m)' = Feedback(m) /\ Expected(m)' = Expected(m)
        /\ \A m \in Manager : RecordFollowsReport(m) <=> RecordFollowsReport(m)'
        /\ \A i \in Items : Applied(i)' = Applied(i)
        /\ JudgedPool' = JudgedPool /\ (Judged <=> Judged')
        /\ ReviewsTyped => ReviewsTyped'
        /\ JudgedPoolTyped /\ ReportComplete => (JudgedPoolTyped /\ ReportComplete)'
    BY <2>1, ReviewsStay
  <2>3. PoolIsApplied <=> PoolIsApplied'
    BY <2>1, <2>2 DEF PoolIsApplied
  <2>4. ReviewsTyped' /\ ReportFits' /\ FirstRound' /\ PoolFits' /\ NotFailed'
    BY <2>1, <2>2, <2>3 DEF IInv, ReportFits, FirstRound, PoolFits, NotFailed
  <2>5. AlreadyCorrected => AlreadyCorrected'
    <3>1. \A m \in Manager : RecordFollowsPool(m) => RecordFollowsPool(m)'
      BY <2>1, <2>2 DEF RecordFollowsPool, Reviewed
    <3>2. [m \in Manager |-> Expected(m)]' = [m \in Manager |-> Expected(m)]
      BY <2>1 DEF Expected, Feedback
    <3>3. /\ Blamed(report.violations)' = Blamed(report.violations)
          /\ Source(pool, Attempts)' = Source(pool, Attempts)
          /\ Source(pool, report.attempts)' = Source(pool, report.attempts)
      BY <2>1, <2>2 DEF Blamed, Source
    <3> QED
      BY <2>1, <2>2, <2>3, <3>1, <3>2, <3>3 DEF AlreadyCorrected
  <2>6. CorrectionFits'
    <3>1. /\ \A m : Reviewed(m)' = Reviewed(m)
          /\ Blamed(report.violations)' = Blamed(report.violations)
      BY <2>1 DEF Reviewed, Blamed
    <3>2. \A m \in Manager : Feedback(m) = {} /\
            (\A i \in Reviewed(m) : JudgedPool[i] = Applied(i)) =>
              \A i \in Reviewed(m) : JudgedPool'[i] = Applied(i)'
      BY <2>2, Reviewers
    <3>3. \A m \in Manager : Feedback(m) # {} /\
            (\A i \in Reviewed(m) : JudgedPool[i].score = reviews[m].previous[i]) =>
              \A i \in Reviewed(m) : JudgedPool'[i].score = reviews'[m].previous[i]
      BY <2>1, <2>2
    <3> QED
      BY <2>1, <2>2, <2>5, <3>1, <3>2, <3>3 DEF IInv, CorrectionFits
  <2> QED
    BY <2>1, <2>4, <2>6 DEF IInv
<1> QED
  BY <1>1, ReviewStep, ApplyStep, ValidateStep, CorrectStep DEF Next, Ended

\* What the nodes write is what the nodes after them expect, in every state.
THEOREM Invariance == Spec => []IInv
BY StartsRight, StepInv, PTL DEF Spec

-----------------------------------------------------------------------------
(* What follows from the invariant.                                        *)

LEMMA CorrectionIsFound ==
  ASSUME IInv, NotReported
  PROVE  AlreadyCorrected
<1>1. /\ report.stop = "retry_required" /\ Reviewing /\ pool # NoPool
      /\ correction.stop = "complete" /\ correction # NoSummary
      /\ correction.source = report.source
      /\ correction.requested = Blamed(report.violations)
      /\ correction.completed = correction.requested
      /\ correction.attempts = Attempts
      /\ \A m \in Manager : RecordFollowsReport(m)
      /\ pc = "apply" => pool = JudgedPool
      /\ pc \in {"apply", "validate"}
  BY DEF IInv, CorrectionFits, NotReported
<1>2. Attempts = [m \in Manager |-> Expected(m)]
  BY <1>1 DEF Attempts, RecordFollowsReport
<1>3. report.source = Source(JudgedPool, report.attempts)
  BY <1>1 DEF IInv, ReportFits, Judged
<1>4. Source(pool, report.attempts) = report.source <=> pool = JudgedPool
  BY <1>3 DEF Source, JudgedPool
<1>5. CASE pc = "apply"
  <2>1. \A m \in Manager : RecordFollowsPool(m)
    BY <1>1, <1>5, CorrectionFollowsPool DEF RecordFollowsPool
  <2> QED
    BY <1>1, <1>2, <1>4, <1>5, <2>1 DEF AlreadyCorrected
<1>6. CASE pc = "validate"
  <2>1. PoolIsApplied
    BY <1>1, <1>6 DEF IInv, PoolFits
  <2>2. pool # JudgedPool
    BY <2>1, CorrectionShows DEF PoolIsApplied
  <2> QED
    BY <1>1, <1>2, <1>4, <2>1, <2>2 DEF AlreadyCorrected
<1> QED
  BY <1>1, <1>5, <1>6

\* No node refuses what the nodes before it left, and a node that runs again on its
\* own result finds it.
THEOREM NothingIsRefused == Spec => []BookkeepingAccepted
<1>1. ASSUME IInv PROVE BookkeepingAccepted
  <2>1. failure # "refused"
    BY <1>1 DEF IInv, NotFailed
  <2>2. pc \in {"validate", "correct", "gate"} /\ pool # NoPool => PoolIsApplied
    BY <1>1 DEF IInv, PoolFits
  <2>3. pc \in {"apply", "validate"} /\ correction # NoSummary => AlreadyCorrected
    BY <1>1, CorrectionIsFound DEF IInv, FirstRound, NotReported
  <2>4. correction.stop = "attempt_failed" => AlreadyCorrected
    BY <1>1 DEF IInv, CorrectionFits
  <2> QED
    BY <2>1, <2>2, <2>3, <2>4 DEF BookkeepingAccepted
<1> QED
  BY <1>1, Invariance, PTL

\* A valid pool has no contradiction, so no manager supports both sides of a slot.
LEMMA ValidIsExclusive ==
  ASSUME IInv, pc = "gate", NEW i \in Items, NEW j \in Rivals(i), NEW m \in Manager
  PROVE  ScoreBy(m, i) + ScoreBy(m, j) <= 0
<1>1. /\ Reviewing /\ pool = JudgedPool /\ report.violations = {} /\ Judged
  BY DEF IInv, PoolFits, Judged
<1>2. \A k \in Items : \A l \in Rivals(k) : ~ (own_score[k] + pool[l].score > 0)
  BY <1>1 DEF IInv, ReportFits, ReportComplete
<1>3. \A k \in Items : pool[k].score \in Int /\ own_score[k] \in Int
  <2>1. \A k \in Items : pool[k].score \in Score
    BY <1>1 DEF IInv, ReportFits, JudgedPoolTyped
  <2>2. \A k \in Items : own_score[k] \in Insistence
    BY DEF IInv, ReviewsTyped
  <2> QED
    BY <2>1, <2>2, ScoresAreNumbers
<1>4. /\ j \in Items /\ i \in Rivals(j)
      /\ m = Proposer(i) \/ m = Proposer(j)
      /\ Proposer(i) # Proposer(j)
  BY RivalIsOther, Managers, Reviewers
<1>5. CASE m = Proposer(i)
  <2>1. ScoreBy(m, i) = own_score[i] /\ ScoreBy(m, j) = pool[j].score
    BY <1>4, <1>5 DEF ScoreBy
  <2> QED
    BY <1>2, <1>3, <1>4, <2>1
<1>6. CASE m = Proposer(j)
  <2>1. ScoreBy(m, j) = own_score[j] /\ ScoreBy(m, i) = pool[i].score
    BY <1>4, <1>6 DEF ScoreBy
  <2> QED
    BY <1>2, <1>3, <1>4, <2>1
<1> QED
  BY <1>4, <1>5, <1>6

\* The negotiation starts from an initial state of its own.
THEOREM StartsNegotiation == Spec => []HandsOver
<1>1. ASSUME IInv, pc = "gate" PROVE Gate!Init
  <2> DEFINE handed == [i \in Items |->
               [status |-> "PROPOSED", revision |-> 1, scored |-> 1,
                scores |-> [m \in Manager |-> ScoreBy(m, i)]]]
  <2>1. /\ Reviewing /\ pool = JudgedPool /\ Judged /\ failure = "none"
    BY <1>1 DEF IInv, PoolFits, Judged, NotFailed
  <2>2. \A i \in Items : pool[i].score \in Score /\ own_score[i] \in Insistence
    BY <1>1, <2>1 DEF IInv, ReportFits, JudgedPoolTyped, ReviewsTyped
  <2>3. \A i \in Items : \A m \in Manager : ScoreBy(m, i) \in Score \cup Insistence
    BY <2>2 DEF ScoreBy
  <2>4. handed \in [Items -> [status: {"PROPOSED"}, revision: {1},
                              scores: [Manager -> Score \cup Insistence], scored: {1}]]
    BY <2>3
  <2>5. \A i \in Items : handed[i].scores[Proposer(i)] > 0
    <3>1. \A i \in Items : own_score[i] > 0
      BY <2>2, ScoresAreNumbers
    <3> QED
      BY <3>1, Reviewers DEF ScoreBy
  <2>6. ASSUME NEW i \in Items, NEW j \in Rivals(i), NEW m \in Manager
        PROVE  handed[i].scores[m] + handed[j].scores[m] <= 0
    BY <1>1, ValidIsExclusive, RivalIsOther
  <2>7. \A i \in Items : Gate!Rivals(i) = Rivals(i)
    BY DEF Gate!Rivals, Gate!SlotOf, Rivals
  <2>8. \A i : Gate!Proposer(i) = Proposer(i)
    BY DEF Gate!Proposer, Proposer
  <2>9. Gate!Manager = Manager
    BY DEF Gate!Manager, Manager
  <2>10. Gate!ValidPool(handed)
    BY <2>5, <2>8 DEF Gate!ValidPool, Gate!Active
  <2>11. Gate!Exclusive(handed)
    BY <2>6, <2>7, <2>9 DEF Gate!Exclusive, Gate!Active
  <2> QED
    BY <1>1, <2>1, <2>4, <2>9, <2>10, <2>11
       DEF Gate!Init, Gate!NoReport, Gate!NoApplication, Gate!NoValidation, Gate!NoResult
<1>2. IInv => HandsOver
  BY <1>1 DEF HandsOver
<1> QED
  BY <1>2, Invariance, PTL

-----------------------------------------------------------------------------
(* What a step does.                                                       *)

\* The managers a report blames, and the scores it names, are those the reviews
\* themselves show to be contradictory.
LEMMA BlamesContradictions ==
  ASSUME IInv, pc = "correct", NEW m \in Manager
  PROVE  /\ m \in Blamed(report.violations) <=> \E i \in Items : Contradicts(m, i)
         /\ \A v \in Feedback(m) : Contradicts(m, v.item)
<1>1. /\ report.stop = "retry_required" /\ pool = JudgedPool /\ Reviewing /\ PoolIsApplied
  BY CorrectFinds
<1>2. ReportComplete
  BY <1>1 DEF IInv, ReportFits, Judged
<1>3. \A i \in Reviewed(m) : pool[i].score = reviews[m].evaluations[i]
  BY <1>1, AppliedItem, Reviewers DEF IInv, Writes, PoolIsApplied
<1>4. ASSUME NEW v \in Feedback(m) PROVE Contradicts(m, v.item)
  <2>1. Conflict(pool, v) /\ v.manager = m
    BY <1>1, <1>2, <1>4, BlamedHaveFeedback DEF ReportComplete
  <2>2. /\ v.item \in Reviewed(m) /\ v.own \in Rivals(v.item)
        /\ Proposer(v.own) = m
    BY <2>1, ConflictIsAboutReviewed, RivalIsOther DEF Conflict
  <2> QED
    BY <1>3, <2>1, <2>2 DEF Conflict, Contradicts
<1>5. ASSUME NEW i \in Items, Contradicts(m, i) PROVE m \in Blamed(report.violations)
  <2>1. PICK j \in Rivals(i) : Proposer(j) = m /\ own_score[j] + reviews[m].evaluations[i] > 0
    BY <1>5 DEF Contradicts
  <2>2. i \in Rivals(j) /\ j \in Items /\ i \in Reviewed(m)
    BY <1>5, RivalIsOther DEF Contradicts
  <2>3. own_score[j] + pool[i].score > 0
    BY <1>3, <2>1, <2>2
  <2>4. PICK v \in report.violations : v.own = j /\ v.item = i
    BY <1>1, <1>2, <2>2, <2>3 DEF ReportComplete
  <2>5. v.manager = m
    BY <1>2, <2>1, <2>4 DEF ReportComplete, Conflict
  <2> QED
    BY <2>4, <2>5 DEF Blamed
<1>6. m \in Blamed(report.violations) => \E v \in Feedback(m) : v.item \in Items
  BY <1>1, <1>2, BlamedHaveFeedback, ConflictIsAboutReviewed DEF ReportComplete
<1> QED
  BY <1>4, <1>5, <1>6

\* The first half of CorrectionsConverge.
CorrectsTogether ==
  pc = "correct" /\ reviews' # reviews =>
    \A m \in Manager :
      /\ (reviews'[m] # reviews[m]) <=> \E i \in Items : Contradicts(m, i)
      /\ reviews'[m].attempt <= MaxAttempts
      /\ \A i \in Reviewed(m) :
           reviews'[m].evaluations[i] # reviews[m].evaluations[i] => Contradicts(m, i)

LEMMA CorrectsOnlyContradictions == ASSUME IInv, [Next]_vars PROVE CorrectsTogether
<1> SUFFICES ASSUME pc = "correct", reviews' # reviews, NEW m \in Manager
             PROVE  /\ (reviews'[m] # reviews[m]) <=> \E i \in Items : Contradicts(m, i)
                    /\ reviews'[m].attempt <= MaxAttempts
                    /\ \A i \in Reviewed(m) :
                         reviews'[m].evaluations[i] # reviews[m].evaluations[i] => Contradicts(m, i)
  BY DEF CorrectsTogether
<1>1. Correct
  BY DEF Next, Review, Apply, Validate, Ended, vars
<1>2. UNCHANGED <<own_score, pool, report>> /\ \E draft : CorrectsAll(draft)
  BY <1>1, CorrectShape DEF GivesUp
<1>3. PICK draft : CorrectsAll(draft)
  BY <1>2
<1>4. /\ m \in Blamed(report.violations) =>
           Rewrites(m, draft[m]) /\ reviews'[m] = Record(m, draft[m]) /\ draft[m] \in Drafts(m)
      /\ m \notin Blamed(report.violations) => reviews'[m] = reviews[m]
      /\ reviews[m] # NoReview
  BY <1>2, <1>3, CorrectedReviews
<1>5. /\ m \in Blamed(report.violations) <=> \E i \in Items : Contradicts(m, i)
      /\ \A v \in Feedback(m) : Contradicts(m, v.item)
  BY BlamesContradictions
<1>6. reviews[m].attempt \in Int /\ reviews[m].attempt <= MaxAttempts
  BY <1>4, CrossReviewAssumption DEF IInv, ReviewsTyped
<1>7. CASE m \notin Blamed(report.violations)
  BY <1>4, <1>5, <1>6, <1>7
<1>8. CASE m \in Blamed(report.violations)
  <2>1. /\ reviews'[m].attempt = reviews[m].attempt + 1
        /\ reviews'[m].attempt \in 1..MaxAttempts
        /\ reviews'[m].evaluations = draft[m]
        /\ draft[m] \in Drafts(m)
    BY <1>4, <1>8 DEF Rewrites
  <2>2. reviews'[m] # reviews[m] /\ reviews'[m].attempt <= MaxAttempts
    BY <1>6, <2>1, CrossReviewAssumption
  <2>3. Feedback(m) # {}
    BY <1>8, BlamedHaveFeedback, CorrectFinds
  <2>4. ASSUME NEW i \in Reviewed(m), draft[m][i] # reviews[m].evaluations[i]
        PROVE  Contradicts(m, i)
    <3>1. i \in Editable(m)
      BY <1>4, <2>1, <2>4 DEF Drafts
    <3>2. PICK v \in Feedback(m) : v.item = i
      BY <2>3, <3>1 DEF Editable
    <3> QED
      BY <1>5, <3>2
  <2> QED
    BY <1>5, <1>8, <2>1, <2>2, <2>4
<1> QED
  BY <1>7, <1>8

\* A correction leaves every score it was not asked for as it was judged.
LEMMA CorrectionIsLocal ==
  ASSUME IInv, NotReported, NEW i \in Items
  PROVE  LET m == Other(Proposer(i))
         IN \/ Feedback(m) = {} /\ AppliedPool[i] = JudgedPool[i]
            \/ /\ Feedback(m) # {} /\ m \in Blamed(report.violations)
               /\ AppliedPool[i].previous = JudgedPool[i].score
               /\ \/ AppliedPool[i].score = JudgedPool[i].score
                  \/ /\ \E v \in report.violations : v.manager = m /\ v.item = i
                     /\ AppliedPool[i].change = reviews[m].attempt
               /\ reviews[m].attempt > 1
<1> DEFINE m == Other(Proposer(i))
<1>1. m \in Manager /\ i \in Reviewed(m)
  BY Reviewers
<1>2. /\ report.stop = "retry_required" /\ Reviewing
      /\ RecordFollowsReport(m)
      /\ Feedback(m) # {} => JudgedPool[i].score = reviews[m].previous[i]
      /\ Feedback(m) = {} => JudgedPool[i] = Applied(i)
  BY <1>1 DEF IInv, CorrectionFits, NotReported
<1>3. Writes(i)
  BY <1>2, AppliedItem DEF IInv
<1>4. CASE Feedback(m) = {}
  BY <1>2, <1>3, <1>4 DEF Writes
<1>5. CASE Feedback(m) # {}
  <2>1. /\ reviews[m].attempt = report.attempts[m] + 1
        /\ reviews[m].feedback = Feedback(m)
        /\ DOMAIN reviews[m].previous = Reviewed(m)
        /\ i \notin Editable(m) => reviews[m].evaluations[i] = reviews[m].previous[i]
    BY <1>1, <1>2, <1>5 DEF RecordFollowsReport, Expected
  <2>2. reviews[m].previous # NoPrevious
    BY <1>1, <2>1, SomePrevious
  <2>3. AppliedPool[i].previous = JudgedPool[i].score
    BY <1>2, <1>3, <1>5, <2>2 DEF Writes
  <2>4. reviews[m].attempt > 1
    <3>1. report.attempts[m] \in 1..MaxAttempts
      BY <1>1, <1>2 DEF IInv, ReportFits, Judged
    <3> QED
      BY <2>1, <3>1, CrossReviewAssumption
  <2>5. m \in Blamed(report.violations)
    BY <1>2, <1>5, BlamedHaveFeedback
  <2>6. CASE i \notin Editable(m)
    <3>1. AppliedPool[i].score = JudgedPool[i].score
      BY <1>2, <1>3, <1>5, <2>1, <2>6 DEF Writes
    <3> QED
      BY <1>5, <2>3, <2>4, <2>5, <3>1
  <2>7. CASE i \in Editable(m)
    <3>1. PICK v \in Feedback(m) : v.item = i
      BY <1>5, <2>7 DEF Editable
    <3>2. v \in report.violations /\ v.manager = m
      BY <1>2, <3>1, BlamedHaveFeedback
    <3>3. AppliedPool[i].change = reviews[m].attempt
      BY <1>3, <2>1, <3>1 DEF Writes
    <3> QED
      BY <1>5, <2>3, <2>4, <2>5, <3>1, <3>2, <3>3
  <2> QED
    BY <2>6, <2>7
<1> QED
  BY <1>4, <1>5

\* The second half of CorrectionsConverge.
HoldsNothingNew ==
  report # NoReport /\ report' # report =>
    \A v \in report'.violations : \E w \in report.violations :
      v.own = w.own /\ v.item = w.item

LEMMA NothingNewIsHeld == ASSUME IInv, [Next]_vars PROVE HoldsNothingNew
<1> SUFFICES ASSUME report # NoReport, report' # report, NEW v \in report'.violations
             PROVE  \E w \in report.violations : v.own = w.own /\ v.item = w.item
  BY DEF HoldsNothingNew
<1>1. Validate
  BY DEF Next, Review, Apply, Correct, Ended, vars
<1>2. Reports /\ pc = "validate"
  BY <1>1, ValidateShape DEF Misses
<1>3. report'.violations = Violations /\ pool = AppliedPool /\ NotReported
  BY <1>2 DEF Reports, PoolIsApplied, NotReported
<1>4. Conflict(pool, v)
  BY <1>3, ViolationsComplete
<1> DEFINE i == v.item
           m == v.manager
<1>5. /\ i \in Items /\ v.own \in Items /\ Other(Proposer(i)) = m
      /\ i \in Rivals(v.own)
      /\ own_score[v.own] + pool[i].score > 0
  BY <1>4, ConflictIsAboutReviewed DEF Conflict
<1>6. ReportComplete
  BY <1>3 DEF IInv, ReportFits, CorrectionFits, NotReported, Judged
<1>7. CASE AppliedPool[i].score = JudgedPool[i].score
  BY <1>3, <1>5, <1>6, <1>7 DEF ReportComplete
<1>8. ASSUME NEW w \in report.violations, w.item = i PROVE w.own = v.own
  <2>1. w.own \in Items /\ i \in Rivals(w.own)
    BY <1>6, <1>8 DEF ReportComplete, Conflict
  <2>2. v.own \in Rivals(i) /\ w.own \in Rivals(i)
    BY <1>5, <2>1, RivalIsOther
  <2> QED
    BY <1>5, <2>1, <2>2, RivalIsOther
<1> QED
  BY <1>3, <1>5, <1>7, <1>8, CorrectionIsLocal

\* A correction changes the reviews of those who contradict themselves and only their
\* contradicting scores, and no report holds against a manager what the one before
\* did not.
THEOREM CorrectionsAreLocal == Spec => CorrectionsConverge
<1>1. IInv /\ [Next]_vars => [CorrectsTogether /\ HoldsNothingNew]_vars
  BY CorrectsOnlyContradictions, NothingNewIsHeld
<1> QED
  BY <1>1, Invariance, PTL DEF Spec, CorrectionsConverge, CorrectsTogether, HoldsNothingNew

\* One proposal's part of AuditTrail.
Audited(i) ==
  LET reviewer == Other(Proposer(i))
  IN /\ (pool'[i].previous = pool[i].score) \/ pool'[i] = pool[i]
     /\ pool'[i].score # pool[i].score =>
          pool'[i].change = reviews[reviewer].attempt /\ reviews[reviewer].attempt > 1
     /\ reviewer \notin Blamed(report.violations) => pool'[i] = pool[i]

LEMMA PoolIsAudited ==
  ASSUME IInv, [Next]_vars, pool # NoPool, pool' # pool, NEW i \in Items
  PROVE  Audited(i)
<1>1. Apply
  BY DEF Next, Review, Validate, Correct, Ended, vars
<1>2. Applies /\ pc = "apply"
  BY <1>1, ApplyShape
<1>3. pool' = AppliedPool /\ NotReported
  BY <1>2 DEF Applies, IInv, FirstRound, NotReported
<1>4. pool = JudgedPool
  BY <1>2, <1>3 DEF IInv, CorrectionFits, NotReported
<1> QED
  BY <1>3, <1>4, CorrectionIsLocal DEF Audited

\* The pool keeps the score a correction replaced and names the attempt that did it.
THEOREM PoolTellsItsHistory == Spec => AuditTrail
<1>1. IInv /\ [Next]_vars =>
        [pool # NoPool /\ pool' # pool => \A i \in Items : Audited(i)]_vars
  BY PoolIsAudited
<1> QED
  BY <1>1, Invariance, PTL DEF Spec, AuditTrail, Audited
==============================================================================
