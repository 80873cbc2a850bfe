----------------------------- MODULE Negotiation -----------------------------
(***************************************************************************)
(* The consensus gate, the bounded formal negotiation of the two portfolio *)
(* managers and the assembly of the committee's recommendation             *)
(* (graph/nodes/consensus_gate.py, formal_negotiation.py,                  *)
(* negotiation_score_validation.py, consensus_recommendation.py):          *)
(*                                                                         *)
(*   gate -> begin -> exchange -> revise -> score -> validate -> complete  *)
(*    |^                            |                               |      *)
(*    |+----- complete_unscored <---+  <---------------------------+      *)
(*    +-> assemble -> done             any refusal or failure -> failed    *)
(*                                                                         *)
(* A step is one node.  A stage awaits the calls of its managers together  *)
(* (_gather_calls) and commits all of them or nothing, so a step chooses   *)
(* which calls succeed and what they say.  Both ends lead to               *)
(* compose_report.                                                         *)
(*                                                                         *)
(* An atomic proposal is known by its slot (conflict_group: target and     *)
(* dimension) and its proposer: normalisation admits one per manager and   *)
(* slot and makes the two proposals of a slot each other's conflict.  Its  *)
(* text and its theses are abstracted to its revision, since MODIFY must   *)
(* change one of them.  Scores are counted in quarters; a hard veto is the *)
(* score -4, which the models require of it and which fails the gate.      *)
(***************************************************************************)
EXTENDS Integers, FiniteSets

CONSTANTS
  Slot,       \* decision slots
  Required,   \* those of the research target's ACTION, HORIZON and RISK_CONTROL
  Items,      \* the proposals, <<slot, proposer>>
  Score,      \* support scores in quarters
  MaxRounds   \* NegotiationLimits.max_rounds

Manager == {"AGGRESSIVE", "CONSERVATIVE"}

ASSUME NegotiationAssumption ==
  /\ Items \subseteq Slot \X Manager
  /\ IsFiniteSet(Items)
  /\ Required \subseteq Slot
  /\ Score \subseteq -4..4
  /\ MaxRounds \in Nat \ {0}

VARIABLES
  pc,             \* the node LangGraph runs next
  debate_round,
  pool,           \* negotiation_proposal_pool
  report,         \* consensus_gate_report
  application,    \* proposal_revision_application_summary
  validation,     \* negotiation_score_validation_report
  exchanges,      \* reason_exchange_records: round and reviewer
  revisions,      \* decisions of the proposal_revision_records
  score_records,  \* debate_score_records: round and manager
  rounds,         \* negotiation_round_summaries
  recommendation, \* consensus_recommendation and its run summary
  failure         \* what the run failed of

vars == <<pc, debate_round, pool, report, application, validation, exchanges,
          revisions, score_records, rounds, recommendation, failure>>

recordVars == <<exchanges, revisions, score_records, rounds>>

-----------------------------------------------------------------------------
(* The pool.                                                               *)

SlotOf      == [i \in Items |-> i[1]]
Proposer(i) == i[2]
Other(m)    == IF m = "AGGRESSIVE" THEN "CONSERVATIVE" ELSE "AGGRESSIVE"
Rivals(i)   == {j \in Items \ {i} : SlotOf[j] = SlotOf[i]}

Inactive == {"REJECTED", "WITHDRAWN", "EXCLUDED"}
Status   == {"PROPOSED", "NEGOTIATING", "AGREED"} \cup Inactive
Action   == {"KEEP", "MODIFY", "WITHDRAW"}

\* scored is the revision of the text the two scores are about, which the code
\* holds in the score records only (DebateScoreEntry.item_revision).
Item == [status: Status, revision: 1..MaxRounds+1, scores: [Manager -> Score],
         scored: 1..MaxRounds+1]
Pool == [Items -> Item]

Negotiating(p) == {i \in Items : p[i].status = "NEGOTIATING"}
Active(p)      == {i \in Items : p[i].status \notin Inactive}

\* Mutant: only the scores of the conservative manager are compared.
MutExclusive(p) ==
  \A i \in Active(p) : \A j \in Rivals(i) \cap Active(p) :
    p[i].scores["CONSERVATIVE"] + p[j].scores["CONSERVATIVE"] <= 0

\* A manager supports at most one side of a slot (collect_negotiation_score_violations
\* and the conflict-score validator before it).
Exclusive(p) ==
  \A i \in Active(p) : \A j \in Rivals(i) \cap Active(p) : \A m \in Manager :
    p[i].scores[m] + p[j].scores[m] <= 0

\* NegotiationProposalPool.validate_pool.
ValidPool(p) ==
  /\ \A i \in Active(p) : p[i].scores[Proposer(i)] > 0
  /\ \A i \in Items : p[i].status = "AGREED" =>
       \A j \in Rivals(i) : p[j].status # "AGREED"

\* consensus_gate_source_fingerprint: everything of the pool but the status.
Source(p, round) ==
  [round |-> round,
   items |-> [i \in Items |-> [revision |-> p[i].revision, scores |-> p[i].scores]]]

NoReport      == [round |-> -1]
NoApplication == [round |-> 0]
NoValidation  == [round |-> 0]
NoResult      == [stop |-> "none"]

\* from_cross_reviewed: proposals the proposer insists on, cross-reviewed without
\* a conflict violation.
Init ==
  /\ pool \in [Items -> [status: {"PROPOSED"}, revision: {1},
                         scores: [Manager -> Score], scored: {1}]]
  /\ ValidPool(pool) /\ Exclusive(pool)
  /\ pc = "gate"
  /\ debate_round = 0
  /\ report = NoReport
  /\ application = NoApplication
  /\ validation = NoValidation
  /\ exchanges = {} /\ revisions = {} /\ score_records = {} /\ rounds = {}
  /\ recommendation = NoResult
  /\ failure = "none"

\* A node runs and the graph follows a route.
Step(node, route) ==
  /\ pc = node
  /\ pc' = route

\* The run fails because a node refuses its input, a call fails (it raises, its
\* context is too long or its draft is rejected) or the scores are inconsistent.
Fail(node, cause) ==
  /\ Step(node, "failed")
  /\ failure' = cause
  /\ UNCHANGED <<debate_round, pool, report, recordVars, recommendation>>

-----------------------------------------------------------------------------
(* consensus_gate.                                                         *)

Least(a, b) == IF a <= b THEN a ELSE b

\* _passes_gate: the managers together are in favour and neither is more than a
\* quarter against.
Passes(item) ==
  LET a == item.scores["AGGRESSIVE"]
      c == item.scores["CONSERVATIVE"]
  IN a + c > 0 /\ Least(a, c) >= -1

Candidates(p, slot) ==
  {i \in Items : SlotOf[i] = slot /\ p[i].status \notin {"REJECTED", "WITHDRAWN"}}

\* An agreement of an earlier round is kept before scores are looked at.
Winners(p, slot) ==
  LET frozen == {i \in Items : SlotOf[i] = slot /\ p[i].status = "AGREED"}
  IN IF frozen # {} THEN frozen ELSE {i \in Candidates(p, slot) : Passes(p[i])}

\* Mutant: one round too many.
MutOutcome(p, i) ==
  IF i \in Winners(p, SlotOf[i]) THEN "AGREED"
  ELSE IF p[i].status = "WITHDRAWN" THEN "WITHDRAWN"
  ELSE IF p[i].status = "REJECTED" \/ Winners(p, SlotOf[i]) # {} THEN "REJECTED"
  ELSE IF debate_round > MaxRounds THEN "EXCLUDED" ELSE "NEGOTIATING"

\* Mutant: a proposal its manager withdrew is negotiated on.
MutRevived(p, i) ==
  IF i \in Winners(p, SlotOf[i]) THEN "AGREED"
  ELSE IF p[i].status = "REJECTED" \/ Winners(p, SlotOf[i]) # {} THEN "REJECTED"
  ELSE IF debate_round >= MaxRounds THEN "EXCLUDED" ELSE "NEGOTIATING"

Outcome(p, i) ==
  IF i \in Winners(p, SlotOf[i]) THEN "AGREED"
  ELSE IF p[i].status = "WITHDRAWN" THEN "WITHDRAWN"
  ELSE IF p[i].status = "REJECTED" \/ Winners(p, SlotOf[i]) # {} THEN "REJECTED"
  ELSE IF debate_round >= MaxRounds THEN "EXCLUDED" ELSE "NEGOTIATING"

Evaluated(p) == [i \in Items |-> [p[i] EXCEPT !.status = Outcome(p, i)]]

\* The slots of the research target that have no agreement.
Missing(p) == Required \ {SlotOf[i] : i \in {j \in Items : p[j].status = "AGREED"}}

Report(p) ==
  [round |-> debate_round, source |-> Source(p, debate_round),
   outcome |-> [i \in Items |-> Outcome(p, i)],
   revision |-> [i \in Items |-> p[i].revision], missing |-> Missing(Evaluated(p)),
   route |-> IF Negotiating(Evaluated(p)) = {} THEN "assemble" ELSE "begin"]

ConsensusGate ==
  /\ pc = "gate"
  /\ IF \/ debate_round > MaxRounds
        \/ report.round = debate_round
        \/ ~ Exclusive(pool)
        \/ \E slot \in Slot : Cardinality(Winners(pool, slot)) > 1
     THEN Fail("gate", "refused") /\ UNCHANGED <<application, validation>>
     ELSE /\ pool' = Evaluated(pool)
          /\ report' = Report(pool)
          /\ Step("gate", report'.route)
          /\ UNCHANGED <<debate_round, application, validation, recordVars,
                         recommendation, failure>>

-----------------------------------------------------------------------------
(* A round: begin, exchange reasons, revise, score, validate, complete.     *)

Begin ==
  /\ IF /\ report # NoReport /\ report.route = "begin"
        /\ report.round = debate_round
        /\ debate_round < MaxRounds
     THEN /\ debate_round' = debate_round + 1
          /\ application' = NoApplication
          /\ validation' = NoValidation
     ELSE UNCHANGED <<debate_round, application, validation>>
  /\ Step("begin", "exchange")
  /\ UNCHANGED <<pool, report, recordVars, recommendation, failure>>

\* _negotiation_state_error: the last gate sent this very pool to this round.
GateIsCurrent ==
  /\ debate_round >= 1
  /\ report # NoReport /\ report.route = "begin"
  /\ report.round = debate_round - 1
  /\ report.source = Source(pool, report.round)

Proposers == {Proposer(i) : i \in Negotiating(pool)}
Reviewers == {Other(m) : m \in Proposers}
Of(round, records) == {r \in records : r.round = round}

\* The calls of a stage: each manager's succeeds with an acceptable draft or not.
Calls(managers) == [managers -> BOOLEAN]
AllSucceed(calls) == \A m \in DOMAIN calls : calls[m]

ExchangeReasons ==
  /\ pc = "exchange"
  /\ IF ~ GateIsCurrent \/ Reviewers = {} \/ Of(debate_round, exchanges) # {}
     THEN Fail("exchange", "refused") /\ UNCHANGED <<application, validation>>
     ELSE \E calls \in Calls(Reviewers) :
            IF ~ AllSucceed(calls)
            THEN Fail("exchange", "call") /\ UNCHANGED <<application, validation>>
            ELSE /\ exchanges' = exchanges \cup
                      {[round |-> debate_round, reviewer |-> m] : m \in Reviewers}
                 /\ Step("exchange", "revise")
                 /\ UNCHANGED <<debate_round, pool, report, application, validation,
                                revisions, score_records, rounds, recommendation, failure>>

\* Mutant: a kept proposal gets a new revision as well.
MutRevised(item, action) ==
  [item EXCEPT !.revision = @ + 1,
               !.status = IF action = "WITHDRAW" THEN "WITHDRAWN" ELSE @]

\* _assemble_revision_record.
Revised(item, action) ==
  [item EXCEPT !.revision = IF action = "KEEP" THEN @ ELSE @ + 1,
               !.status = IF action = "WITHDRAW" THEN "WITHDRAWN" ELSE @]

Material(decisions) == {i \in DOMAIN decisions : decisions[i] # "KEEP"}

\* Mutant: a revised proposal is not put to the managers again, its rival is.
MutRescore(p, decisions) ==
  {i \in Active(p) : p[i].status # "AGREED" /\ Material(decisions) \cap Rivals(i) # {}}

\* Everything still open in the slots that were touched.
Rescore(p, decisions) ==
  {i \in Active(p) : /\ p[i].status # "AGREED"
                     /\ \E j \in Material(decisions) : SlotOf[j] = SlotOf[i]}

Application(p, decisions) ==
  [round |-> debate_round, material |-> Material(decisions),
   rescore |-> Rescore(p, decisions)]

CommitRevisions(decisions) ==
  LET revised == [i \in Items |-> IF i \in DOMAIN decisions
                                  THEN Revised(pool[i], decisions[i]) ELSE pool[i]]
  IN IF ~ ValidPool(revised)
     THEN /\ Fail("revise", "refused")
          /\ application' = NoApplication
          /\ UNCHANGED validation
     ELSE /\ pool' = revised
          /\ revisions' = revisions \cup
               {[round |-> debate_round, item |-> i, action |-> decisions[i]]
                  : i \in DOMAIN decisions}
          /\ application' = Application(revised, decisions)
          /\ Step("revise", IF application'.rescore # {} THEN "score" ELSE "unscored")
          /\ UNCHANGED <<debate_round, report, validation, exchanges, score_records,
                         rounds, recommendation, failure>>

ReviseProposals ==
  /\ pc = "revise"
  /\ IF \/ ~ GateIsCurrent \/ Proposers = {} \/ Of(debate_round, revisions) # {}
        \/ {r.reviewer : r \in Of(debate_round, exchanges)} # Reviewers
     THEN /\ Fail("revise", "refused")
          /\ application' = NoApplication
          /\ UNCHANGED validation
     ELSE \/ \E calls \in Calls(Proposers) :
               /\ ~ AllSucceed(calls)
               /\ Fail("revise", "call")
               /\ application' = NoApplication
               /\ UNCHANGED validation
          \/ \E decisions \in [Negotiating(pool) -> Action] : CommitRevisions(decisions)

\* What two accepted drafts say of the closure (_assemble_score_record): own of
\* each manager's proposals, which it must be in favour of, other of its rival's.
Drafted(own, other) ==
  [i \in DOMAIN own |-> [m \in Manager |-> IF m = Proposer(i) THEN own[i] ELSE other[i]]]

Scored(item, scores) == [item EXCEPT !.scores = scores, !.scored = item.revision]

CommitScores(scores) ==
  LET rescored == [i \in Items |-> IF i \in DOMAIN scores
                                   THEN Scored(pool[i], scores[i]) ELSE pool[i]]
  IN IF ~ ValidPool(rescored)
     THEN Fail("score", "refused") /\ UNCHANGED <<application, validation>>
     ELSE /\ pool' = rescored
          /\ score_records' = score_records \cup
               {[round |-> debate_round, manager |-> m] : m \in Manager}
          /\ Step("score", "validate")
          /\ UNCHANGED <<debate_round, report, application, validation, exchanges,
                         revisions, rounds, recommendation, failure>>

ScoreRevisions ==
  /\ pc = "score"
  /\ IF \/ application = NoApplication
        \/ application.round # debate_round
        \/ application.rescore = {}
        \/ application.rescore \cap Active(pool) # application.rescore
        \/ Of(debate_round, revisions) = {}
        \/ Of(debate_round, score_records) # {}
     THEN Fail("score", "refused") /\ UNCHANGED <<application, validation>>
     ELSE \/ \E calls \in Calls(Manager) :
               /\ ~ AllSucceed(calls)
               /\ Fail("score", "call")
               /\ UNCHANGED <<application, validation>>
          \/ \E own \in [application.rescore -> {s \in Score : s > 0}],
             other \in [application.rescore -> Score] : CommitScores(Drafted(own, other))

\* The committed scores are checked after the fact: a violation ends the run.
ValidateScores ==
  /\ pc = "validate"
  /\ validation' = [round |-> debate_round, valid |-> Exclusive(pool)]
  /\ UNCHANGED application
  /\ IF Exclusive(pool)
     THEN /\ Step("validate", "complete")
          /\ UNCHANGED <<debate_round, pool, report, recordVars, recommendation, failure>>
     ELSE Fail("validate", "scores")

\* _complete_round for the given scoring managers.
CompleteRound(node, ready, managers) ==
  /\ pc = node
  /\ IF \/ ~ ready
        \/ report.round # debate_round - 1
        \/ application.round # debate_round
        \/ Of(debate_round, rounds) # {}
     THEN Fail(node, "refused") /\ UNCHANGED <<application, validation>>
     ELSE /\ rounds' = rounds \cup
               {[round |-> debate_round,
                 exchanged |-> {r.reviewer : r \in Of(debate_round, exchanges)},
                 revised |-> {Proposer(r.item) : r \in Of(debate_round, revisions)},
                 scored |-> managers, changes |-> Cardinality(application.material)]}
          /\ Step(node, "gate")
          /\ UNCHANGED <<debate_round, pool, report, application, validation, exchanges,
                         revisions, score_records, recommendation, failure>>

CompleteScored ==
  CompleteRound("complete",
                validation # NoValidation /\ validation.round = debate_round
                  /\ validation.valid, Manager)

CompleteUnscored == CompleteRound("unscored", TRUE, {})

-----------------------------------------------------------------------------
(* assemble_consensus_recommendation.                                      *)

\* Mutant: an agreement on anything at all is enough.
MutActionable(accepted) == accepted # {}

Actionable(accepted) == accepted # {} /\ report.missing = {}

\* _catalog_error: the report describes the pool it is read with.
ReportDescribesPool ==
  /\ report.round = debate_round
  /\ report.source = Source(pool, debate_round)
  /\ \A i \in Items : /\ report.outcome[i] = pool[i].status
                      /\ report.revision[i] = pool[i].revision
  /\ report.missing = Missing(pool)

Recommend(accepted) ==
  /\ recommendation' =
       [stop |-> "complete", items |-> accepted,
        debate |-> IF \E i \in Items : report.outcome[i] = "EXCLUDED"
                   THEN "PARTIAL_CONSENSUS" ELSE "AGREED"]
  /\ UNCHANGED failure

\* The model's draft must cite exactly the accepted items; it decides nothing.
Assemble ==
  LET accepted == {i \in Items : report.outcome[i] = "AGREED"}
  IN /\ pc = "assemble"
     /\ Step("assemble", "done")
     /\ IF report.route # "assemble" \/ ~ ReportDescribesPool
        THEN failure' = "refused" /\ UNCHANGED recommendation
        ELSE IF ~ Actionable(accepted)
        THEN /\ recommendation' = [stop |-> "no_actionable_consensus"]
             /\ UNCHANGED failure
        ELSE \/ failure' = "call" /\ UNCHANGED recommendation
             \/ Recommend(accepted)
     /\ UNCHANGED <<debate_round, pool, report, application, validation, recordVars>>

Ended == pc \in {"done", "failed"} /\ UNCHANGED vars

Next == \/ ConsensusGate \/ Begin \/ ExchangeReasons \/ ReviseProposals
        \/ ScoreRevisions \/ ValidateScores \/ CompleteScored \/ CompleteUnscored
        \/ Assemble \/ Ended

Nodes == {"gate", "begin", "exchange", "revise", "unscored", "score", "validate",
          "complete", "assemble", "done", "failed"}

\* LangGraph runs the next node until the graph ends; a model call that hangs
\* is ended by its client's timeout and counts as a failed call.  A step that is
\* not the end goes on to another node, so this is the fairness of Next.
Fairness == WF_pc(pc \notin {"done", "failed"} /\ pc' \in Nodes)

Spec == Init /\ [][Next]_vars /\ Fairness

-----------------------------------------------------------------------------
(* Properties.                                                             *)

\* The gate never counts scores that were given to another text: whenever it is
\* about to run, and for as long as an item is agreed, both managers scored the
\* item's current revision.  A revision that slips past the rescoring closure,
\* or a score that outlives the text it was given to, would let a manager agree
\* to words that were never put to it.
AgreedOnCurrentText ==
  \A i \in Items :
    /\ pool[i].status = "AGREED" => Passes(pool[i])
    /\ \/ pool[i].status = "AGREED"
       \/ pc = "gate" /\ i \in Active(pool)
       => pool[i].scored = pool[i].revision

\* The gate leaves a slot one winner at most, with every rival decided, and a
\* pool it can evaluate reaches it: no two open proposals of a slot both pass.
OneWinnerPerSlot ==
  \A i \in Items : \A j \in Rivals(i) :
    /\ pool[i].status = "AGREED" => pool[j].status \in {"REJECTED", "WITHDRAWN"}
    /\ pc = "gate" => ~ (/\ {i, j} \subseteq Active(pool)
                         /\ Passes(pool[i]) /\ Passes(pool[j]))

\* The audit records explain the pool: an item's revision counts the MODIFY and
\* WITHDRAW decisions recorded for it, it is WITHDRAWN exactly if its last
\* decision says so, and each completed round has a summary that names the
\* managers who spoke in it, every proposer having been answered first.  The
\* provenance checks of the nodes (rounds, fingerprints, coverage, statuses)
\* accept it all: a run fails of a model or of inconsistent scores, never of its
\* own bookkeeping.
AuditExplainsPool ==
  LET material(i) == {r \in revisions : r.item = i /\ r.action # "KEEP"}
  IN /\ failure # "refused"
     /\ \A i \in Items :
          /\ pool[i].revision = 1 + Cardinality(material(i))
          /\ pool[i].status = "WITHDRAWN" <=> \E r \in material(i) : r.action = "WITHDRAW"
     /\ \A r \in revisions : \E e \in exchanges :
          e.round = r.round /\ e.reviewer = Other(Proposer(r.item))
     /\ {s.round : s \in rounds} = 1..IF pc \in {"begin", "gate", "assemble", "done"}
                                     THEN debate_round ELSE Least(debate_round, Cardinality(rounds))
     /\ \A s \in rounds :
          /\ s.changes = Cardinality({r \in Of(s.round, revisions) : r.action # "KEEP"})
          /\ s.exchanged = {Other(m) : m \in s.revised}
          /\ s.scored = {r.manager : r \in Of(s.round, score_records)}

\* The committee recommends exactly what both managers agreed on, one proposal
\* for every decision the research target requires; it says PARTIAL_CONSENSUS
\* when proposals were left out, which takes all the rounds.
RecommendationFaithful ==
  recommendation.stop = "complete" =>
    /\ recommendation.items = {i \in Items : pool[i].status = "AGREED"}
    /\ \A slot \in Required : \E i \in recommendation.items :
         /\ SlotOf[i] = slot
         /\ \A j \in recommendation.items : SlotOf[j] = slot => j = i
    /\ recommendation.debate = "PARTIAL_CONSENSUS"
         <=> \E i \in Items : pool[i].status = "EXCLUDED"
    /\ recommendation.debate = "PARTIAL_CONSENSUS" => debate_round = MaxRounds

\* Every proposal is decided in the end, unless a model fails or the managers
\* score inconsistently: no proposal is negotiated for ever.
EveryProposalDecided ==
  <>(\/ failure \in {"call", "scores"}
     \/ \A i \in Items : pool[i].status \in {"AGREED"} \cup Inactive)

\* Statuses move as the abstract lifecycle allows: decisions are final.
Lifecycle == INSTANCE ConsensusLifecycle
  WITH status <- [i \in Items |-> pool[i].status], round <- debate_round
ImplementsLifecycle == Lifecycle!Spec
=============================================================================
