--------------------------- MODULE Recommendations ---------------------------
(***************************************************************************)
(* From the validated theses to the report (graph/nodes/                   *)
(* portfolio_recommendation.py, independent_recommendations.py,            *)
(* report_composer.py):                                                    *)
(*                                                                         *)
(*            +-> aggressive recommendation --+                            *)
(*   theses --+                               +-> finalize --+--> compose  *)
(*            +-> conservative recommendation-+              |             *)
(*                                            +-> debate ----+             *)
(*                                                                         *)
(* The two manager nodes run in one superstep of LangGraph: their model    *)
(* calls interleave and neither sees what the other returns.  With         *)
(* cross-review models the graph goes on to the debate, modelled in        *)
(* CrossReview and Negotiation and here by the ways it can end; without    *)
(* them to the finalizer.                                                  *)
(*                                                                         *)
(* A draft is the set of its proposals: target, decision dimension and     *)
(* cited theses.  Texts, scores, identifiers and fingerprints are left     *)
(* out, as are the checks of run, date and target of records: one run of   *)
(* the graph has one of each.                                              *)
(***************************************************************************)
EXTENDS StructuredOutput, FiniteSets

CONSTANTS
  Thesis,     \* thesis identifiers
  Subject,    \* of each thesis: its target
  Scope,      \* the research target
  Draft,      \* what a model may answer
  MinItems, MaxItems,  \* bounds of PortfolioRecommendationDraft.proposal_items
  MaxTheses   \* PortfolioRecommendationLimits.max_input_theses

Required == {"ACTION", "HORIZON", "RISK_CONTROL"}
Eligible == {"SUPPORTED", "MIXED"}
Completed == Eligible \cup {"REFUTED", "INCONCLUSIVE"}

ASSUME RecommendationsAssumption ==
  /\ Caller = {"AGGRESSIVE", "CONSERVATIVE"}
  /\ \A d \in Draft : IsFiniteSet(d) /\ \A item \in d : item.cites # {}

VARIABLES
  theses,          \* thesis_pool: the status of each thesis in it
  lengthy,         \* theses of which DecisionThesisSummary cannot be made: too long
  overlong,        \* managers whose context exceeds max_context_characters
  debate,          \* whether the graph is built with cross-review models
  stage,           \* the nodes LangGraph runs next
  recommendation,  \* aggressive_recommendation, conservative_recommendation
  summary,         \* their run summaries
  errors,          \* errors: the node and, if a call failed, its event
  finalized,       \* independent_recommendations_finalized
  ended,           \* what the debate leaves: gate report, assembly, consensus
  report           \* research_report

resultVars == <<recommendation, summary, errors>>
vars == <<callVars, theses, lengthy, overlong, debate, stage, resultVars,
          finalized, ended, report>>

-----------------------------------------------------------------------------
(* What a draft must be.                                                   *)

Slot(item) == <<item.target, item.dimension>>

\* PortfolioRecommendationDraft: the schema the structured call validates.
WellFormed(d) ==
  /\ Cardinality(d) \in MinItems..MaxItems
  /\ \A i, j \in d : Slot(i) = Slot(j) => i = j
  /\ Required \subseteq {item.dimension : item \in d}

EligibleIds == {t \in DOMAIN theses : theses[t] \in Eligible}

\* Mutant: what the schema has counted is not looked for on the research target.
MutAcceptable(d) ==
  \A item \in d :
    /\ item.cites \subseteq EligibleIds
    /\ item.target # Scope => \E t \in item.cites : Subject[t] = item.target

\* _draft_error is None.
Acceptable(d) ==
  /\ Required \subseteq {item.dimension : item \in {i \in d : i.target = Scope}}
  /\ \A item \in d :
       /\ item.cites \subseteq EligibleIds
       /\ item.target # Scope => \E t \in item.cites : Subject[t] = item.target

None == [items |-> {}, supports |-> {}, manager |-> "none"]

\* _assemble_recommendation.
Assembled(m, d) ==
  [items |-> d, supports |-> UNION {item.cites : item \in d}, manager |-> m]

NoSummary == [stop |-> "none", called |-> FALSE, proposals |-> 0]
NoDebate  == [gate |-> FALSE, assembly |-> "none", consensus |-> FALSE]
NoReport  == [outcome |-> "none", health |-> "none", mode |-> "none"]

\* The validation ends with every thesis completed (ThesisValidation).  Errors of
\* the stages before are left out: they only add to errors.
Init ==
  /\ CallsInit
  /\ theses \in UNION {[pool -> Completed] : pool \in SUBSET Thesis}
  /\ lengthy \in SUBSET DOMAIN theses
  /\ overlong \in SUBSET Caller
  /\ debate \in BOOLEAN
  /\ stage = "managers"
  /\ recommendation = [m \in Caller |-> None]
  /\ summary = [m \in Caller |-> NoSummary]
  /\ errors = {}
  /\ finalized = FALSE
  /\ ended = NoDebate
  /\ report = NoReport

-----------------------------------------------------------------------------
(* A manager's node.                                                       *)

Running(m) == stage = "managers" /\ summary[m] = NoSummary

Ends(m, stop, called, proposals) ==
  summary' = [summary EXCEPT ![m] = [stop |-> stop, called |-> called,
                                     proposals |-> proposals]]

Error(node, event) == [node |-> node, event |-> event]

\* _failure_updates.
Fails(m, stop, called, proposals, event) ==
  /\ Ends(m, stop, called, proposals)
  /\ errors' = errors \cup {Error(m, event)}
  /\ UNCHANGED recommendation

\* Why a manager does not ask its model, in the order of the checks.
Refusal(m) ==
  IF \E t \in DOMAIN theses : theses[t] \notin Completed THEN "invalid_state"
  ELSE IF Cardinality(DOMAIN theses) > MaxTheses THEN "thesis_limit_exceeded"
  ELSE IF lengthy # {} THEN "invalid_state"
  ELSE IF EligibleIds = {} THEN "no_decision_theses"
  ELSE IF m \in overlong THEN "context_limit_exceeded"
  ELSE "none"

otherVars == <<theses, lengthy, overlong, debate, stage, finalized, ended,
               report>>

Ask(m) ==
  /\ Running(m)
  /\ Refusal(m) = "none"
  /\ Invoke(m)
  /\ UNCHANGED <<resultVars, otherVars>>

\* Nothing to decide on is not an error.
Refuse(m) ==
  /\ Running(m)
  /\ Refusal(m) # "none"
  /\ IF Refusal(m) = "no_decision_theses"
     THEN /\ Ends(m, Refusal(m), FALSE, 0)
          /\ UNCHANGED <<recommendation, errors>>
     ELSE Fails(m, Refusal(m), FALSE, 0, NoEvent)
  /\ UNCHANGED <<callVars, otherVars>>

\* An attempt that ends the call ends the node with it: model_error.  The error
\* names the event after the details of the failure, and is cut at a thousand
\* characters (describe_exception): long details leave no room for it.
CallFails(m, category) ==
  /\ AttemptFails(m, category)
  /\ IF Repairable(m, category)
     THEN UNCHANGED resultVars
     ELSE \E event \in {Len(log) + 1, NoEvent} : Fails(m, "model_error", TRUE, 0, event)
  /\ UNCHANGED otherVars

TransportFails(m) == CallFails(m, "transport_error")

\* The answer is none of the schema's: not parsed or not well formed.
AnswerInvalid(m) ==
  /\ \E d \in Draft : ~WellFormed(d)
  /\ CallFails(m, "validation_error")

Answer(m) ==
  \E d \in {d \in Draft : WellFormed(d)} :
    /\ AttemptSucceeds(m)
    /\ IF Acceptable(d)
       THEN /\ recommendation' = [recommendation EXCEPT ![m] = Assembled(m, d)]
            /\ Ends(m, "complete", TRUE, Cardinality(d))
            /\ UNCHANGED errors
       ELSE Fails(m, "rejected_output", TRUE, Cardinality(d), NoEvent)
    /\ UNCHANGED otherVars

-----------------------------------------------------------------------------
(* The ends of the graph.                                                  *)

Both == \A m \in Caller : recommendation[m] # None

\* The superstep of the managers is over.
Join ==
  /\ stage = "managers"
  /\ \A m \in Caller : summary[m] # NoSummary
  /\ stage' = IF debate THEN "debate" ELSE "finalize"
  /\ UNCHANGED <<callVars, theses, lengthy, overlong, debate, resultVars, finalized, ended, report>>

\* Mutant: an incomplete pair of recommendations is left alone.
MutFinalize ==
  /\ stage = "finalize"
  /\ stage' = "compose"
  /\ IF \A m \in Caller : recommendation[m].manager = m
     THEN finalized' = TRUE /\ UNCHANGED errors
     ELSE UNCHANGED <<finalized, errors>>
  /\ UNCHANGED <<callVars, theses, lengthy, overlong, debate, recommendation, summary,
                 ended, report>>

\* finalize_independent_recommendations_node.
Finalize ==
  /\ stage = "finalize"
  /\ stage' = "compose"
  /\ IF \A m \in Caller : recommendation[m].manager = m
     THEN finalized' = TRUE /\ UNCHANGED errors
     ELSE errors' = errors \cup {Error("finalizer", NoEvent)} /\ UNCHANGED finalized
  /\ UNCHANGED <<callVars, theses, lengthy, overlong, debate, recommendation, summary,
                 ended, report>>

\* The ways the debate ends.  Without both recommendations normalisation fails;
\* with them a stage fails before or after the first gate report, the graph ends
\* with valid cross-reviews (no negotiation is configured), or the assembler is
\* reached and says how it stops.
DebateEnd ==
  {[gate |-> g, assembly |-> "none", consensus |-> FALSE] : g \in BOOLEAN} \cup
  {[gate |-> TRUE, assembly |-> stop, consensus |-> stop = "complete"] :
     stop \in {"complete", "no_actionable_consensus", "model_error"}}

\* An assembler that decided leaves no error, nor does an end after the reviews.
Debate ==
  /\ stage = "debate"
  /\ stage' = "compose"
  /\ \E e \in DebateEnd :
       /\ ~Both => e = NoDebate
       /\ ended' = e
       /\ errors' \in IF e.assembly \in {"complete", "no_actionable_consensus"}
                      THEN {errors}
                      ELSE {errors \cup {Error("debate", NoEvent)}} \cup
                           IF Both /\ ~e.gate THEN {errors} ELSE {}
  /\ UNCHANGED <<callVars, theses, lengthy, overlong, debate, recommendation, summary,
                 finalized, report>>

\* _recommendation_output_mode.
Mode ==
  CASE finalized -> "DUAL_INDEPENDENT"
    [] ~finalized /\ (ended.consensus \/ ended.gate \/ ended.assembly # "none") -> "CONSENSUS"
    [] OTHER -> "INCOMPLETE"

\* _report_outcome.
Outcome ==
  CASE Both /\ Mode = "DUAL_INDEPENDENT" -> "DUAL_RECOMMENDATIONS_READY"
    [] Both /\ Mode # "DUAL_INDEPENDENT" /\ ended.consensus -> "CONSENSUS_READY"
    [] Both /\ Mode # "DUAL_INDEPENDENT" /\ ~ended.consensus
            /\ ended.assembly = "no_actionable_consensus" -> "NO_ACTIONABLE_CONSENSUS"
    [] OTHER -> "INCOMPLETE"

\* ResearchReport.validate_identity_and_outcome derives the outcome again, and not
\* in the same order.
Expected ==
  CASE Both /\ Mode = "DUAL_INDEPENDENT" /\ ~ended.consensus -> "DUAL_RECOMMENDATIONS_READY"
    [] Both /\ ended.consensus -> "CONSENSUS_READY"
    [] Both /\ ~ended.consensus /\ Mode # "DUAL_INDEPENDENT"
            /\ ended.assembly = "no_actionable_consensus" -> "NO_ACTIONABLE_CONSENSUS"
    [] OTHER -> "INCOMPLETE"

\* _integrity_warnings, as far as one run can give them: a recommendation that
\* supports itself by a thesis that is not in the pool.
Warned == \E m \in Caller : ~(recommendation[m].supports \subseteq DOMAIN theses)

\* _report_health.
Health ==
  CASE errors # {} -> "WITH_ERRORS"
    [] errors = {} /\ Warned -> "WITH_WARNINGS"
    [] OTHER -> "CLEAN"

\* report_composer_node: a report the model refuses ends the run with an error.
Compose ==
  /\ stage = "compose"
  /\ IF Outcome = Expected
     THEN /\ report' = [outcome |-> Outcome, health |-> Health, mode |-> Mode]
          /\ stage' = "done"
     ELSE /\ stage' = "crashed"
          /\ UNCHANGED report
  /\ UNCHANGED <<callVars, theses, lengthy, overlong, debate, resultVars, finalized, ended>>

Next ==
  \/ \E m \in Caller :
       Ask(m) \/ Refuse(m) \/ TransportFails(m) \/ AnswerInvalid(m) \/ Answer(m)
  \/ Join \/ Finalize \/ Debate \/ Compose

Spec == Init /\ [][Next]_vars

-----------------------------------------------------------------------------
(* Properties.                                                             *)

\* Every call of a model can be followed in the shared log although the calls of
\* the two managers interleave in it and writes may fail: the attempts are those
\* the policy allows, a repair names what it repairs, a call that was given up is
\* an error of its manager, and an error that names an event names the very one
\* that manager's call ended with (llm/structured_output.py,
\* portfolio_recommendation.py:183).
CallsAreAudited ==
  \A m \in Caller :
    /\ call[m].state \in {"returned", "raised"} => Audited(m)
    /\ call[m].state = "raised" => /\ summary[m].stop = "model_error"
                                  /\ \E error \in errors : error.node = m
    /\ \A error \in errors :
         error.node = m /\ error.event # NoEvent =>
           call[m].state = "raised" /\ error.event = call[m].event
    /\ call[m].state = "idle" => EventsOf(m) = {}

\* A recommendation is a complete answer of its manager's model that rests on
\* supported theses alone: it settles action, horizon and risk of the research
\* target once each, and speaks of another target only with a thesis about it.
\* What the schema counts over all targets the node must find on the research
\* target (_draft_error, PortfolioRecommendationDraft).
RecommendationsGrounded ==
  \A m \in Caller :
    LET r == recommendation[m]
        about(target) == {item \in r.items : item.target = target}
    IN  /\ r # None <=> summary[m].stop = "complete"
        /\ r # None =>
             /\ r.manager = m
             /\ call[m].state = "returned"
             /\ r.supports # {}
             /\ \A t \in r.supports : t \in DOMAIN theses /\ theses[t] \in Eligible
             /\ \A dimension \in Required :
                  \E item \in about(Scope) :
                    {i \in about(Scope) : i.dimension = dimension} = {item}
             /\ \A item \in r.items \ about(Scope) :
                  \E t \in r.supports : Subject[t] = item.target

\* The report neither hides nor invents: it is never refused by its own model,
\* two ready recommendations are announced only if both managers answered and no
\* debate was to decide between them, a consensus only if the assembler made
\* one, and a run in which a manager has no recommendation is incomplete and
\* shows errors, whichever manager it was and however its node ended
\* (docs/v1-no-debate-release.md:52, report_composer.py, reporting/models.py).
ReportTellsTheRun ==
  /\ stage # "crashed"
  /\ report # NoReport =>
       /\ report.outcome = "DUAL_RECOMMENDATIONS_READY" <=> ~debate /\ Both
       /\ report.outcome = "CONSENSUS_READY" <=> ended.assembly = "complete"
       /\ report.outcome = "NO_ACTIONABLE_CONSENSUS"
            <=> ended.assembly = "no_actionable_consensus"
       /\ ~Both => report.outcome = "INCOMPLETE" /\ report.health = "WITH_ERRORS"
       /\ report.health = "CLEAN" =>
            \A m \in Caller : /\ summary[m].stop = "complete"
                              /\ call[m].state = "returned"
=============================================================================
