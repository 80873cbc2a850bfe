-------------------------- MODULE ThesisValidation --------------------------
(***************************************************************************)
(* The serial thesis-validation loop of the research graph                 *)
(* (graph/nodes/thesis_validation.py, wired in graph/builder.py):          *)
(*                                                                         *)
(*   select_thesis_for_validation -> review_active_thesis                  *)
(*        ^                              |  ^                              *)
(*        |  verdict                     |  |  one request                 *)
(*        +------------------------------+  +-> execute_validation_research*)
(*                                                                         *)
(* and finalize_thesis_validation once no thesis is UNVERIFIED.            *)
(*                                                                         *)
(* A step of this module is one LangGraph super-step: the node reads the   *)
(* state, awaits its model or its domain agent, and the updates it returns *)
(* are merged by the reducers at once.  thesis_pool is append-only and     *)
(* merged by thesis_id, so a thesis is named by its position in the pool.  *)
(* Texts, confidences and time stamps are abstracted: a request is known   *)
(* by its fingerprint, an evidence record by its identity and by the four  *)
(* facts the code asks of it.                                              *)
(***************************************************************************)
EXTENDS Integers, Sequences, FiniteSets

CONSTANTS
  Target,            \* research targets (market, sector, stock codes)
  Benchmark,         \* the index targets a technical answer may also cover
  Domain,            \* the evidence domains a request can be assigned to
  Technical,         \* the technical one
  Executable,        \* the domains with a configured sub-graph resolver
  EvidenceId,        \* identifiers a model may cite, real or invented
  EvidenceRecords,   \* the records the domain agents may return
  Drafts,            \* candidate theses the strategist or validator may draft
  RequestDrafts,     \* research requests the validation model may draft
  Finalizations,     \* verdicts the validation model may draft
  Fingerprint,       \* request fingerprints
  NoFingerprint,     \* the absent fingerprint
  MaxCandidates,     \* max_candidates of the strategist
  MaxRounds,         \* max_research_rounds_per_thesis
  MaxRequests,       \* max_research_requests_per_run
  MaxPerTurn,        \* max_discovered_candidates_per_turn
  MaxDiscovered,     \* max_discovered_candidates_per_run
  MaxContextEvidence \* the max_length of ThesisValidationInput.evidence

Final     == {"SUPPORTED", "REFUTED", "MIXED", "INCONCLUSIVE"}
Terminal  == {"COMPLETED", "NO_NEW_EVIDENCE", "FAILED", "CANCELLED_BY_BUDGET"}
Active    == {"PENDING", "RUNNING"}
Outcome   == {"EVIDENCE_FOUND", "NO_MATCHING_EVIDENCE", "INSUFFICIENT_TOOL_COVERAGE",
              "SOURCE_UNAVAILABLE", "REQUEST_FAILED", "BUDGET_EXHAUSTED"}

EvidenceRecord == [id: EvidenceId, target: Target, domain: Domain,
                   decisive: BOOLEAN,     \* VERIFIED or REVISED
                   admissible: BOOLEAN]   \* no Collector rejection reason
Draft          == [target: Target, text: STRING, supporting: SUBSET EvidenceId,
                   contradicting: SUBSET EvidenceId]
RequestDraft   == [fingerprint: Fingerprint, domain: Domain, target: Target,
                   beyondAsOf: BOOLEAN]   \* time_range.end is after as_of
Finalization   == [status: Final, supporting: SUBSET EvidenceId,
                   contradicting: SUBSET EvidenceId]

Cited(x) == x.supporting \cup x.contradicting

\* Text stands for title and description together; the strategist's and the
\* validator's drafts support themselves with at least one evidence id.
ASSUME InputAssumption ==
  /\ Benchmark \subseteq Target /\ Technical \in Domain /\ Executable \subseteq Domain
  /\ EvidenceRecords \subseteq EvidenceRecord
  /\ Drafts \subseteq Draft
  /\ RequestDrafts \subseteq RequestDraft
  /\ Finalizations \subseteq Finalization
  /\ \A f \in Finalizations : /\ f.supporting \cap f.contradicting = {}
                              /\ Cited(f) # {}
  /\ NoFingerprint \notin Fingerprint

ASSUME LimitAssumption ==
  /\ MaxCandidates \in Nat /\ MaxRounds \in Nat \ {0} /\ MaxRequests \in Nat \ {0}
  /\ MaxPerTurn \in 0..1 /\ MaxDiscovered \in Nat /\ MaxContextEvidence \in Nat

VARIABLES
  pc,                  \* the node LangGraph runs next
  thesis_pool,         \* sequence of theses, in the order they were accepted
  session,             \* active_validation_session
  active_request,      \* active_validation_request_id
  research_requests,   \* requests the validator created, keyed by their id
  research_findings,   \* immutable answers, one per executed request
  evidence_pool,       \* audit pool of records, keyed by evidence id
  evidence_collection, \* what the Collector accepted of it
  request_count,       \* validation_research_request_count
  discovered_count,    \* validation_discovered_candidate_count
  model_call_count,    \* validation_model_call_count
  input_count,         \* validation_input_thesis_count
  stop_reason,         \* validation_stop_reason
  summary,             \* thesis_validation_run_summary
  steps                \* super-steps, which LangGraph holds to recursion_limit

vars == <<pc, thesis_pool, session, active_request, research_requests,
          research_findings, evidence_pool, evidence_collection, request_count,
          discovered_count, model_call_count, input_count, stop_reason,
          summary, steps>>

evidenceVars == <<evidence_pool, evidence_collection>>
ledgerVars   == <<research_findings, request_count>>

-----------------------------------------------------------------------------
(* Records of the run.                                                     *)

\* sha256(run|thesis|attempt|fingerprint): a request is what it was built from.
RequestId == [thesis: Nat, attempt: Nat, fingerprint: Fingerprint]
NoRequest == [thesis |-> 0, attempt |-> 0, fingerprint |-> NoFingerprint]
Request   == [id: RequestId, domain: Domain, target: Target,
              status: {"PENDING"} \cup Terminal, results: SUBSET EvidenceId]
Finding   == [request: RequestId, outcome: Outcome, evidence: SUBSET EvidenceId]

\* sha256(run|parent|draft) for a discovered thesis, sha256(run|draft), parent 0,
\* for one of the strategist's.
Thesis == [parent: Nat, draft: Drafts, status: {"UNVERIFIED", "UNDER_REVIEW"} \cup Final,
           supporting: SUBSET EvidenceId, contradicting: SUBSET EvidenceId, round: Nat]

StopReason == {"none", "complete", "no_theses", "model_error", "invalid_state"}
Summary    == [completed: Nat, findings: Nat, stop: StopReason]
NoSummary  == [completed |-> 0, findings |-> 0, stop |-> "none"]

Session   == [thesis: Nat, turns: Seq(Finding), used: SUBSET Fingerprint,
              pending: Fingerprint \cup {NoFingerprint}]
NoSession == [thesis |-> 0, turns |-> <<>>, used |-> {}, pending |-> NoFingerprint]

Ids(records)      == {e.id : e \in records}
Least(a, b)       == IF a <= b THEN a ELSE b
UniqueIds(records) == \A e, f \in records : e.id = f.id => e = f

\* _merge_evidence and merge_evidence_records: a new version of an id replaces
\* the old one.
MergeEvidence(pool, records) == {e \in pool : e.id \notin Ids(records)} \cup records

\* evidence_collector_node: the records without a rejection reason.
Collect(records) == {e \in records : e.admissible}

NewThesis(parent, d) ==
  [parent |-> parent, draft |-> d, status |-> "UNVERIFIED",
   supporting |-> d.supporting, contradicting |-> d.contradicting, round |-> 0]

\* Every citation is collected and one supporting record is about the target
\* (_draft_error; the first two rejections of _assemble_discovered_candidates).
Grounded(d, catalog) ==
  /\ Cited(d) \subseteq Ids(catalog)
  /\ \E e \in catalog : e.id \in d.supporting /\ e.target = d.target

-----------------------------------------------------------------------------
(* Initial states: what collect_evidence and generate_candidate_theses left *)
(* behind.  initialize_run refuses an input that carries a session.         *)

Init ==
  /\ evidence_pool \in {p \in SUBSET EvidenceRecords : UniqueIds(p)}
  /\ evidence_collection = Collect(evidence_pool)
  /\ \E n \in 0..MaxCandidates :
       \E ds \in [1..n -> {d \in Drafts : Grounded(d, evidence_collection)}] :
         /\ \A i, j \in 1..n : ds[i] = ds[j] => i = j
         /\ thesis_pool = [i \in 1..n |-> NewThesis(0, ds[i])]
  /\ pc = "select"
  /\ session = NoSession
  /\ active_request = NoRequest
  /\ research_requests = {}
  /\ research_findings = {}
  /\ request_count = 0
  /\ discovered_count = 0
  /\ model_call_count = 0
  /\ input_count = 0
  /\ stop_reason = "none"
  /\ summary = NoSummary
  /\ steps = 0

-----------------------------------------------------------------------------
(* select_thesis_for_validation.                                           *)

\* Mutant: the selection skips theses the validator discovered itself.
MutUnverified == {t \in DOMAIN thesis_pool : /\ thesis_pool[t].status = "UNVERIFIED"
                                            /\ thesis_pool[t].parent = 0}

Unverified == {t \in DOMAIN thesis_pool : thesis_pool[t].status = "UNVERIFIED"}

\* A node runs: LangGraph counts the super-step and follows the route.
Step(node, route) ==
  /\ pc = node
  /\ pc' = route
  /\ steps' = steps + 1

OpenSession(t) ==
  /\ thesis_pool' = [thesis_pool EXCEPT ![t] = [@ EXCEPT !.status = "UNDER_REVIEW", !.round = 0]]
  /\ session' = [NoSession EXCEPT !.thesis = t]
  /\ active_request' = NoRequest
  /\ input_count' = IF input_count = 0 THEN Len(thesis_pool) ELSE input_count

\* The first UNVERIFIED thesis, unless a session is open or none is left.
Select ==
  /\ IF session # NoSession \/ Unverified = {}
     THEN UNCHANGED <<thesis_pool, session, active_request, input_count>>
     ELSE \E t \in Unverified : /\ \A u \in Unverified : t <= u
                                /\ OpenSession(t)
  /\ Step("select", IF session' # NoSession THEN "review" ELSE "finalize")
  /\ UNCHANGED <<research_requests, ledgerVars, evidenceVars, discovered_count,
                 model_call_count, stop_reason, summary>>

-----------------------------------------------------------------------------
(* How a session is closed without a verdict of the model.                 *)

Current == thesis_pool[session.thesis]

InvalidSession == \/ session.thesis \notin DOMAIN thesis_pool
                  \/ Current.status # "UNDER_REVIEW"

\* Mutant: the forced verdict forgets the status.
MutInconclusive(thesis, turns) == [thesis EXCEPT !.round = Len(turns)]

Inconclusive(thesis, turns) ==
  [thesis EXCEPT !.status = "INCONCLUSIVE", !.round = Len(turns)]

CloseSession ==
  /\ session' = NoSession
  /\ active_request' = NoRequest

\* _force_inconclusive_updates: the thesis keeps its citations, and the theses
\* discovered in the same review stay.
ForceInconclusive(found) ==
  /\ thesis_pool' = [thesis_pool EXCEPT ![session.thesis] =
                       Inconclusive(@, session.turns)] \o found
  /\ CloseSession
  /\ UNCHANGED research_requests

\* _abandon_invalid_session.
AbandonInvalidSession ==
  /\ thesis_pool' = IF session.thesis \in DOMAIN thesis_pool
                    THEN [thesis_pool EXCEPT ![session.thesis] =
                            Inconclusive(@, session.turns)]
                    ELSE thesis_pool
  /\ CloseSession
  /\ stop_reason' = "invalid_state"
  /\ UNCHANGED <<research_requests, ledgerVars, evidenceVars, discovered_count,
                 model_call_count>>

\* _recover_missing_validation_session: an active request without a session is
\* failed and its thesis closed, so that review and research cannot alternate
\* for ever.
RecoverMissingSession ==
  LET lost == active_request.thesis
      known == \E r \in research_requests : r.id = active_request
  IN /\ research_requests' = {IF r.id = active_request /\ r.status \in Active
                              THEN [r EXCEPT !.status = "FAILED"] ELSE r
                                : r \in research_requests}
     /\ thesis_pool' = IF /\ known
                          /\ lost \in DOMAIN thesis_pool
                          /\ thesis_pool[lost].status = "UNDER_REVIEW"
                       THEN [thesis_pool EXCEPT ![lost] = Inconclusive(@, <<>>)]
                       ELSE thesis_pool
     /\ CloseSession
     /\ stop_reason' = "invalid_state"
     /\ UNCHANGED <<ledgerVars, evidenceVars, discovered_count, model_call_count>>

-----------------------------------------------------------------------------
(* review_active_thesis: what the model is shown.                          *)

\* _session_evidence: the thesis' own citations, what its research found, and
\* everything collected about its target.
RequiredEvidence ==
  Cited(Current)
    \cup (UNION {session.turns[i].evidence : i \in DOMAIN session.turns})
    \cup Ids({e \in evidence_collection : e.target = Current.draft.target})

MissingEvidence == RequiredEvidence \ Ids(evidence_collection)
Context         == {e \in evidence_collection : e.id \in RequiredEvidence}

\* Mutant: only the per-thesis budget is looked at.
MutRemainingRounds == MaxRounds - Len(session.turns)

RemainingRounds == Least(MaxRounds - Len(session.turns), MaxRequests - request_count)
DiscoveryLimit  == Least(MaxPerTurn, MaxDiscovered - discovered_count)

\* Mutant: the per-run limit on discovered theses is not applied.
MutAcceptable(d) ==
  /\ Grounded(d, Context)
  /\ ~ (d.target = Current.draft.target /\ d.text = Current.draft.text)
  /\ \A t \in DOMAIN thesis_pool :
       ~ (thesis_pool[t].parent = session.thesis /\ thesis_pool[t].draft = d)

\* _assemble_discovered_candidates: grounded in the context, not the parent
\* restated, not discovered before from the same parent.
Acceptable(d) ==
  /\ DiscoveryLimit > 0
  /\ Grounded(d, Context)
  /\ ~ (d.target = Current.draft.target /\ d.text = Current.draft.text)
  /\ \A t \in DOMAIN thesis_pool :
       ~ (thesis_pool[t].parent = session.thesis /\ thesis_pool[t].draft = d)

\* What a decision, which drafts at most one candidate, can add to the pool.
Discoveries ==
  {<<>>} \cup {<<NewThesis(session.thesis, d)>> : d \in {c \in Drafts : Acceptable(c)}}

\* Mutant: decisive evidence about another target counts.
MutDirectAndDecisive(ids) == \E e \in Context : e.id \in ids /\ e.decisive

\* _finalization_error: the citations are in the context, and a verdict with a
\* direction rests on direct decisive evidence for that direction.
DirectAndDecisive(ids) ==
  \E e \in Context : e.id \in ids /\ e.target = Current.draft.target /\ e.decisive

\* Mutant: citations are not looked up in the context.
MutVerdict(f) ==
  /\ f.status \in {"SUPPORTED", "MIXED"} => DirectAndDecisive(f.supporting)
  /\ f.status \in {"REFUTED", "MIXED"} => DirectAndDecisive(f.contradicting)

Verdict(f) ==
  /\ Cited(f) \subseteq Ids(Context)
  /\ f.status \in {"SUPPORTED", "MIXED"} => DirectAndDecisive(f.supporting)
  /\ f.status \in {"REFUTED", "MIXED"} => DirectAndDecisive(f.contradicting)

-----------------------------------------------------------------------------
(* review_active_thesis: one review is one decision of the model.          *)

\* No decision is asked for: the previous request has no finding, required
\* evidence is missing, or (tooLong) the context exceeds max_context_characters.
ReviewBlocked(tooLong) ==
  /\ session.pending # NoFingerprint \/ MissingEvidence # {} \/ tooLong
  /\ ForceInconclusive(<<>>)
  /\ UNCHANGED <<discovered_count, model_call_count, stop_reason>>

\* The call raises.
ModelFails ==
  /\ ForceInconclusive(<<>>)
  /\ model_call_count' = model_call_count + 1
  /\ stop_reason' = "model_error"
  /\ UNCHANGED discovered_count

\* FINALIZE: a verdict that its citations do not carry becomes INCONCLUSIVE.
DecideVerdict(f, found) ==
  IF ~ Verdict(f)
  THEN ForceInconclusive(found)
  ELSE /\ thesis_pool' = [thesis_pool EXCEPT ![session.thesis] =
                            [@ EXCEPT !.status = f.status, !.round = Len(session.turns),
                                      !.supporting = f.supporting,
                                      !.contradicting = f.contradicting]] \o found
       /\ CloseSession
       /\ UNCHANGED research_requests

\* REQUEST_RESEARCH: within the budget, not beyond as_of and not asked before.
DecideRequest(d, found) ==
  LET attempt == Len(session.turns) + 1
      id == [thesis |-> session.thesis, attempt |-> attempt, fingerprint |-> d.fingerprint]
  IN IF RemainingRounds <= 0 \/ d.beyondAsOf \/ d.fingerprint \in session.used
     THEN ForceInconclusive(found)
     ELSE /\ research_requests' = {r \in research_requests : r.id # id} \cup
                {[id |-> id, domain |-> d.domain, target |-> d.target,
                  status |-> "PENDING", results |-> {}]}
          /\ session' = [session EXCEPT !.used = @ \cup {d.fingerprint},
                                        !.pending = d.fingerprint]
          /\ active_request' = id
          /\ thesis_pool' = [thesis_pool EXCEPT ![session.thesis] =
                               [@ EXCEPT !.round = attempt]] \o found

\* The drafts of a decision are assembled before its action is looked at.
ModelDecides ==
  \E found \in Discoveries :
    /\ \/ \E f \in Finalizations : DecideVerdict(f, found)
       \/ \E d \in RequestDrafts : DecideRequest(d, found)
    /\ model_call_count' = model_call_count + 1
    /\ discovered_count' = discovered_count + Len(found)
    /\ UNCHANGED stop_reason

\* ThesisValidationInput raises outside the node's try: LangGraph drops the
\* step's updates and the run fails.
ContextRejected == Cardinality(Context) \notin 1..MaxContextEvidence

ReviewAborts ==
  /\ session # NoSession /\ ~ InvalidSession
  /\ session.pending = NoFingerprint /\ MissingEvidence = {}
  /\ ContextRejected
  /\ Step("review", "aborted")
  /\ UNCHANGED <<thesis_pool, session, active_request, research_requests, ledgerVars,
                 evidenceVars, discovered_count, model_call_count, input_count,
                 stop_reason, summary>>

Review ==
  /\ IF session = NoSession
     THEN IF active_request = NoRequest
          THEN UNCHANGED <<thesis_pool, session, active_request, research_requests,
                           ledgerVars, evidenceVars, discovered_count,
                           model_call_count, stop_reason>>
          ELSE RecoverMissingSession
     ELSE IF InvalidSession
     THEN AbandonInvalidSession
     ELSE /\ UNCHANGED <<ledgerVars, evidenceVars>>
          /\ IF session.pending # NoFingerprint \/ MissingEvidence # {}
             THEN ReviewBlocked(FALSE)
             ELSE /\ ~ ContextRejected
                  /\ ReviewBlocked(TRUE) \/ ModelFails \/ ModelDecides
  /\ Step("review", IF active_request' # NoRequest THEN "execute" ELSE "select")
  /\ UNCHANGED <<input_count, summary>>

-----------------------------------------------------------------------------
(* execute_validation_research.                                            *)

\* What a domain sub-graph hands back.  intact is false when the completed
\* request changed an immutable field, is not terminal, or does not list
\* exactly the records returned with it.
Reply ==
  [status: {"COMPLETED"}, intact: BOOLEAN, records: SUBSET EvidenceRecords]
    \cup [status: {"NO_NEW_EVIDENCE"}, intact: BOOLEAN, searched: BOOLEAN, records: {{}}]
    \cup [status: {"FAILED"}, intact: BOOLEAN, network: BOOLEAN, records: {{}}]
    \cup [status: {"CANCELLED_BY_BUDGET"}, intact: BOOLEAN, records: {{}}]

\* _returned_evidence_scope_error: only the technical domain may add benchmarks
\* to records about the requested target.
InScope(request, records) ==
  /\ \A e \in records : e.domain = request.domain
  /\ IF request.domain # Technical
     THEN \A e \in records : e.target = request.target
     ELSE /\ records # {} => \E e \in records : e.target = request.target
          /\ \A e \in records : e.target \in {request.target} \cup Benchmark

\* Mutant: a returned record may differ from the pool's record of the same id.
MutCredible(request, reply) ==
  /\ reply.intact
  /\ UniqueIds(reply.records)
  /\ InScope(request, reply.records)
  /\ reply.status = "COMPLETED" => reply.records # {}

\* _completion_error and the conflict check, both of which refuse the reply whole.
Credible(request, reply) ==
  /\ reply.intact
  /\ UniqueIds(reply.records)
  /\ InScope(request, reply.records)
  /\ reply.status = "COMPLETED" => reply.records # {}
  /\ UniqueIds(evidence_pool \cup reply.records)

\* _failure_outcome and _outcome_for_terminal_request.
FailureOutcome(network) == IF network THEN "SOURCE_UNAVAILABLE" ELSE "REQUEST_FAILED"

\* Mutant: the request status is used as the outcome of a cancelled request.
MutOutcomeOfTerminal(reply) ==
  CASE reply.status = "NO_NEW_EVIDENCE" ->
         IF reply.searched THEN "NO_MATCHING_EVIDENCE" ELSE "INSUFFICIENT_TOOL_COVERAGE"
    [] reply.status = "CANCELLED_BY_BUDGET" -> reply.status
    [] OTHER -> FailureOutcome(reply.network)

OutcomeOfTerminal(reply) ==
  CASE reply.status = "NO_NEW_EVIDENCE" ->
         IF reply.searched THEN "NO_MATCHING_EVIDENCE" ELSE "INSUFFICIENT_TOOL_COVERAGE"
    [] reply.status = "CANCELLED_BY_BUDGET" -> "BUDGET_EXHAUSTED"
    [] OTHER -> FailureOutcome(reply.network)

\* The request status a finding's outcome goes with (_complete_without_agent,
\* and the expected_statuses of ValidationResearchTurn).
StatusFor(outcome) ==
  CASE outcome = "EVIDENCE_FOUND" -> "COMPLETED"
    [] outcome = "NO_MATCHING_EVIDENCE" -> "NO_NEW_EVIDENCE"
    [] outcome = "BUDGET_EXHAUSTED" -> "CANCELLED_BY_BUDGET"
    [] OTHER -> "FAILED"

\* _finish_turn: the terminal request, its finding, the turn and the evidence
\* that came with it are one update.
FinishTurn(request, outcome, evidence, records) ==
  LET finding == [request |-> request.id, outcome |-> outcome, evidence |-> evidence]
      terminal == [request EXCEPT !.status = StatusFor(outcome), !.results = evidence]
  IN IF session.pending = NoFingerprint
     THEN AbandonInvalidSession
     ELSE /\ research_requests' = {r \in research_requests : r.id # request.id}
                                    \cup {terminal}
          /\ research_findings' = research_findings \cup {finding}
          /\ session' = [session EXCEPT !.turns = Append(@, finding),
                                        !.pending = NoFingerprint]
          /\ active_request' = NoRequest
          /\ request_count' = request_count + 1
          /\ IF records = {}
             THEN UNCHANGED evidenceVars
             ELSE /\ evidence_pool' = MergeEvidence(evidence_pool, records)
                  /\ evidence_collection' = Collect(MergeEvidence(evidence_pool, records))
          /\ UNCHANGED <<thesis_pool, stop_reason>>

\* _complete_without_agent: nothing citable, so no evidence.
CompleteWithout(request, outcome) == FinishTurn(request, outcome, {}, {})

\* _complete_from_agent_result: accepted records enter the context through a
\* new collection; refused ones stay in the audit pool only.
CompleteFromReply(request, reply) ==
  LET accepted == Collect(reply.records)
      outcome == IF accepted = {} THEN "REQUEST_FAILED" ELSE "EVIDENCE_FOUND"
  IN IF ~ Credible(request, reply)
     THEN CompleteWithout(request, "REQUEST_FAILED")
     ELSE IF reply.status # "COMPLETED"
     THEN CompleteWithout(request, OutcomeOfTerminal(reply))
     ELSE FinishTurn(request, outcome, Ids(accepted), reply.records)

\* The request of the session, run by the sub-graph of its domain.
ExecuteRequest(request) ==
  IF request.domain \notin Executable
  THEN CompleteWithout(request, "INSUFFICIENT_TOOL_COVERAGE")
  ELSE \/ \E network \in BOOLEAN : CompleteWithout(request, FailureOutcome(network))
       \/ \E reply \in Reply : CompleteFromReply(request, reply)

Executing == {r \in research_requests : r.id = active_request /\ r.status \in Active}

Execute ==
  /\ IF session = NoSession
     THEN RecoverMissingSession
     ELSE IF Executing = {}
     THEN AbandonInvalidSession
     ELSE \E request \in Executing : ExecuteRequest(request)
  /\ Step("execute", "review")
  /\ UNCHANGED <<input_count, discovered_count, model_call_count, summary>>

-----------------------------------------------------------------------------
(* finalize_thesis_validation, and the run as a whole.                     *)

Completed == {t \in DOMAIN thesis_pool : thesis_pool[t].status \in Final}

FinalizeRun ==
  /\ summary' = [completed |-> Cardinality(Completed),
                 findings |-> Cardinality(research_findings),
                 stop |-> IF stop_reason # "none" THEN stop_reason
                          ELSE IF input_count = 0 THEN "no_theses" ELSE "complete"]
  /\ CloseSession
  /\ Step("finalize", "done")
  /\ UNCHANGED <<thesis_pool, research_requests, ledgerVars, evidenceVars,
                 discovered_count, model_call_count, input_count, stop_reason>>

Ended == pc \in {"done", "aborted"} /\ UNCHANGED vars

Next == Select \/ Review \/ ReviewAborts \/ Execute \/ FinalizeRun \/ Ended

Spec == Init /\ [][Next]_vars

-----------------------------------------------------------------------------
(* Properties.                                                             *)

\* Type invariant: every variable the nodes and reducers write stays in the
\* domain its Pydantic model or TypedDict field declares.
TypeOK ==
  /\ pc \in {"select", "review", "execute", "finalize", "done", "aborted"}
  /\ thesis_pool \in Seq(Thesis)
  /\ session \in Session
  /\ active_request \in RequestId \cup {NoRequest}
  /\ research_requests \subseteq Request
  /\ research_findings \subseteq Finding
  /\ evidence_pool \subseteq EvidenceRecords
  /\ evidence_collection \subseteq EvidenceRecords
  /\ request_count \in Nat
  /\ discovered_count \in Nat
  /\ model_call_count \in Nat
  /\ input_count \in Nat
  /\ stop_reason \in StopReason
  /\ summary \in Summary
  /\ steps \in Nat

UnderReview  == {t \in DOMAIN thesis_pool : thesis_pool[t].status = "UNDER_REVIEW"}
OpenRequests == {r.id : r \in {q \in research_requests : q.status \in Active}}

\* The loop works on one thesis and one request at a time, and what it works on
\* is what its session names: a thesis is UNDER_REVIEW exactly while the session
\* is its own, and a request is unfinished exactly while the session waits for
\* it and the research node is next.  select_thesis_for_validation,
\* route_after_validation_review and _finish_turn each rely on the other two.
SessionOwnsOpenWork ==
  /\ UnderReview = IF session = NoSession THEN {} ELSE {session.thesis}
  /\ OpenRequests = IF active_request = NoRequest THEN {} ELSE {active_request}
  /\ active_request # NoRequest <=> session.pending # NoFingerprint
  /\ active_request # NoRequest <=> pc = "execute"
  /\ active_request # NoRequest =>
       active_request = [thesis |-> session.thesis, attempt |-> Len(session.turns) + 1,
                         fingerprint |-> session.pending]
  /\ pc \in {"select", "finalize", "done"} <=> session = NoSession

FindingsOf(t) == {f \in research_findings : f.request.thesis = t}

FinishedRequests == {r \in research_requests : r.status \in Terminal}

AnswersMatchRequests ==
  {[request |-> r.id, status |-> r.status, evidence |-> r.results] : r \in FinishedRequests}
  = {[request |-> f.request, status |-> StatusFor(f.outcome), evidence |-> f.evidence]
       : f \in research_findings}

NothingAskedTwice ==
  \A f, g \in research_findings :
    /\ f.request.thesis = g.request.thesis
    /\ \/ f.request.attempt = g.request.attempt
       \/ f.request.fingerprint = g.request.fingerprint
    => f = g

AttemptsWithoutGap ==
  \A t \in DOMAIN thesis_pool :
    /\ {f.request.attempt : f \in FindingsOf(t)} = 1..Cardinality(FindingsOf(t))
    /\ Cardinality(FindingsOf(t)) <= MaxRounds
    /\ thesis_pool[t].status \in Final =>
         thesis_pool[t].round = Cardinality(FindingsOf(t))

CounterExact ==
  /\ request_count = Cardinality(research_findings)
  /\ request_count <= MaxRequests

\* The audit trail is exact: every finished request has one finding that tells
\* the same story, no thesis was asked the same question twice or more often
\* than its budget, its attempts are numbered without a gap, and the run's
\* counter is the number of findings and within the run's budget.
EveryRequestAnsweredOnce ==
  /\ AnswersMatchRequests
  /\ NothingAskedTwice
  /\ AttemptsWithoutGap
  /\ CounterExact

HasDecisive(thesis, ids) ==
  \E e \in evidence_collection :
    e.id \in ids /\ e.target = thesis.draft.target /\ e.decisive

\* A verdict with a direction rests, for the rest of the run, on a collected
\* record about the thesis' own target that is VERIFIED or REVISED and is cited
\* for that direction: later research cannot take the ground away from under it.
VerdictsGrounded ==
  \A t \in DOMAIN thesis_pool :
    LET thesis == thesis_pool[t]
    IN /\ thesis.status \in {"SUPPORTED", "MIXED"} => HasDecisive(thesis, thesis.supporting)
       /\ thesis.status \in {"REFUTED", "MIXED"} => HasDecisive(thesis, thesis.contradicting)

\* Every citation, of a thesis or of a finding, stays in the collection, and a
\* finding cites records exactly when evidence was found.  So the fail-closed
\* branches of the review for missing evidence, an unanswered request or a
\* session without its thesis are never needed in a run.
CitationsStayCollected ==
  /\ \A t \in DOMAIN thesis_pool : Cited(thesis_pool[t]) \subseteq Ids(evidence_collection)
  /\ \A f \in research_findings : /\ f.evidence \subseteq Ids(evidence_collection)
                                  /\ f.evidence # {} <=> f.outcome = "EVIDENCE_FOUND"
  /\ pc = "review" => /\ session # NoSession /\ ~ InvalidSession
                      /\ session.pending = NoFingerprint /\ MissingEvidence = {}
  /\ stop_reason # "invalid_state"

\* Theses are decided in the order of the pool, and a run takes at most two
\* super-steps per request and two per thesis beside the last selection and the
\* summary: with the default limits 62 of the 300 LangGraph allows.  This is
\* also why the loop ends: no interleaving of verdicts, rejected decisions and
\* failed research adds a step that is not paid for by one of the two budgets.
StepsBounded ==
  \E k \in 0..Len(thesis_pool) :
    /\ \A t \in 1..k : thesis_pool[t].status \in Final
    /\ \A t \in k+1..Len(thesis_pool) :
         thesis_pool[t].status = IF t = session.thesis THEN "UNDER_REVIEW" ELSE "UNVERIFIED"
    /\ session # NoSession => session.thesis = k + 1
    /\ Len(thesis_pool) <= MaxCandidates + MaxDiscovered
    /\ steps <= 2 * request_count + 2 * k
                + CASE pc = "select" -> 0
                    [] pc \in {"review", "finalize"} -> 1
                    [] OTHER -> 2

HistoryKept ==
  /\ research_findings \subseteq research_findings'
  /\ evidence_pool \subseteq evidence_pool'
  /\ FinishedRequests \subseteq research_requests'
  /\ \A t \in Completed : t \in DOMAIN thesis_pool' /\ thesis_pool'[t] = thesis_pool[t]

\* History is never rewritten: no finding, evidence record, finished request or
\* decided thesis is lost or altered by a later node, although the reducers of
\* three of these channels overwrite a record that has the same id.
HistoryImmutable == [][HistoryKept]_vars

\* When the run reports, it reports on everything: each thesis of the pool is
\* decided, the summary counts them all and every request that was made.
SummaryAccountsForAll ==
  pc = "done" => /\ Completed = DOMAIN thesis_pool
                 /\ summary.completed = Len(thesis_pool)
                 /\ summary.findings = request_count
                 /\ summary.stop = "no_theses" <=> thesis_pool = <<>>

\* docs/thesis-validation-agent-v1.md section 6: a context beyond the limit
\* closes the thesis as INCONCLUSIVE.  The limit on the number of records is
\* enforced by the constructor of ThesisValidationInput, which raises instead.
OversizedContextFailsClosed == pc # "aborted"
=============================================================================
