----------------------- MODULE ThesisValidationProofs -----------------------
(***************************************************************************)
(* Proofs about ThesisValidation, for every value of its constants.        *)
(*                                                                         *)
(* A review that the invariant allows either closes the session with a     *)
(* decided thesis (Closes) or asks one question (Asks); an execution       *)
(* answers it (Answers).  The inductive steps are proved over these three  *)
(* shapes, and lemmas show that every branch of the nodes has one of them. *)
(***************************************************************************)
EXTENDS ThesisValidation, TLAPS, FiniteSetTheorems, SequenceTheorems

-----------------------------------------------------------------------------
(* Sequences: the pool is updated at one place and extended at its end.    *)

\* What a review adds to the pool: nothing or one thesis.
AtMostOne(S) == {<<>>} \cup {<<y>> : y \in S}

LEMMA AtMostOneIsSeq ==
  ASSUME NEW S, NEW found \in AtMostOne(S)
  PROVE  /\ found \in Seq(S)
         /\ Len(found) \in {0, 1}
         /\ \A i \in 1..Len(found) : i = 1 /\ found = <<found[i]>>
<1>1. CASE found = <<>>
  BY <1>1
<1>2. ASSUME NEW y \in S, found = <<y>>
      PROVE  /\ found \in Seq(S)
             /\ Len(found) = 1
             /\ found[1] = y
  BY <1>2
<1> QED
  BY <1>1, <1>2 DEF AtMostOne

\* What a concatenation holds and where.
LEMMA Appended ==
  ASSUME NEW S, NEW r \in Seq(S), NEW f \in Seq(S)
  PROVE  /\ r \o f \in Seq(S) /\ Len(r \o f) = Len(r) + Len(f)
         /\ \A i \in 1..Len(r)+Len(f) :
              (r \o f)[i] = IF i <= Len(r) THEN r[i] ELSE f[i - Len(r)]
BY ConcatProperties

\* q is p with x at place t and found at the end.
UpdatedAndExtended(q, p, t, x, found) ==
  /\ Len(p) \in Nat /\ DOMAIN p = 1..Len(p) /\ t \in 1..Len(p)
  /\ Len(found) \in {0, 1}
  /\ Len(q) = Len(p) + Len(found) /\ DOMAIN q = 1..Len(q)
  /\ q[t] = x
  /\ \A i \in 1..Len(p) : i # t => q[i] = p[i]
  /\ \A i \in 1..Len(q) : i > Len(p) => found = <<q[i]>>

LEMMA UpdateAndExtend ==
  ASSUME NEW S, NEW p \in Seq(S), NEW t \in DOMAIN p, NEW x \in S,
         NEW found \in AtMostOne(S),
         NEW q, q = [p EXCEPT ![t] = x] \o found
  PROVE  q \in Seq(S) /\ UpdatedAndExtended(q, p, t, x, found)
<1> DEFINE r == [p EXCEPT ![t] = x]
<1>1. Len(p) \in Nat /\ DOMAIN p = 1..Len(p)
  OBVIOUS
<1>2. r \in Seq(S) /\ Len(r) = Len(p) /\ \A i \in 1..Len(p) : r[i] = IF i = t THEN x ELSE p[i]
  BY <1>1, ExceptSeq
<1>3. /\ found \in Seq(S)
      /\ Len(found) \in {0, 1}
      /\ \A i \in 1..Len(found) : i = 1 /\ found = <<found[i]>>
  BY AtMostOneIsSeq
<1>4. q = r \o found
  OBVIOUS
<1> HIDE DEF r
<1>5. /\ q \in Seq(S) /\ Len(q) = Len(r) + Len(found)
      /\ \A i \in 1..Len(r)+Len(found) :
           q[i] = IF i <= Len(r) THEN r[i] ELSE found[i - Len(r)]
  <2>1. r \in Seq(S) /\ found \in Seq(S)
    BY <1>2, <1>3
  <2>2. /\ r \o found \in Seq(S) /\ Len(r \o found) = Len(r) + Len(found)
        /\ \A i \in 1..Len(r)+Len(found) :
             (r \o found)[i] = IF i <= Len(r) THEN r[i] ELSE found[i - Len(r)]
    BY <2>1, Appended, Zenon
  <2> QED
    BY <1>4, <2>2, Zenon
<1>6. DOMAIN q = 1..Len(q)
  BY <1>5
<1>7. ASSUME NEW i \in 1..Len(q), i > Len(p) PROVE found = <<q[i]>>
  <2>1. /\ Len(found) = 1 /\ i = Len(p) + 1
        /\ Len(r) = Len(p) /\ Len(p) \in Nat
    <3>1. Len(r) = Len(p) /\ Len(p) \in Nat
      BY <1>1, <1>2
    <3>2. Len(found) = 0 \/ Len(found) = 1
      BY <1>3
    <3>3. Len(q) = Len(p) + Len(found)
      BY <1>5, <3>1
    <3>4. Len(found) # 0
      BY <1>7, <3>1, <3>3
    <3> QED
      BY <1>7, <3>1, <3>2, <3>3, <3>4
  <2>2. /\ i \in 1..Len(r)+Len(found) /\ ~ (i <= Len(r)) /\ i - Len(r) = 1
    BY <2>1
  <2>3. q[i] = found[1]
    BY <1>5, <2>2, Zenon
  <2> QED
    BY <1>3, <2>1, <2>3
<1>8. ASSUME NEW i \in 1..Len(p) PROVE q[i] = IF i = t THEN x ELSE p[i]
  <2>1. i \in 1..Len(r)+Len(found) /\ i <= Len(r)
    BY <1>1, <1>2, <1>3
  <2>2. q[i] = r[i]
    BY <1>5, <2>1
  <2> QED
    BY <1>2, <2>2
<1>9. t \in 1..Len(p)
  BY <1>1
<1> QED
  BY <1>1, <1>2, <1>3, <1>5, <1>6, <1>7, <1>8, <1>9 DEF UpdatedAndExtended

-----------------------------------------------------------------------------
(* The inductive invariant.                                                *)

\* The context of a session is made of recorded findings.
TurnsRecorded == \A i \in DOMAIN session.turns : session.turns[i] \in research_findings

\* The collection is always the Collector's view of the audit pool.
CollectionOfPool ==
  /\ UniqueIds(evidence_pool)
  /\ evidence_collection = Collect(evidence_pool)

\* A request that is being executed has its place in the budget.
WithinBudgets ==
  /\ request_count <= MaxRequests
  /\ active_request # NoRequest => request_count < MaxRequests
  /\ discovered_count <= MaxDiscovered
  /\ Len(thesis_pool) <= MaxCandidates + discovered_count

IInv ==
  /\ TypeOK
  /\ IsFiniteSet(research_findings)
  /\ SessionOwnsOpenWork
  /\ TurnsRecorded
  /\ CollectionOfPool
  /\ WithinBudgets
  /\ CitationsStayCollected
  /\ VerdictsGrounded
  /\ StepsBounded

-----------------------------------------------------------------------------
(* The shapes of the two nodes' steps.                                     *)

\* A thesis as a review may add it to the pool.
Fresh == {y \in Thesis : y.status = "UNVERIFIED" /\ Cited(y) \subseteq Ids(evidence_collection)}

\* The verdict of thesis x, if it has a direction, rests on the collection.
Rests(x) ==
  /\ x.status \in {"SUPPORTED", "MIXED"} => HasDecisive(x, x.supporting)
  /\ x.status \in {"REFUTED", "MIXED"} => HasDecisive(x, x.contradicting)

\* What every review does: it replaces the reviewed thesis by x, adds found.
Reviews(x, found) ==
  /\ pc = "review" /\ session # NoSession
  /\ x \in Thesis /\ Cited(x) \subseteq Ids(evidence_collection)
  /\ found \in AtMostOne(Fresh) /\ Len(found) <= MaxDiscovered - discovered_count
  /\ thesis_pool' = [thesis_pool EXCEPT ![session.thesis] = x] \o found
  /\ discovered_count' = discovered_count + Len(found)
  /\ model_call_count' \in Nat
  /\ stop_reason' \in {stop_reason, "model_error"}
  /\ steps' = steps + 1
  /\ UNCHANGED <<ledgerVars, evidenceVars, input_count, summary>>

Closes(x, found) ==
  /\ Reviews(x, found)
  /\ x.status \in Final /\ Rests(x) /\ x.round = Len(session.turns)
  /\ session' = NoSession /\ active_request' = NoRequest /\ pc' = "select"
  /\ UNCHANGED research_requests

Asks(x, found, request) ==
  /\ Reviews(x, found)
  /\ x.status = "UNDER_REVIEW"
  /\ request_count < MaxRequests /\ Len(session.turns) < MaxRounds
  /\ request.id.fingerprint \notin session.used
  /\ request \in Request /\ request.status = "PENDING" /\ request.id # NoRequest
  /\ request.id = [thesis |-> session.thesis, attempt |-> Len(session.turns) + 1,
                   fingerprint |-> request.id.fingerprint]
  /\ session' = [session EXCEPT !.used = @ \cup {request.id.fingerprint},
                                !.pending = request.id.fingerprint]
  /\ active_request' = request.id /\ pc' = "execute"
  /\ research_requests' = {r \in research_requests : r.id # request.id} \cup {request}

\* What every execution does: it records the finding of the active request.
Answers(finding, request, records) ==
  /\ pc = "execute" /\ session # NoSession /\ active_request # NoRequest
  /\ finding \in Finding /\ finding.request = active_request
  /\ finding.evidence = Ids(Collect(records))
  /\ finding.evidence # {} <=> finding.outcome = "EVIDENCE_FOUND"
  /\ records \in SUBSET EvidenceRecords /\ UniqueIds(evidence_pool \cup records)
  /\ request \in Request /\ request.id = active_request /\ request.status \in Terminal
  /\ request.status = StatusFor(finding.outcome) /\ request.results = finding.evidence
  /\ research_requests' = {r \in research_requests : r.id # request.id} \cup {request}
  /\ research_findings' = research_findings \cup {finding}
  /\ session' = [session EXCEPT !.turns = Append(@, finding), !.pending = NoFingerprint]
  /\ active_request' = NoRequest /\ pc' = "review"
  /\ request_count' = request_count + 1
  /\ evidence_pool' = evidence_pool \cup records
  /\ evidence_collection' = Collect(evidence_pool \cup records)
  /\ steps' = steps + 1
  /\ UNCHANGED <<thesis_pool, stop_reason, input_count, discovered_count,
                 model_call_count, summary>>

LEMMA MergeIsUnion ==
  ASSUME NEW pool, NEW records, UniqueIds(pool \cup records)
  PROVE  MergeEvidence(pool, records) = pool \cup records
BY DEF MergeEvidence, UniqueIds, Ids

\* The facts of the invariant a review starts from.
LEMMA ReviewStart ==
  ASSUME IInv, pc = "review"
  PROVE  /\ session # NoSession /\ session \in Session /\ ~ InvalidSession
         /\ session.pending = NoFingerprint /\ MissingEvidence = {}
         /\ active_request = NoRequest
         /\ session.thesis \in DOMAIN thesis_pool /\ Current \in Thesis
         /\ Current.status = "UNDER_REVIEW"
         /\ Cited(Current) \subseteq Ids(evidence_collection)
BY DEF IInv, TypeOK, CitationsStayCollected, SessionOwnsOpenWork, InvalidSession, Current

\* A thesis stays one when a turn is counted.
LEMMA CountedTurn ==
  ASSUME NEW c \in Thesis, NEW n \in Nat, NEW x, x = [c EXCEPT !.round = n]
  PROVE  x \in Thesis /\ x.status = c.status /\ Cited(x) = Cited(c)
<1>1. x \in Thesis
  BY DEF Thesis
<1>2. /\ x.status = c.status /\ x.supporting = c.supporting
      /\ x.contradicting = c.contradicting
  BY DEF Thesis
<1> QED
  BY <1>1, <1>2 DEF Cited

LEMMA ContextInCollection == /\ Context \subseteq evidence_collection
                             /\ Ids(Context) \subseteq Ids(evidence_collection)
BY DEF Context, Ids

LEMMA DiscoveriesAreFresh ==
  ASSUME IInv, pc = "review", NEW found \in Discoveries
  PROVE  /\ found \in AtMostOne(Fresh)
         /\ Len(found) <= MaxDiscovered - discovered_count
<1>0. session.thesis \in Nat /\ discovered_count \in Nat /\ discovered_count <= MaxDiscovered
  BY DEF IInv, TypeOK, Session, NoSession, WithinBudgets
<1>1. CASE found = <<>>
  BY <1>0, <1>1, LimitAssumption DEF AtMostOne
<1>2. ASSUME NEW d \in Drafts, Acceptable(d), found = <<NewThesis(session.thesis, d)>>
      PROVE  /\ found \in AtMostOne(Fresh)
             /\ Len(found) <= MaxDiscovered - discovered_count
  <2>1. Cited(d) \subseteq Ids(evidence_collection)
    BY <1>2, ContextInCollection DEF Acceptable, Grounded
  <2>2. d.supporting \in SUBSET EvidenceId /\ d.contradicting \in SUBSET EvidenceId
    BY <1>2, InputAssumption DEF Draft
  <2>3. NewThesis(session.thesis, d) \in Fresh
    BY <1>0, <2>1, <2>2 DEF Fresh, Thesis, NewThesis, Cited
  <2>4. discovered_count < MaxDiscovered
    BY <1>0, <1>2, LimitAssumption DEF Acceptable, DiscoveryLimit, Least
  <2>5. Len(found) = 1
    BY <1>2
  <2> QED
    BY <1>0, <1>2, <2>3, <2>4, <2>5, LimitAssumption DEF AtMostOne
<1> QED
  BY <1>1, <1>2 DEF Discoveries

\* A review closes the session or asks one question.
LEMMA ReviewShape ==
  ASSUME IInv, Review
  PROVE  \/ \E x, found : Closes(x, found)
         \/ \E x, found, request : Asks(x, found, request)
<1>1. pc = "review" /\ steps' = steps + 1 /\ UNCHANGED <<input_count, summary>>
  BY DEF Review, Step
<1>2. pc' = IF active_request' # NoRequest THEN "execute" ELSE "select"
  BY DEF Review, Step
<1>3. /\ UNCHANGED <<ledgerVars, evidenceVars>>
      /\ ReviewBlocked(TRUE) \/ ModelFails \/ ModelDecides
  BY <1>1, ReviewStart DEF Review
<1> DEFINE t == session.thesis
           closed == Inconclusive(Current, session.turns)
<1>4. /\ session.turns \in Seq(Finding) /\ Len(session.turns) \in Nat
      /\ Current \in Thesis
      /\ discovered_count \in Nat /\ model_call_count \in Nat /\ request_count \in Nat
      /\ discovered_count <= MaxDiscovered /\ MaxDiscovered \in Nat
      /\ t \in Nat
  BY <1>1, ReviewStart, LimitAssumption DEF Session, IInv, TypeOK, WithinBudgets
<1>5. /\ closed \in Thesis /\ closed.status = "INCONCLUSIVE"
      /\ closed.round = Len(session.turns)
      /\ Cited(closed) \subseteq Ids(evidence_collection)
  BY <1>1, <1>4, ReviewStart DEF Thesis, Inconclusive, Cited, Final
<1>6. <<>> \in AtMostOne(Fresh) /\ Len(<<>>) = 0
  BY DEF AtMostOne
<1>7. ASSUME NEW found \in AtMostOne(Fresh), Len(found) <= MaxDiscovered - discovered_count,
             ForceInconclusive(found), discovered_count' = discovered_count + Len(found),
             model_call_count' \in Nat, stop_reason' \in {stop_reason, "model_error"}
      PROVE  Closes(closed, found)
  <2>1. thesis_pool' = [thesis_pool EXCEPT ![t] = closed] \o found
    BY <1>7 DEF ForceInconclusive, Current
  <2>2. Reviews(closed, found)
    BY <1>1, <1>3, <1>5, <1>7, <2>1, ReviewStart DEF Reviews
  <2>3. closed.status \in Final /\ Rests(closed)
    BY <1>5 DEF Final, Rests
  <2>4. closed.round = Len(session.turns)
    BY <1>5
  <2> QED
    BY <1>2, <1>7, <2>2, <2>3, <2>4 DEF Closes, ForceInconclusive, CloseSession
<1>8. CASE ReviewBlocked(TRUE)
  <2>1. discovered_count' = discovered_count + Len(<<>>)
    BY <1>4, <1>6, <1>8 DEF ReviewBlocked
  <2> QED
    BY <1>4, <1>6, <1>7, <1>8, <2>1 DEF ReviewBlocked
<1>9. CASE ModelFails
  <2>1. discovered_count' = discovered_count + Len(<<>>)
    BY <1>4, <1>6, <1>9 DEF ModelFails
  <2> QED
    BY <1>4, <1>6, <1>7, <1>9, <2>1 DEF ModelFails
<1>10. ASSUME NEW found \in Discoveries, NEW f \in Finalizations, DecideVerdict(f, found),
              model_call_count' = model_call_count + 1,
              discovered_count' = discovered_count + Len(found), UNCHANGED stop_reason
       PROVE  \E x : Closes(x, found)
  <2>1. found \in AtMostOne(Fresh) /\ Len(found) <= MaxDiscovered - discovered_count
    BY <1>1, DiscoveriesAreFresh
  <2>2. CASE ~ Verdict(f)
    BY <1>4, <1>7, <1>10, <2>1, <2>2 DEF DecideVerdict
  <2>3. CASE Verdict(f)
    <3> DEFINE x == [Current EXCEPT !.status = f.status, !.round = Len(session.turns),
                                    !.supporting = f.supporting,
                                    !.contradicting = f.contradicting]
    <3>1. f \in Finalization
      BY InputAssumption
    <3>2. x \in Thesis /\ x.status = f.status /\ x.draft = Current.draft
          /\ x.round = Len(session.turns)
          /\ x.supporting = f.supporting /\ x.contradicting = f.contradicting
      BY <1>4, <3>1 DEF Thesis, Finalization
    <3>3. Cited(x) \subseteq Ids(evidence_collection)
      BY <2>3, <3>2, ContextInCollection DEF Verdict, Cited
    <3>4. x.status \in Final
      BY <3>1, <3>2 DEF Finalization
    <3>5. Rests(x)
      BY <2>3, <3>2, ContextInCollection DEF Verdict, Rests, DirectAndDecisive, HasDecisive
    <3>6. /\ thesis_pool' = [thesis_pool EXCEPT ![t] = x] \o found
          /\ CloseSession /\ UNCHANGED research_requests
      BY <1>10, <2>3 DEF DecideVerdict, Current
    <3> HIDE DEF x
    <3>7. Reviews(x, found)
      BY <1>1, <1>3, <1>4, <1>10, <2>1, <3>2, <3>3, <3>6, ReviewStart DEF Reviews
    <3> QED
      BY <1>2, <3>2, <3>4, <3>5, <3>6, <3>7 DEF Closes, CloseSession
  <2> QED
    BY <2>2, <2>3
<1>11. ASSUME NEW found \in Discoveries, NEW d \in RequestDrafts, DecideRequest(d, found),
              model_call_count' = model_call_count + 1,
              discovered_count' = discovered_count + Len(found), UNCHANGED stop_reason
       PROVE  \/ \E x : Closes(x, found)
              \/ \E x, request : Asks(x, found, request)
  <2>1. found \in AtMostOne(Fresh) /\ Len(found) <= MaxDiscovered - discovered_count
    BY <1>1, DiscoveriesAreFresh
  <2>2. CASE RemainingRounds <= 0 \/ d.beyondAsOf \/ d.fingerprint \in session.used
    <3>1. ForceInconclusive(found)
      BY <1>11, <2>2 DEF DecideRequest
    <3>2. model_call_count' \in Nat /\ stop_reason' \in {stop_reason, "model_error"}
      BY <1>4, <1>11
    <3> QED
      BY <1>7, <1>11, <2>1, <3>1, <3>2
  <2>3. CASE ~ (RemainingRounds <= 0 \/ d.beyondAsOf \/ d.fingerprint \in session.used)
    <3> DEFINE attempt == Len(session.turns) + 1
               id == [thesis |-> t, attempt |-> attempt, fingerprint |-> d.fingerprint]
               request == [id |-> id, domain |-> d.domain, target |-> d.target,
                           status |-> "PENDING", results |-> {}]
               x == [Current EXCEPT !.round = attempt]
    <3>1. d \in RequestDraft
      BY InputAssumption
    <3>2. id \in RequestId /\ id # NoRequest
      BY <1>4, <3>1, InputAssumption DEF RequestDraft, RequestId, NoRequest
    <3>3. request \in Request
      BY <3>1, <3>2 DEF Request, RequestDraft
    <3>4. x \in Thesis /\ x.status = "UNDER_REVIEW" /\ Cited(x) = Cited(Current)
      <4>1. Current \in Thesis /\ Current.status = "UNDER_REVIEW"
        BY <1>1, ReviewStart
      <4>2. attempt \in Nat
        BY <1>4
      <4> QED
        BY <4>1, <4>2, CountedTurn
    <3>5. request_count < MaxRequests /\ Len(session.turns) < MaxRounds
      BY <1>4, <2>3, LimitAssumption DEF RemainingRounds, Least
    <3>6. /\ research_requests' = {r \in research_requests : r.id # id} \cup {request}
          /\ session' = [session EXCEPT !.used = @ \cup {d.fingerprint},
                                        !.pending = d.fingerprint]
          /\ active_request' = id
          /\ thesis_pool' = [thesis_pool EXCEPT ![t] = x] \o found
      BY <1>11, <2>3 DEF DecideRequest, Current
    <3>7. request.id = id /\ id.fingerprint = d.fingerprint /\ request.status = "PENDING"
      OBVIOUS
    <3> HIDE DEF x, request
    <3>8. Reviews(x, found)
      BY <1>1, <1>3, <1>4, <1>11, <2>1, <3>4, <3>6, ReviewStart DEF Reviews
    <3>9. Asks(x, found, request)
      BY <1>2, <2>3, <3>2, <3>3, <3>4, <3>5, <3>6, <3>7, <3>8 DEF Asks
    <3> QED
      BY <3>9
  <2> QED
    BY <2>2, <2>3
<1>12. CASE ModelDecides
  BY <1>10, <1>11, <1>12 DEF ModelDecides
<1> QED
  BY <1>3, <1>8, <1>9, <1>12

\* The facts of the invariant an execution starts from.
LEMMA ExecuteStart ==
  ASSUME IInv, pc = "execute"
  PROVE  /\ session # NoSession /\ session \in Session
         /\ session.pending # NoFingerprint
         /\ active_request # NoRequest /\ Executing # {}
<1>1. session # NoSession /\ session \in Session
      /\ session.pending # NoFingerprint /\ active_request # NoRequest
  BY DEF IInv, TypeOK, SessionOwnsOpenWork
<1>2. active_request \in OpenRequests
  BY <1>1 DEF IInv, SessionOwnsOpenWork
<1> QED
  BY <1>1, <1>2 DEF OpenRequests, Executing

\* An execution answers the active request.
LEMMA ExecuteShape ==
  ASSUME IInv, Execute
  PROVE  \E finding, request, records : Answers(finding, request, records)
<1>1. /\ pc = "execute" /\ steps' = steps + 1
      /\ UNCHANGED <<input_count, discovered_count, model_call_count, summary>>
  BY DEF Execute, Step
<1>2. PICK request \in Executing : ExecuteRequest(request)
  BY <1>1, ExecuteStart DEF Execute
<1>3. /\ request \in Request /\ request.id = active_request
      /\ request.status \in Active /\ request.id \in RequestId
      /\ evidence_pool \subseteq EvidenceRecords
      /\ UniqueIds(evidence_pool) /\ evidence_collection = Collect(evidence_pool)
  BY <1>2 DEF Executing, IInv, TypeOK, CollectionOfPool, Request
<1>4. ASSUME NEW outcome \in Outcome, NEW records \in SUBSET EvidenceRecords,
             UniqueIds(evidence_pool \cup records),
             Collect(records) # {} <=> outcome = "EVIDENCE_FOUND",
             FinishTurn(request, outcome, Ids(Collect(records)), records)
      PROVE  \E finding, terminal : Answers(finding, terminal, records)
  <2> DEFINE evidence == Ids(Collect(records))
             finding == [request |-> request.id, outcome |-> outcome, evidence |-> evidence]
             terminal == [request EXCEPT !.status = StatusFor(outcome), !.results = evidence]
  <2>1. evidence \in SUBSET EvidenceId
    BY InputAssumption DEF Ids, Collect, EvidenceRecord
  <2>2. evidence # {} <=> outcome = "EVIDENCE_FOUND"
    BY <1>4 DEF Ids
  <2>3. StatusFor(outcome) \in Terminal
    BY DEF StatusFor, Terminal
  <2> HIDE DEF evidence
  <2>4. /\ finding \in Finding /\ finding.evidence = evidence
        /\ finding.outcome = outcome /\ finding.request = active_request
    BY <1>3, <2>1 DEF Finding
  <2>5. terminal \in Request /\ terminal.id = active_request /\ terminal.status \in Terminal
        /\ terminal.id = request.id
        /\ terminal.status = StatusFor(outcome) /\ terminal.results = evidence
    BY <1>3, <2>1, <2>3 DEF Request
  <2>6. /\ research_requests' = {r \in research_requests : r.id # request.id} \cup {terminal}
        /\ research_findings' = research_findings \cup {finding}
        /\ session' = [session EXCEPT !.turns = Append(@, finding), !.pending = NoFingerprint]
        /\ active_request' = NoRequest
        /\ request_count' = request_count + 1
        /\ IF records = {}
           THEN UNCHANGED evidenceVars
           ELSE /\ evidence_pool' = MergeEvidence(evidence_pool, records)
                /\ evidence_collection' = Collect(MergeEvidence(evidence_pool, records))
        /\ UNCHANGED <<thesis_pool, stop_reason>>
    BY <1>1, <1>4, ExecuteStart DEF FinishTurn, evidence
  <2>7. /\ evidence_pool' = evidence_pool \cup records
        /\ evidence_collection' = Collect(evidence_pool \cup records)
    BY <1>3, <1>4, <2>6, MergeIsUnion DEF evidenceVars
  <2>8. pc' = "review"
    BY DEF Execute, Step
  <2> HIDE DEF finding, terminal
  <2>9. Answers(finding, terminal, records)
    BY <1>1, <1>4, <2>2, <2>4, <2>5, <2>6, <2>7, <2>8, ExecuteStart DEF Answers, evidence
  <2> QED
    BY <2>9
<1>5. ASSUME NEW outcome \in Outcome \ {"EVIDENCE_FOUND"}, CompleteWithout(request, outcome)
      PROVE  \E finding, terminal : Answers(finding, terminal, {})
  <2>1. Collect({}) = {} /\ Ids(Collect({})) = {} /\ UniqueIds(evidence_pool \cup {})
    BY <1>3 DEF Collect, Ids
  <2>2. FinishTurn(request, outcome, Ids(Collect({})), {})
    BY <1>5, <2>1 DEF CompleteWithout
  <2> QED
    BY <1>4, <2>1, <2>2
<1>6. ASSUME NEW reply \in Reply, CompleteFromReply(request, reply)
      PROVE  \E finding, terminal, records : Answers(finding, terminal, records)
  <2>1. CASE ~ Credible(request, reply)
    BY <1>5, <1>6, <2>1 DEF CompleteFromReply, Outcome
  <2>2. CASE Credible(request, reply) /\ reply.status # "COMPLETED"
    <3>1. OutcomeOfTerminal(reply) \in Outcome \ {"EVIDENCE_FOUND"}
      BY <2>2 DEF OutcomeOfTerminal, FailureOutcome, Outcome
    <3>2. CompleteWithout(request, OutcomeOfTerminal(reply))
      BY <1>6, <2>2 DEF CompleteFromReply
    <3> QED
      BY <1>5, <3>1, <3>2
  <2>3. CASE Credible(request, reply) /\ reply.status = "COMPLETED"
    <3> DEFINE outcome == IF Collect(reply.records) = {} THEN "REQUEST_FAILED"
                          ELSE "EVIDENCE_FOUND"
    <3>1. reply.records \in SUBSET EvidenceRecords
      BY <2>3 DEF Reply
    <3>2. UniqueIds(evidence_pool \cup reply.records)
      BY <2>3 DEF Credible
    <3>3. outcome \in Outcome /\ (Collect(reply.records) # {} <=> outcome = "EVIDENCE_FOUND")
      BY DEF Outcome
    <3>4. FinishTurn(request, outcome, Ids(Collect(reply.records)), reply.records)
      BY <1>6, <2>3 DEF CompleteFromReply
    <3> QED
      BY <1>4, <3>1, <3>2, <3>3, <3>4
  <2> QED
    BY <2>1, <2>2, <2>3
<1>7. CASE request.domain \notin Executable
  BY <1>2, <1>5, <1>7 DEF ExecuteRequest, Outcome
<1>8. CASE request.domain \in Executable
  <2>1. ASSUME NEW network \in BOOLEAN, CompleteWithout(request, FailureOutcome(network))
        PROVE  \E finding, terminal : Answers(finding, terminal, {})
    BY <1>5, <2>1 DEF FailureOutcome, Outcome
  <2> QED
    BY <1>2, <1>6, <1>8, <2>1 DEF ExecuteRequest
<1> QED
  BY <1>7, <1>8

-----------------------------------------------------------------------------
(* The invariant holds initially.                                          *)

LEMMA InitInv == Init => IInv
<1> SUFFICES ASSUME Init PROVE IInv
  OBVIOUS
<1>1. PICK n \in 0..MaxCandidates :
        \E ds \in [1..n -> {d \in Drafts : Grounded(d, evidence_collection)}] :
          thesis_pool = [i \in 1..n |-> NewThesis(0, ds[i])]
  BY DEF Init
<1>2. PICK ds \in [1..n -> {d \in Drafts : Grounded(d, evidence_collection)}] :
        thesis_pool = [i \in 1..n |-> NewThesis(0, ds[i])]
  BY <1>1
<1>3. ASSUME NEW i \in 1..n
      PROVE  /\ NewThesis(0, ds[i]) \in Thesis
             /\ NewThesis(0, ds[i]).status = "UNVERIFIED"
             /\ Cited(NewThesis(0, ds[i])) \subseteq Ids(evidence_collection)
  <2>1. ds[i] \in Drafts /\ Grounded(ds[i], evidence_collection) /\ ds[i] \in Draft
    BY InputAssumption
  <2> QED
    BY <2>1 DEF Draft, Thesis, NewThesis, Grounded, Cited
<1>4. n \in Nat /\ MaxCandidates \in Nat
  BY LimitAssumption
<1>5. /\ thesis_pool \in Seq(Thesis) /\ Len(thesis_pool) = n /\ DOMAIN thesis_pool = 1..n
      /\ \A i \in 1..n : thesis_pool[i].status = "UNVERIFIED"
                         /\ Cited(thesis_pool[i]) \subseteq Ids(evidence_collection)
  BY <1>2, <1>3, <1>4
<1>6. session \in Session
  BY DEF Init, Session, NoSession
<1>7. TypeOK
  BY <1>5, <1>6 DEF Init, TypeOK, StopReason, Summary, NoSummary, Collect
<1>8. IsFiniteSet(research_findings)
  BY FS_EmptySet DEF Init
<1>9. UnderReview = {} /\ OpenRequests = {}
  BY <1>5 DEF UnderReview, OpenRequests, Init
<1>10. SessionOwnsOpenWork
  BY <1>9 DEF SessionOwnsOpenWork, Init, NoSession
<1>11. TurnsRecorded
  BY DEF TurnsRecorded, Init, NoSession
<1>12. CollectionOfPool
  BY DEF CollectionOfPool, Init
<1>13. WithinBudgets
  BY <1>4, <1>5, LimitAssumption DEF WithinBudgets, Init
<1>14. CitationsStayCollected
  BY <1>5 DEF CitationsStayCollected, Init
<1>15. VerdictsGrounded
  BY <1>5 DEF VerdictsGrounded
<1>16. StepsBounded
  <2>1. session.thesis = 0
    BY DEF Init, NoSession
  <2>2. Len(thesis_pool) <= MaxCandidates + MaxDiscovered
    BY <1>4, <1>5, LimitAssumption
  <2>3. 0 \in 0..Len(thesis_pool) /\ \A t \in 1..0 : FALSE
    BY <1>4, <1>5
  <2>4. \A t \in 0+1..Len(thesis_pool) :
          thesis_pool[t].status = IF t = session.thesis THEN "UNDER_REVIEW" ELSE "UNVERIFIED"
    BY <1>4, <1>5, <2>1
  <2> QED
    BY <2>2, <2>3, <2>4 DEF StepsBounded, Init
<1> QED
  BY <1>7, <1>8, <1>10, <1>11, <1>12, <1>13, <1>14, <1>15, <1>16 DEF IInv

-----------------------------------------------------------------------------
(* The invariant is preserved by each shape.                               *)

\* A review whose session is in order finds its context complete.
RecordedAndCited ==
  /\ SessionOwnsOpenWork /\ TurnsRecorded /\ pc = "review"
  /\ \A t \in DOMAIN thesis_pool : Cited(thesis_pool[t]) \subseteq Ids(evidence_collection)
  /\ \A f \in research_findings : f.evidence \subseteq Ids(evidence_collection)

ReadyForModel ==
  /\ session # NoSession /\ ~ InvalidSession
  /\ session.pending = NoFingerprint /\ MissingEvidence = {}

LEMMA ReviewReady == RecordedAndCited => ReadyForModel
<1> SUFFICES ASSUME RecordedAndCited PROVE ReadyForModel
  OBVIOUS
<1> USE DEF RecordedAndCited
<1>1. session # NoSession /\ session.pending = NoFingerprint
  BY DEF SessionOwnsOpenWork
<1>2. session.thesis \in DOMAIN thesis_pool /\ Current.status = "UNDER_REVIEW"
  BY <1>1 DEF SessionOwnsOpenWork, UnderReview, Current
<1>3. \A i \in DOMAIN session.turns : session.turns[i].evidence \subseteq Ids(evidence_collection)
  BY DEF TurnsRecorded
<1>4. Cited(Current) \subseteq Ids(evidence_collection)
  BY <1>2 DEF Current
<1>5. Ids({e \in evidence_collection : e.target = Current.draft.target})
        \subseteq Ids(evidence_collection)
  BY DEF Ids
<1>6. MissingEvidence = {}
  BY <1>3, <1>4, <1>5 DEF MissingEvidence, RequiredEvidence
<1> QED
  BY <1>1, <1>2, <1>6 DEF InvalidSession, ReadyForModel

\* The pool after a review.
LEMMA ReviewedPool ==
  ASSUME IInv, NEW x, NEW found, Reviews(x, found)
  PROVE  /\ thesis_pool' \in Seq(Thesis)
         /\ Len(thesis_pool) \in Nat /\ DOMAIN thesis_pool = 1..Len(thesis_pool)
         /\ Len(found) \in {0, 1}
         /\ Len(thesis_pool') = Len(thesis_pool) + Len(found)
         /\ DOMAIN thesis_pool' = 1..Len(thesis_pool')
         /\ session.thesis \in 1..Len(thesis_pool)
         /\ thesis_pool'[session.thesis] = x
         /\ \A i \in 1..Len(thesis_pool) : i # session.thesis => thesis_pool'[i] = thesis_pool[i]
         /\ \A i \in 1..Len(thesis_pool') : i > Len(thesis_pool) => thesis_pool'[i] \in Fresh
<1>1. thesis_pool \in Seq(Thesis) /\ session.thesis \in DOMAIN thesis_pool
  BY ReviewStart DEF Reviews, IInv, TypeOK
<1>2. found \in AtMostOne(Fresh) /\ found \in AtMostOne(Thesis) /\ x \in Thesis
  BY DEF Reviews, AtMostOne, Fresh
<1>3. thesis_pool' = [thesis_pool EXCEPT ![session.thesis] = x] \o found
  BY DEF Reviews
<1>4. \A y : found = <<y>> => y \in Fresh
  BY <1>2 DEF AtMostOne
<1>5. /\ thesis_pool' \in Seq(Thesis)
      /\ UpdatedAndExtended(thesis_pool', thesis_pool, session.thesis, x, found)
  BY <1>1, <1>2, <1>3, UpdateAndExtend
<1> QED
  BY <1>4, <1>5 DEF UpdatedAndExtended

\* What both outcomes of a review leave of the invariant: the parts that do not
\* depend on whether the session ends.
LEMMA ReviewsPreserve ==
  ASSUME IInv, NEW x, NEW found, Reviews(x, found)
  PROVE  /\ thesis_pool' \in Seq(Thesis)
         /\ research_findings' \subseteq Finding /\ IsFiniteSet(research_findings')
         /\ evidence_pool' \subseteq EvidenceRecords /\ evidence_collection' \subseteq EvidenceRecords
         /\ request_count' = request_count /\ discovered_count' \in Nat
         /\ model_call_count' \in Nat /\ input_count' \in Nat
         /\ stop_reason' \in StopReason /\ summary' \in Summary /\ steps' \in Nat
         /\ CollectionOfPool'
         /\ discovered_count' <= MaxDiscovered
         /\ Len(thesis_pool') <= MaxCandidates + discovered_count'
         /\ \A t \in DOMAIN thesis_pool' : Cited(thesis_pool'[t]) \subseteq Ids(evidence_collection')
         /\ \A f \in research_findings' : /\ f.evidence \subseteq Ids(evidence_collection')
                                          /\ f.evidence # {} <=> f.outcome = "EVIDENCE_FOUND"
         /\ stop_reason' # "invalid_state"
         /\ Rests(x) => VerdictsGrounded'
<1>1. /\ UNCHANGED <<ledgerVars, evidenceVars, input_count, summary>>
      /\ discovered_count' = discovered_count + Len(found)
      /\ Len(found) <= MaxDiscovered - discovered_count
      /\ steps' = steps + 1 /\ model_call_count' \in Nat
      /\ stop_reason' \in {stop_reason, "model_error"}
      /\ x \in Thesis /\ Cited(x) \subseteq Ids(evidence_collection)
      /\ pc = "review"
  BY DEF Reviews
<1>2. /\ research_findings' = research_findings /\ request_count' = request_count
      /\ evidence_pool' = evidence_pool /\ evidence_collection' = evidence_collection
      /\ input_count' = input_count /\ summary' = summary
  BY <1>1 DEF ledgerVars, evidenceVars
<1>3. thesis_pool' \in Seq(Thesis) /\ Len(found) \in {0, 1}
  BY ReviewedPool
<1>4. CollectionOfPool'
  BY <1>2 DEF IInv, CollectionOfPool, Collect, UniqueIds
<1>5. /\ discovered_count \in Nat /\ MaxDiscovered \in Nat /\ MaxCandidates \in Nat
      /\ Len(thesis_pool) <= MaxCandidates + discovered_count /\ Len(thesis_pool) \in Nat
      /\ Len(thesis_pool') = Len(thesis_pool) + Len(found)
  BY ReviewedPool, LimitAssumption DEF IInv, TypeOK, WithinBudgets
<1>6. /\ discovered_count' \in Nat /\ discovered_count' <= MaxDiscovered
      /\ Len(thesis_pool') <= MaxCandidates + discovered_count'
  BY <1>1, <1>3, <1>5
<1>7. ASSUME NEW t \in DOMAIN thesis_pool'
      PROVE  \/ t = session.thesis /\ thesis_pool'[t] = x
             \/ t \in DOMAIN thesis_pool /\ thesis_pool'[t] = thesis_pool[t]
             \/ thesis_pool'[t] \in Fresh
  BY <1>3, <1>5, ReviewedPool
<1>8. ASSUME NEW t \in DOMAIN thesis_pool'
      PROVE  Cited(thesis_pool'[t]) \subseteq Ids(evidence_collection')
  BY <1>1, <1>2, <1>7 DEF IInv, CitationsStayCollected, Fresh
<1>9. ASSUME Rests(x) PROVE VerdictsGrounded'
  <2>1. ASSUME NEW t \in DOMAIN thesis_pool' PROVE Rests(thesis_pool'[t])
    <3>1. CASE t = session.thesis /\ thesis_pool'[t] = x
      BY <1>9, <3>1
    <3>2. CASE t \in DOMAIN thesis_pool /\ thesis_pool'[t] = thesis_pool[t]
      BY <3>2 DEF IInv, VerdictsGrounded, Rests
    <3>3. CASE thesis_pool'[t] \in Fresh
      BY <3>3 DEF Fresh, Rests
    <3> QED
      BY <1>7, <3>1, <3>2, <3>3
  <2> QED
    BY <1>2, <2>1 DEF VerdictsGrounded, Rests, HasDecisive
<1>10. \A f \in research_findings' : /\ f.evidence \subseteq Ids(evidence_collection')
                                     /\ f.evidence # {} <=> f.outcome = "EVIDENCE_FOUND"
  BY <1>2 DEF IInv, CitationsStayCollected
<1>11. stop_reason' \in StopReason /\ stop_reason' # "invalid_state"
  BY <1>1 DEF IInv, TypeOK, CitationsStayCollected, StopReason
<1> QED
  BY <1>1, <1>2, <1>3, <1>4, <1>6, <1>8, <1>9, <1>10, <1>11 DEF IInv, TypeOK

\* Where the pool stands: k theses are decided, the session has the next one.
LEMMA Progress ==
  ASSUME IInv, session # NoSession
  PROVE  \E k \in 0..Len(thesis_pool) :
           /\ session.thesis = k + 1
           /\ \A t \in 1..k : thesis_pool[t].status \in Final
           /\ \A t \in k+1..Len(thesis_pool) :
                thesis_pool[t].status = IF t = session.thesis THEN "UNDER_REVIEW"
                                        ELSE "UNVERIFIED"
           /\ pc = "review" => steps <= 2 * request_count + 2 * k + 1
           /\ pc = "execute" => steps <= 2 * request_count + 2 * k + 2
BY SMT DEF IInv, StepsBounded

LEMMA ClosesPreserves ==
  ASSUME IInv, NEW x, NEW found, Closes(x, found)
  PROVE  IInv'
<1>1. Reviews(x, found)
  BY DEF Closes
<1>2. /\ x.status \in Final /\ Rests(x) /\ session' = NoSession
      /\ active_request' = NoRequest /\ pc' = "select"
      /\ research_requests' = research_requests
      /\ pc = "review" /\ steps' = steps + 1
  BY DEF Closes, Reviews
<1>3. TypeOK'
  <2>1. session' \in Session
    BY <1>2 DEF Session, NoSession
  <2> QED
    BY <1>1, <1>2, <2>1, ReviewsPreserve DEF IInv, TypeOK
<1>4. UnderReview' = {}
  <2>1. ASSUME NEW t \in DOMAIN thesis_pool' PROVE thesis_pool'[t].status # "UNDER_REVIEW"
    <3>1. t \in 1..Len(thesis_pool) /\ t # session.thesis
            => thesis_pool[t].status # "UNDER_REVIEW"
      BY <1>2, ReviewStart, ReviewedPool, <1>1 DEF IInv, SessionOwnsOpenWork, UnderReview
    <3>2. CASE t > Len(thesis_pool)
      BY <1>1, <3>2, ReviewedPool DEF Fresh
    <3>3. CASE t = session.thesis
      BY <1>1, <1>2, <3>3, ReviewedPool DEF Final
    <3>4. CASE t \in 1..Len(thesis_pool) /\ t # session.thesis
      BY <1>1, <3>1, <3>4, ReviewedPool
    <3>5. t \in 1..Len(thesis_pool) \/ t > Len(thesis_pool)
      BY <1>1, ReviewedPool
    <3> QED
      BY <3>2, <3>3, <3>4, <3>5
  <2> QED
    BY <2>1 DEF UnderReview
<1>5. OpenRequests' = {}
  BY <1>2, ReviewStart DEF OpenRequests, IInv, SessionOwnsOpenWork
<1>6. SessionOwnsOpenWork'
  BY <1>2, <1>4, <1>5 DEF SessionOwnsOpenWork, NoSession
<1>7. TurnsRecorded'
  BY <1>2 DEF TurnsRecorded, NoSession
<1>8. WithinBudgets'
  BY <1>1, <1>2, ReviewsPreserve DEF WithinBudgets, IInv
<1>9. CitationsStayCollected'
  BY <1>1, <1>2, ReviewsPreserve DEF CitationsStayCollected
<1>10. StepsBounded'
  <2>1. PICK k \in 0..Len(thesis_pool) :
          /\ session.thesis = k + 1
          /\ \A t \in 1..k : thesis_pool[t].status \in Final
          /\ \A t \in k+1..Len(thesis_pool) :
               thesis_pool[t].status = IF t = session.thesis THEN "UNDER_REVIEW"
                                       ELSE "UNVERIFIED"
          /\ steps <= 2 * request_count + 2 * k + 1
    BY <1>2, ReviewStart, Progress
  <2>2. /\ Len(thesis_pool) \in Nat /\ Len(thesis_pool') \in Nat
        /\ Len(thesis_pool') >= Len(thesis_pool)
        /\ session.thesis \in 1..Len(thesis_pool)
    BY <1>1, ReviewedPool
  <2>3. ASSUME NEW t \in 1..k+1 PROVE thesis_pool'[t].status \in Final
    <3>1. CASE t = session.thesis
      BY <1>1, <1>2, <3>1, ReviewedPool
    <3>2. CASE t # session.thesis
      <4>1. t \in 1..k /\ t \in 1..Len(thesis_pool)
        BY <2>1, <2>2, <3>2
      <4>2. thesis_pool'[t] = thesis_pool[t]
        BY <1>1, <3>2, <4>1, ReviewedPool
      <4> QED
        BY <2>1, <4>1, <4>2
    <3> QED
      BY <3>1, <3>2
  <2>4. ASSUME NEW t \in (k+1)+1..Len(thesis_pool')
        PROVE  thesis_pool'[t].status = "UNVERIFIED" /\ t # 0
    <3>1. CASE t \in 1..Len(thesis_pool)
      BY <1>1, <2>1, <2>2, <3>1, ReviewedPool
    <3>2. CASE t > Len(thesis_pool)
      BY <1>1, <2>1, <2>2, <3>2, ReviewedPool DEF Fresh
    <3> QED
      BY <2>1, <2>2, <3>1, <3>2
  <2>5. session'.thesis = 0
    BY <1>2 DEF NoSession
  <2>6. request_count' = request_count /\ request_count \in Nat /\ steps \in Nat
    BY <1>1, ReviewsPreserve DEF IInv, TypeOK
  <2>7. steps' <= 2 * request_count' + 2 * (k + 1) + 0
    <3>1. k \in Nat /\ steps <= 2 * request_count + 2 * k + 1
      BY <2>1, <2>2
    <3>2. steps' = steps + 1
      BY <1>2
    <3> QED
      BY <2>6, <3>1, <3>2
  <2>8. Len(thesis_pool') <= MaxCandidates + MaxDiscovered
    BY <1>1, <2>2, ReviewsPreserve, LimitAssumption
  <2>9. k + 1 \in 0..Len(thesis_pool')
    BY <2>1, <2>2
  <2> QED
    BY <1>2, <2>3, <2>4, <2>5, <2>7, <2>8, <2>9 DEF StepsBounded
<1> QED
  BY <1>1, <1>2, <1>3, <1>6, <1>7, <1>8, <1>9, <1>10, ReviewsPreserve DEF IInv

LEMMA AsksPreserves ==
  ASSUME IInv, NEW x, NEW found, NEW request, Asks(x, found, request)
  PROVE  IInv'
<1>1. Reviews(x, found)
  BY DEF Asks
<1>2. /\ x.status = "UNDER_REVIEW" /\ request_count < MaxRequests
      /\ request \in Request /\ request.status = "PENDING" /\ request.id # NoRequest
      /\ request.id = [thesis |-> session.thesis, attempt |-> Len(session.turns) + 1,
                       fingerprint |-> request.id.fingerprint]
      /\ session' = [session EXCEPT !.used = @ \cup {request.id.fingerprint},
                                    !.pending = request.id.fingerprint]
      /\ active_request' = request.id /\ pc' = "execute"
      /\ research_requests' = {r \in research_requests : r.id # request.id} \cup {request}
      /\ pc = "review" /\ steps' = steps + 1
  BY DEF Asks, Reviews
<1>3. /\ request.id \in RequestId /\ request.id.fingerprint \in Fingerprint
      /\ request.id.fingerprint # NoFingerprint
  BY <1>2, InputAssumption DEF Request, RequestId
<1>4. /\ session' \in Session /\ session'.thesis = session.thesis
      /\ session'.turns = session.turns /\ session'.pending = request.id.fingerprint
      /\ session' # NoSession
  <2>1. /\ session \in [thesis: Nat, turns: Seq(Finding), used: SUBSET Fingerprint,
                        pending: Fingerprint \cup {NoFingerprint}]
        /\ session.used \in SUBSET Fingerprint
    BY <1>2, ReviewStart DEF Session
  <2>2. /\ session' \in Session /\ session'.thesis = session.thesis
        /\ session'.turns = session.turns /\ session'.pending = request.id.fingerprint
    BY <1>2, <1>3, <2>1 DEF Session
  <2> QED
    BY <1>3, <2>2 DEF NoSession
<1>5. TypeOK'
  <2>1. research_requests' \subseteq Request
    BY <1>2 DEF IInv, TypeOK
  <2>2. /\ pc' = "execute" /\ active_request' \in RequestId
        /\ request_count' \in Nat
    BY <1>1, <1>2, <1>3, ReviewsPreserve DEF IInv, TypeOK
  <2> QED
    BY <1>1, <1>4, <2>1, <2>2, ReviewsPreserve DEF TypeOK
<1>6. UnderReview' = {session'.thesis}
  <2>1. \A t \in 1..Len(thesis_pool) : t # session.thesis => thesis_pool[t].status # "UNDER_REVIEW"
    BY <1>1, <1>2, ReviewStart, ReviewedPool DEF IInv, SessionOwnsOpenWork, UnderReview
  <2>2. ASSUME NEW t \in DOMAIN thesis_pool'
        PROVE  thesis_pool'[t].status = "UNDER_REVIEW" <=> t = session.thesis
    BY <1>1, <1>2, <2>1, ReviewedPool DEF Fresh
  <2>3. session.thesis \in DOMAIN thesis_pool'
    BY <1>1, ReviewedPool
  <2> QED
    BY <1>4, <2>2, <2>3 DEF UnderReview
<1>7. OpenRequests' = {active_request'}
  <2>1. \A r \in research_requests : r.status \notin Active
    BY <1>2, ReviewStart DEF OpenRequests, IInv, SessionOwnsOpenWork
  <2> QED
    BY <1>2, <2>1 DEF OpenRequests, Active
<1>8. SessionOwnsOpenWork'
  <2>1. active_request' = [thesis |-> session'.thesis, attempt |-> Len(session'.turns) + 1,
                           fingerprint |-> session'.pending]
    BY <1>2, <1>4
  <2>2. active_request' # NoRequest /\ session'.pending # NoFingerprint
    BY <1>2, <1>3, <1>4
  <2> QED
    BY <1>2, <1>4, <1>6, <1>7, <2>1, <2>2 DEF SessionOwnsOpenWork
<1>9. TurnsRecorded'
  BY <1>1, <1>4 DEF TurnsRecorded, IInv, Reviews, ledgerVars
<1>10. WithinBudgets'
  BY <1>1, <1>2, ReviewsPreserve DEF WithinBudgets, IInv
<1>11. CitationsStayCollected'
  BY <1>1, <1>2, ReviewsPreserve DEF CitationsStayCollected
<1>12. Rests(x)
  BY <1>2 DEF Rests
<1>13. StepsBounded'
  <2>1. PICK k \in 0..Len(thesis_pool) :
          /\ session.thesis = k + 1
          /\ \A t \in 1..k : thesis_pool[t].status \in Final
          /\ \A t \in k+1..Len(thesis_pool) :
               thesis_pool[t].status = IF t = session.thesis THEN "UNDER_REVIEW"
                                       ELSE "UNVERIFIED"
          /\ steps <= 2 * request_count + 2 * k + 1
    BY <1>2, ReviewStart, Progress
  <2>2. /\ Len(thesis_pool) \in Nat /\ Len(thesis_pool') \in Nat
        /\ Len(thesis_pool') >= Len(thesis_pool)
        /\ session.thesis \in 1..Len(thesis_pool)
    BY <1>1, ReviewedPool
  <2>3. ASSUME NEW t \in 1..k PROVE thesis_pool'[t].status \in Final
    <3>1. t \in 1..Len(thesis_pool) /\ t # session.thesis
      BY <2>1, <2>2
    <3>2. thesis_pool'[t] = thesis_pool[t]
      BY <1>1, <3>1, ReviewedPool
    <3> QED
      BY <2>1, <3>2
  <2>4. ASSUME NEW t \in k+1..Len(thesis_pool')
        PROVE  thesis_pool'[t].status = IF t = session'.thesis THEN "UNDER_REVIEW"
                                        ELSE "UNVERIFIED"
    <3>1. CASE t \in 1..Len(thesis_pool)
      BY <1>1, <1>2, <1>4, <2>1, <2>2, <3>1, ReviewedPool
    <3>2. CASE t > Len(thesis_pool)
      BY <1>1, <1>4, <2>1, <2>2, <3>2, ReviewedPool DEF Fresh
    <3> QED
      BY <2>1, <2>2, <3>1, <3>2
  <2>5. request_count' = request_count /\ request_count \in Nat /\ steps \in Nat
    BY <1>1, ReviewsPreserve DEF IInv, TypeOK
  <2>6. steps' <= 2 * request_count' + 2 * k + 2
    BY <1>2, <2>1, <2>5
  <2>7. Len(thesis_pool') <= MaxCandidates + MaxDiscovered
    BY <1>1, <2>2, ReviewsPreserve, LimitAssumption
  <2>8. k \in 0..Len(thesis_pool')
    BY <2>1, <2>2
  <2> QED
    BY <1>2, <1>4, <2>1, <2>3, <2>4, <2>6, <2>7, <2>8 DEF StepsBounded
<1> QED
  BY <1>1, <1>5, <1>8, <1>9, <1>10, <1>11, <1>12, <1>13, ReviewsPreserve DEF IInv

LEMMA AnswersPreserves ==
  ASSUME IInv, NEW finding, NEW request, NEW records, Answers(finding, request, records)
  PROVE  IInv'
<1>1. /\ pc = "execute" /\ session # NoSession /\ active_request # NoRequest
      /\ finding \in Finding /\ finding.evidence = Ids(Collect(records))
      /\ finding.evidence # {} <=> finding.outcome = "EVIDENCE_FOUND"
      /\ records \in SUBSET EvidenceRecords /\ UniqueIds(evidence_pool \cup records)
      /\ request \in Request /\ request.id = active_request /\ request.status \in Terminal
      /\ research_requests' = {r \in research_requests : r.id # request.id} \cup {request}
      /\ research_findings' = research_findings \cup {finding}
      /\ session' = [session EXCEPT !.turns = Append(@, finding), !.pending = NoFingerprint]
      /\ active_request' = NoRequest /\ pc' = "review"
      /\ request_count' = request_count + 1
      /\ evidence_pool' = evidence_pool \cup records
      /\ evidence_collection' = Collect(evidence_pool \cup records)
      /\ steps' = steps + 1
      /\ thesis_pool' = thesis_pool /\ stop_reason' = stop_reason
      /\ input_count' = input_count /\ discovered_count' = discovered_count
      /\ model_call_count' = model_call_count /\ summary' = summary
  BY DEF Answers
<1>2. /\ session \in Session /\ session.turns \in Seq(Finding)
      /\ session.pending # NoFingerprint
  BY <1>1, ExecuteStart DEF Session
<1>3. /\ Append(session.turns, finding) \in Seq(Finding)
      /\ DOMAIN Append(session.turns, finding) = 1..Len(session.turns)+1
      /\ DOMAIN session.turns = 1..Len(session.turns) /\ Len(session.turns) \in Nat
      /\ Append(session.turns, finding)[Len(session.turns)+1] = finding
      /\ \A i \in 1..Len(session.turns) : Append(session.turns, finding)[i] = session.turns[i]
  BY <1>1, <1>2, AppendProperties
<1>4. /\ session' \in Session /\ session'.thesis = session.thesis
      /\ session'.turns = Append(session.turns, finding)
      /\ session'.pending = NoFingerprint
  BY <1>1, <1>2, <1>3 DEF Session
<1>5. session' # NoSession
  BY <1>3, <1>4 DEF NoSession
<1>6. TypeOK'
  <2>1. research_requests' \subseteq Request /\ research_findings' \subseteq Finding
    BY <1>1 DEF IInv, TypeOK
  <2>2. evidence_pool' \subseteq EvidenceRecords /\ evidence_collection' \subseteq EvidenceRecords
    BY <1>1 DEF IInv, TypeOK, Collect
  <2>3. request_count' \in Nat /\ steps' \in Nat
    BY <1>1 DEF IInv, TypeOK
  <2>4. /\ discovered_count' \in Nat /\ model_call_count' \in Nat /\ input_count' \in Nat
        /\ stop_reason' \in StopReason /\ summary' \in Summary /\ thesis_pool' \in Seq(Thesis)
    BY <1>1 DEF IInv, TypeOK
  <2> QED
    BY <1>1, <1>4, <2>1, <2>2, <2>3, <2>4 DEF TypeOK
<1>7. IsFiniteSet(research_findings')
  BY <1>1, FS_AddElement DEF IInv
<1>8. SessionOwnsOpenWork'
  <2>1. UnderReview' = {session'.thesis}
    BY <1>1, <1>4 DEF UnderReview, IInv, SessionOwnsOpenWork
  <2>2. ASSUME NEW r \in research_requests', r.status \in Active PROVE FALSE
    <3>1. r # request
      BY <1>1, <2>2 DEF Terminal, Active
    <3>2. r \in research_requests /\ r.id # active_request
      BY <1>1, <3>1
    <3>3. r.id \in OpenRequests
      BY <2>2, <3>2 DEF OpenRequests
    <3> QED
      BY <1>1, <3>2, <3>3 DEF IInv, SessionOwnsOpenWork
  <2>3. OpenRequests' = {}
    BY <2>2 DEF OpenRequests
  <2> QED
    BY <1>1, <1>4, <1>5, <2>1, <2>3 DEF SessionOwnsOpenWork
<1>9. TurnsRecorded'
  <2>1. ASSUME NEW i \in 1..Len(session.turns)+1
        PROVE  Append(session.turns, finding)[i] \in research_findings'
    <3>1. CASE i \in 1..Len(session.turns)
      BY <1>1, <1>3, <3>1 DEF IInv, TurnsRecorded
    <3>2. CASE i = Len(session.turns) + 1
      BY <1>1, <1>3, <3>2
    <3> QED
      BY <1>3, <3>1, <3>2
  <2> QED
    BY <1>3, <1>4, <2>1 DEF TurnsRecorded
<1>10. CollectionOfPool'
  BY <1>1 DEF CollectionOfPool
<1>11. WithinBudgets'
  BY <1>1, LimitAssumption DEF WithinBudgets, IInv, TypeOK
<1>12. evidence_collection \subseteq evidence_collection'
       /\ Ids(evidence_collection) \subseteq Ids(evidence_collection')
       /\ Ids(Collect(records)) \subseteq Ids(evidence_collection')
  BY <1>1 DEF IInv, CollectionOfPool, Collect, Ids
<1>13. /\ \A t \in DOMAIN thesis_pool' : Cited(thesis_pool'[t]) \subseteq Ids(evidence_collection')
       /\ \A f \in research_findings' : /\ f.evidence \subseteq Ids(evidence_collection')
                                        /\ f.evidence # {} <=> f.outcome = "EVIDENCE_FOUND"
  BY <1>1, <1>12 DEF IInv, CitationsStayCollected
<1>14. CitationsStayCollected'
  <2>1. RecordedAndCited'
    BY <1>1, <1>8, <1>9, <1>13 DEF RecordedAndCited
  <2>2. ReadyForModel'
    BY <2>1, ReviewReady, PTL
  <2> QED
    BY <1>1, <1>13, <2>2 DEF CitationsStayCollected, IInv, ReadyForModel
<1>15. VerdictsGrounded'
  BY <1>1, <1>12 DEF IInv, VerdictsGrounded, HasDecisive
<1>16. StepsBounded'
  <2>1. PICK k \in 0..Len(thesis_pool) :
          /\ session.thesis = k + 1
          /\ \A t \in 1..k : thesis_pool[t].status \in Final
          /\ \A t \in k+1..Len(thesis_pool) :
               thesis_pool[t].status = IF t = session.thesis THEN "UNDER_REVIEW"
                                       ELSE "UNVERIFIED"
          /\ steps <= 2 * request_count + 2 * k + 2
    BY <1>1, Progress
  <2>2. request_count \in Nat /\ steps \in Nat /\ Len(thesis_pool) \in Nat /\ k \in Nat
    BY DEF IInv, TypeOK
  <2>3. steps' <= 2 * request_count' + 2 * k + 1
    BY <1>1, <2>1, <2>2
  <2>4. Len(thesis_pool) <= MaxCandidates + MaxDiscovered
    BY DEF IInv, StepsBounded
  <2> QED
    BY <1>1, <1>4, <2>1, <2>3, <2>4 DEF StepsBounded
<1> QED
  BY <1>6, <1>7, <1>8, <1>9, <1>10, <1>11, <1>14, <1>15, <1>16 DEF IInv

-----------------------------------------------------------------------------
(* The other nodes.                                                        *)

LEMMA SelectPreserves ==
  ASSUME IInv, Select
  PROVE  IInv'
<1>1. /\ pc = "select" /\ steps' = steps + 1
      /\ pc' = IF session' # NoSession THEN "review" ELSE "finalize"
      /\ research_requests' = research_requests /\ research_findings' = research_findings
      /\ request_count' = request_count /\ evidence_pool' = evidence_pool
      /\ evidence_collection' = evidence_collection /\ discovered_count' = discovered_count
      /\ model_call_count' = model_call_count /\ stop_reason' = stop_reason
      /\ summary' = summary
  BY DEF Select, Step, ledgerVars, evidenceVars
<1>2. session = NoSession /\ active_request = NoRequest
      /\ UnderReview = {} /\ OpenRequests = {}
  BY <1>1 DEF IInv, SessionOwnsOpenWork
<1>3. thesis_pool \in Seq(Thesis) /\ Len(thesis_pool) \in Nat /\ DOMAIN thesis_pool = 1..Len(thesis_pool)
  BY DEF IInv, TypeOK
<1>4. PICK k \in 0..Len(thesis_pool) :
        /\ \A t \in 1..k : thesis_pool[t].status \in Final
        /\ \A t \in k+1..Len(thesis_pool) : thesis_pool[t].status = "UNVERIFIED"
        /\ steps <= 2 * request_count + 2 * k
        /\ Len(thesis_pool) <= MaxCandidates + MaxDiscovered
  <2>1. session.thesis = 0
    BY <1>2 DEF NoSession
  <2>2. pc = "select" /\ StepsBounded
    BY <1>1 DEF IInv
  <2>3. PICK k \in 0..Len(thesis_pool) :
          /\ \A t \in 1..k : thesis_pool[t].status \in Final
          /\ \A t \in k+1..Len(thesis_pool) :
               thesis_pool[t].status = IF t = session.thesis THEN "UNDER_REVIEW"
                                       ELSE "UNVERIFIED"
          /\ Len(thesis_pool) <= MaxCandidates + MaxDiscovered
          /\ steps <= 2 * request_count + 2 * k + 0
    BY <2>2 DEF StepsBounded
  <2>4. steps \in Nat /\ request_count \in Nat /\ k \in Nat
    BY <1>3 DEF IInv, TypeOK
  <2>5. ASSUME NEW t \in k+1..Len(thesis_pool) PROVE thesis_pool[t].status = "UNVERIFIED"
    BY <1>3, <2>1, <2>3, <2>4
  <2> QED
    BY <2>3, <2>4, <2>5
<1>5. k \in Nat /\ steps \in Nat /\ request_count \in Nat
  BY <1>3 DEF IInv, TypeOK
<1>6. CASE Unverified = {}
  <2>1. /\ thesis_pool' = thesis_pool /\ session' = NoSession
        /\ active_request' = NoRequest /\ input_count' = input_count
    BY <1>2, <1>6 DEF Select
  <2>2. TypeOK'
    <3>1. NoSession \in Session
      BY <1>2 DEF IInv, TypeOK
    <3> QED
      BY <1>1, <1>2, <1>3, <1>5, <2>1, <3>1 DEF IInv, TypeOK
  <2>3. SessionOwnsOpenWork'
    BY <1>1, <1>2, <2>1 DEF SessionOwnsOpenWork, UnderReview, OpenRequests, NoSession
  <2>4. TurnsRecorded' /\ CollectionOfPool' /\ WithinBudgets'
    BY <1>1, <1>2, <2>1
    DEF IInv, TurnsRecorded, CollectionOfPool, WithinBudgets, NoSession, Collect, UniqueIds
  <2>5. CitationsStayCollected' /\ VerdictsGrounded'
    BY <1>1, <2>1 DEF IInv, CitationsStayCollected, VerdictsGrounded, HasDecisive
  <2>6. StepsBounded'
    <3>1. session'.thesis = 0 /\ \A t \in k+1..Len(thesis_pool) : t # 0
      BY <1>5, <2>1 DEF NoSession
    <3>2. steps' <= 2 * request_count' + 2 * k + 1
      BY <1>1, <1>4, <1>5
    <3> QED
      BY <1>1, <1>4, <2>1, <3>1, <3>2 DEF StepsBounded
  <2> QED
    BY <1>1, <2>2, <2>3, <2>4, <2>5, <2>6 DEF IInv
<1>7. CASE Unverified # {}
  <2>1. PICK t \in Unverified : (\A u \in Unverified : t <= u) /\ OpenSession(t)
    BY <1>2, <1>7 DEF Select
  <2> DEFINE x == [thesis_pool[t] EXCEPT !.status = "UNDER_REVIEW", !.round = 0]
  <2>2. t \in 1..Len(thesis_pool) /\ thesis_pool[t].status = "UNVERIFIED"
        /\ thesis_pool[t] \in Thesis
    BY <1>3, <2>1 DEF Unverified
  <2>3. x \in Thesis /\ x.status = "UNDER_REVIEW" /\ Cited(x) = Cited(thesis_pool[t])
    BY <2>2 DEF Thesis, Cited
  <2>4. /\ thesis_pool' = [thesis_pool EXCEPT ![t] = x]
        /\ session' = [NoSession EXCEPT !.thesis = t] /\ active_request' = NoRequest
        /\ input_count' = IF input_count = 0 THEN Len(thesis_pool) ELSE input_count
    BY <2>1 DEF OpenSession
  <2> HIDE DEF x
  <2>5. /\ thesis_pool' \in Seq(Thesis) /\ Len(thesis_pool') = Len(thesis_pool)
        /\ DOMAIN thesis_pool' = 1..Len(thesis_pool)
        /\ \A i \in 1..Len(thesis_pool) :
             thesis_pool'[i] = IF i = t THEN x ELSE thesis_pool[i]
    BY <1>3, <2>2, <2>3, <2>4, ExceptSeq
  <2>6. /\ session' \in Session /\ session'.thesis = t /\ session'.turns = <<>>
        /\ session'.pending = NoFingerprint
    <3>1. session' = [thesis |-> t, turns |-> <<>>, used |-> {}, pending |-> NoFingerprint]
      BY <2>4 DEF NoSession
    <3> QED
      BY <1>3, <2>2, <3>1 DEF Session
  <2>7. session' # NoSession /\ pc' = "review"
    BY <1>1, <2>2, <2>6 DEF NoSession
  <2>8. TypeOK'
    <3>1. input_count' \in Nat
      BY <1>3, <2>4 DEF IInv, TypeOK
    <3> QED
      BY <1>1, <1>5, <2>4, <2>5, <2>6, <2>7, <3>1 DEF IInv, TypeOK
  <2>9. SessionOwnsOpenWork'
    <3>1. UnderReview' = {t}
      <4>1. \A i \in 1..Len(thesis_pool) : thesis_pool[i].status # "UNDER_REVIEW"
        BY <1>2, <1>3 DEF UnderReview
      <4> QED
        BY <2>2, <2>3, <2>5, <4>1 DEF UnderReview
    <3> QED
      BY <1>1, <1>2, <2>4, <2>6, <2>7, <3>1 DEF SessionOwnsOpenWork, OpenRequests
  <2>10. TurnsRecorded' /\ CollectionOfPool' /\ WithinBudgets'
    BY <1>1, <2>4, <2>5, <2>6
    DEF IInv, TurnsRecorded, CollectionOfPool, WithinBudgets, Collect, UniqueIds
  <2>11. /\ \A i \in DOMAIN thesis_pool' : Cited(thesis_pool'[i]) \subseteq Ids(evidence_collection')
         /\ \A f \in research_findings' : /\ f.evidence \subseteq Ids(evidence_collection')
                                          /\ f.evidence # {} <=> f.outcome = "EVIDENCE_FOUND"
    BY <1>1, <1>3, <2>2, <2>3, <2>5 DEF IInv, CitationsStayCollected
  <2>12. CitationsStayCollected'
    <3>1. RecordedAndCited'
      BY <2>7, <2>9, <2>10, <2>11 DEF RecordedAndCited
    <3>2. ReadyForModel'
      BY <3>1, ReviewReady, PTL
    <3> QED
      BY <1>1, <2>11, <3>2 DEF IInv, CitationsStayCollected, ReadyForModel
  <2>13. VerdictsGrounded'
    BY <1>1, <1>3, <2>3, <2>5 DEF IInv, VerdictsGrounded, HasDecisive
  <2>14. StepsBounded'
    <3>1. t = k + 1
      <4>1. t > k
        BY <1>4, <1>5, <2>2 DEF Final
      <4>2. k + 1 \in Unverified
        BY <1>3, <1>4, <1>5, <2>2, <4>1 DEF Unverified
      <4> QED
        BY <1>5, <2>1, <2>2, <4>1, <4>2
    <3>2. \A i \in 1..k : thesis_pool'[i].status \in Final
      BY <1>3, <1>4, <1>5, <2>5, <3>1
    <3>3. \A i \in k+1..Len(thesis_pool') :
            thesis_pool'[i].status = IF i = session'.thesis THEN "UNDER_REVIEW" ELSE "UNVERIFIED"
      BY <1>3, <1>4, <1>5, <2>3, <2>5, <2>6
    <3>4. steps' <= 2 * request_count' + 2 * k + 1
      BY <1>1, <1>4, <1>5
    <3> QED
      BY <1>4, <2>5, <2>6, <2>7, <3>1, <3>2, <3>3, <3>4 DEF StepsBounded
  <2> QED
    BY <1>1, <2>8, <2>9, <2>10, <2>12, <2>13, <2>14 DEF IInv
<1> QED
  BY <1>6, <1>7

\* The nodes that leave the loop: the pool, the requests and the evidence stay.
LEMMA LeavesPreserves ==
  ASSUME IInv, NEW node, NEW route, Step(node, route),
         \/ node = "review" /\ route = "aborted" /\ UNCHANGED <<session, active_request>>
         \/ node = "finalize" /\ route = "done" /\ CloseSession,
         summary' \in Summary,
         UNCHANGED <<thesis_pool, research_requests, ledgerVars, evidenceVars,
                     discovered_count, model_call_count, input_count, stop_reason>>
  PROVE  IInv'
<1>1. /\ thesis_pool' = thesis_pool /\ research_requests' = research_requests
      /\ research_findings' = research_findings /\ request_count' = request_count
      /\ evidence_pool' = evidence_pool /\ evidence_collection' = evidence_collection
      /\ discovered_count' = discovered_count /\ model_call_count' = model_call_count
      /\ input_count' = input_count /\ stop_reason' = stop_reason
      /\ steps' = steps + 1 /\ pc = node /\ pc' = route
  BY DEF ledgerVars, evidenceVars, Step
<1>2. active_request = NoRequest /\ session' = session /\ active_request' = active_request
  BY <1>1 DEF IInv, SessionOwnsOpenWork, CloseSession
<1>3. TypeOK'
  BY <1>1, <1>2 DEF IInv, TypeOK
<1>4. SessionOwnsOpenWork'
  BY <1>1, <1>2 DEF IInv, SessionOwnsOpenWork, UnderReview, OpenRequests
<1>5. TurnsRecorded' /\ CollectionOfPool' /\ WithinBudgets'
  BY <1>1, <1>2 DEF IInv, TurnsRecorded, CollectionOfPool, WithinBudgets, Collect, UniqueIds
<1>6. CitationsStayCollected' /\ VerdictsGrounded'
  BY <1>1 DEF IInv, CitationsStayCollected, VerdictsGrounded, HasDecisive
<1>7. StepsBounded'
  <2>1. PICK k \in 0..Len(thesis_pool) :
          /\ \A t \in 1..k : thesis_pool[t].status \in Final
          /\ \A t \in k+1..Len(thesis_pool) :
               thesis_pool[t].status = IF t = session.thesis THEN "UNDER_REVIEW"
                                       ELSE "UNVERIFIED"
          /\ session # NoSession => session.thesis = k + 1
          /\ Len(thesis_pool) <= MaxCandidates + MaxDiscovered
          /\ steps <= 2 * request_count + 2 * k + 1
    BY <1>1 DEF IInv, StepsBounded
  <2>2. request_count \in Nat /\ steps \in Nat /\ Len(thesis_pool) \in Nat /\ k \in Nat
    BY DEF IInv, TypeOK
  <2>3. steps' <= 2 * request_count' + 2 * k + 2
    BY <1>1, <2>1, <2>2
  <2> QED
    BY <1>1, <1>2, <2>1, <2>3 DEF StepsBounded
<1> QED
  BY <1>1, <1>3, <1>4, <1>5, <1>6, <1>7 DEF IInv

LEMMA FinalizePreserves ==
  ASSUME IInv, FinalizeRun
  PROVE  IInv'
<1>1. Cardinality(research_findings) \in Nat
  BY FS_CardinalityType DEF IInv
<1>2. Cardinality(Completed) \in Nat
  <2>1. Len(thesis_pool) \in Nat /\ DOMAIN thesis_pool = 1..Len(thesis_pool)
    BY DEF IInv, TypeOK
  <2>2. IsFiniteSet(1..Len(thesis_pool))
    BY <2>1, FS_Interval
  <2>3. Completed \subseteq 1..Len(thesis_pool)
    BY <2>1 DEF Completed
  <2> QED
    BY <2>2, <2>3, FS_Subset, FS_CardinalityType
<1>3. summary' \in Summary
  BY <1>1, <1>2 DEF FinalizeRun, Summary, StopReason, IInv, TypeOK
<1> QED
  BY <1>3, LeavesPreserves DEF FinalizeRun

LEMMA StepInv == IInv /\ [Next]_vars => IInv'
<1> SUFFICES ASSUME IInv, [Next]_vars PROVE IInv'
  OBVIOUS
<1>1. CASE Select
  BY <1>1, SelectPreserves
<1>2. CASE Review
  BY <1>2, ReviewShape, ClosesPreserves, AsksPreserves
<1>3. CASE ReviewAborts
  <2>1. summary' \in Summary
    BY <1>3 DEF ReviewAborts, IInv, TypeOK
  <2> QED
    BY <1>3, <2>1, LeavesPreserves DEF ReviewAborts
<1>4. CASE Execute
  BY <1>4, ExecuteShape, AnswersPreserves
<1>5. CASE FinalizeRun
  BY <1>5, FinalizePreserves
<1>6. CASE UNCHANGED vars
  <2>1. /\ pc' = pc /\ thesis_pool' = thesis_pool /\ session' = session
        /\ active_request' = active_request /\ research_requests' = research_requests
        /\ research_findings' = research_findings /\ evidence_pool' = evidence_pool
        /\ evidence_collection' = evidence_collection /\ request_count' = request_count
        /\ discovered_count' = discovered_count /\ model_call_count' = model_call_count
        /\ input_count' = input_count /\ stop_reason' = stop_reason
        /\ summary' = summary /\ steps' = steps
    BY <1>6 DEF vars
  <2>2. TypeOK' /\ SessionOwnsOpenWork'
    BY <2>1 DEF IInv, TypeOK, SessionOwnsOpenWork, UnderReview, OpenRequests
  <2>3. TurnsRecorded' /\ CollectionOfPool' /\ WithinBudgets' /\ VerdictsGrounded'
    BY <2>1 DEF IInv, TurnsRecorded, CollectionOfPool, WithinBudgets, VerdictsGrounded,
                HasDecisive, Collect, UniqueIds
  <2>4. CitationsStayCollected'
    BY <2>1 DEF IInv, CitationsStayCollected, InvalidSession, Current, MissingEvidence,
                RequiredEvidence, Ids
  <2>5. StepsBounded'
    BY <2>1 DEF IInv, StepsBounded
  <2> QED
    BY <2>1, <2>2, <2>3, <2>4, <2>5 DEF IInv
<1> QED
  BY <1>1, <1>2, <1>3, <1>4, <1>5, <1>6 DEF Next, Ended

-----------------------------------------------------------------------------
(* The theorems.                                                           *)

LEMMA Invariance == Spec => []IInv
BY InitInv, StepInv, PTL DEF Spec

\* Every variable of the validation loop keeps the type its model declares,
\* whatever the evidence, the drafts and the limits are.
THEOREM TypeCorrect == Spec => []TypeOK
<1>1. IInv => TypeOK
  BY DEF IInv
<1> QED
  BY <1>1, Invariance, PTL

\* The loop never works on a thesis or a request that its session does not name.
THEOREM SessionOwns == Spec => []SessionOwnsOpenWork
<1>1. IInv => SessionOwnsOpenWork
  BY DEF IInv
<1> QED
  BY <1>1, Invariance, PTL

\* No citation is ever lost, and the fail-closed branches are never needed.
THEOREM CitationsStay == Spec => []CitationsStayCollected
<1>1. IInv => CitationsStayCollected
  BY DEF IInv
<1> QED
  BY <1>1, Invariance, PTL

\* No verdict with a direction loses the decisive record it rests on.
THEOREM VerdictsStayGrounded == Spec => []VerdictsGrounded
<1>1. IInv => VerdictsGrounded
  BY DEF IInv
<1> QED
  BY <1>1, Invariance, PTL

\* Every super-step is paid for by a decided thesis or a finished request.
THEOREM StepsArePaidFor == Spec => []StepsBounded
<1>1. IInv => StepsBounded
  BY DEF IInv
<1> QED
  BY <1>1, Invariance, PTL

\* A run of the loop is never longer than its budgets allow: LangGraph's
\* recursion limit is out of reach when it is at least this number.
RunLengthBounded == steps <= 2 * MaxRequests + 2 * (MaxCandidates + MaxDiscovered) + 2

THEOREM RunLength == Spec => []RunLengthBounded
<1>1. IInv => RunLengthBounded
  <2> SUFFICES ASSUME IInv PROVE RunLengthBounded
    OBVIOUS
  <2>1. PICK k \in 0..Len(thesis_pool) :
          /\ Len(thesis_pool) <= MaxCandidates + MaxDiscovered
          /\ steps <= 2 * request_count + 2 * k + 2
    <3>1. /\ request_count \in Nat /\ steps \in Nat /\ Len(thesis_pool) \in Nat
      BY DEF IInv, TypeOK
    <3> QED
      BY <3>1 DEF IInv, StepsBounded
  <2>2. /\ request_count \in Nat /\ steps \in Nat /\ Len(thesis_pool) \in Nat
        /\ request_count <= MaxRequests
    BY DEF IInv, TypeOK, WithinBudgets
  <2> QED
    BY <2>1, <2>2, LimitAssumption DEF RunLengthBounded
<1> QED
  BY <1>1, Invariance, PTL

-----------------------------------------------------------------------------
(* The audit trail: requests and findings agree, the run's counters are     *)
(* exact, and nothing recorded is altered later.  The steps are those       *)
(* above: a review closes the session or asks one question, an execution    *)
(* answers it.                                                              *)

-----------------------------------------------------------------------------
(* The inductive invariant.                                                *)

\* A request is its id.
IdsUnique == \A q, r \in research_requests : q.id = r.id => q = r

\* No thesis has findings before it is taken up.
NoneBeforeReview ==
  \A f \in research_findings : /\ f.request.thesis \in DOMAIN thesis_pool
                               /\ thesis_pool[f.request.thesis].status # "UNVERIFIED"

\* The turns of the session are the findings about its thesis, the questions it
\* remembers as used are theirs and the pending one.
SessionAudited ==
  session # NoSession =>
    /\ Cardinality(FindingsOf(session.thesis)) = Len(session.turns)
    /\ session.pending \in session.used \cup {NoFingerprint}
    /\ \A f \in FindingsOf(session.thesis) :
         f.request.fingerprint \in session.used \ {session.pending}
    /\ session.pending # NoFingerprint => Len(session.turns) < MaxRounds

\* What the summary will say of the run.
Reported ==
  /\ stop_reason \in {"none", "model_error"}
  /\ stop_reason # "none" => input_count # 0
  /\ input_count # 0 => thesis_pool # <<>>
  /\ input_count = 0 => /\ session = NoSession
                        /\ \A t \in DOMAIN thesis_pool : thesis_pool[t].status \notin Final
  /\ pc \in {"finalize", "done"} =>
       \A t \in DOMAIN thesis_pool : thesis_pool[t].status \in Final

Audit ==
  /\ IdsUnique
  /\ AnswersMatchRequests
  /\ NothingAskedTwice
  /\ AttemptsWithoutGap
  /\ CounterExact
  /\ NoneBeforeReview
  /\ SessionAudited
  /\ Reported
  /\ SummaryAccountsForAll


\* Findings of a thesis are finitely many.
LEMMA FindingsFinite ==
  ASSUME IInv
  PROVE  \A t : IsFiniteSet(FindingsOf(t)) /\ Cardinality(FindingsOf(t)) \in Nat
<1>1. \A t : FindingsOf(t) \subseteq research_findings
  BY DEF FindingsOf
<1>2. IsFiniteSet(research_findings)
  BY DEF IInv
<1> QED
  BY <1>1, <1>2, FS_Subset, FS_CardinalityType

\* Where nothing was asked the numbering is the empty one.
LEMMA NothingAskedYet ==
  ASSUME NEW t, FindingsOf(t) = {}
  PROVE  /\ Cardinality(FindingsOf(t)) = 0
         /\ {f.request.attempt : f \in FindingsOf(t)} = 1..0
BY FS_EmptySet

LEMMA InitAudit == Init => Audit
<1> SUFFICES ASSUME Init PROVE Audit
  OBVIOUS
<1>1. IInv
  BY InitInv
<1>2. /\ research_findings = {} /\ research_requests = {} /\ request_count = 0
      /\ session = NoSession /\ pc = "select" /\ stop_reason = "none" /\ input_count = 0
  BY DEF Init
<1>3. \A t : FindingsOf(t) = {}
  BY <1>2 DEF FindingsOf
<1>4. \A t \in DOMAIN thesis_pool : thesis_pool[t].status = "UNVERIFIED"
  <2>1. PICK n \in 0..MaxCandidates :
          \E ds \in [1..n -> {d \in Drafts : Grounded(d, evidence_collection)}] :
            thesis_pool = [i \in 1..n |-> NewThesis(0, ds[i])]
    BY DEF Init
  <2> QED
    BY <2>1 DEF NewThesis
<1>5. Cardinality(research_findings) = 0
  BY <1>2, FS_EmptySet
<1>6. IdsUnique /\ NothingAskedTwice /\ NoneBeforeReview /\ SessionAudited
  BY <1>2 DEF IdsUnique, NothingAskedTwice, NoneBeforeReview, SessionAudited
<1>7. AnswersMatchRequests
  BY <1>2 DEF AnswersMatchRequests, FinishedRequests
<1>8. AttemptsWithoutGap
  <2>1. MaxRounds \in Nat /\ \A t \in DOMAIN thesis_pool : thesis_pool[t].status \notin Final
    BY <1>4, LimitAssumption DEF Final
  <2> QED
    BY <1>3, <2>1, NothingAskedYet DEF AttemptsWithoutGap
<1>9. CounterExact
  BY <1>2, <1>5, LimitAssumption DEF CounterExact
<1>10. Reported /\ SummaryAccountsForAll
  BY <1>2, <1>4 DEF Reported, SummaryAccountsForAll, Final
<1> QED
  BY <1>6, <1>7, <1>8, <1>9, <1>10 DEF Audit

-----------------------------------------------------------------------------
(* A review leaves the ledger alone.                                       *)

\* The pool after a review, seen from the ledger.
LEMMA ReviewAudited ==
  ASSUME IInv, Audit, NEW x, NEW found, Reviews(x, found),
         x.status # "UNVERIFIED",
         x.status \in Final => x.round = Len(session.turns)
  PROVE  /\ NothingAskedTwice' /\ AttemptsWithoutGap' /\ CounterExact'
         /\ NoneBeforeReview'
         /\ \A t \in Completed : t \in DOMAIN thesis_pool' /\ thesis_pool'[t] = thesis_pool[t]
         /\ input_count' # 0 /\ thesis_pool' # <<>>
         /\ stop_reason' \in {"none", "model_error"}
<1>1. /\ research_findings' = research_findings /\ request_count' = request_count
      /\ input_count' = input_count /\ stop_reason' \in {stop_reason, "model_error"}
      /\ session # NoSession /\ pc = "review"
  BY DEF Reviews, ledgerVars
<1>2. \A t : FindingsOf(t)' = FindingsOf(t)
  BY <1>1 DEF FindingsOf
<1>3. /\ Len(thesis_pool) \in Nat /\ DOMAIN thesis_pool = 1..Len(thesis_pool)
      /\ Len(thesis_pool') \in Nat /\ DOMAIN thesis_pool' = 1..Len(thesis_pool')
      /\ Len(thesis_pool) <= Len(thesis_pool')
      /\ session.thesis \in 1..Len(thesis_pool)
      /\ thesis_pool'[session.thesis] = x
      /\ \A i \in 1..Len(thesis_pool) : i # session.thesis => thesis_pool'[i] = thesis_pool[i]
      /\ \A i \in 1..Len(thesis_pool') : i > Len(thesis_pool) => thesis_pool'[i] \in Fresh
  BY ReviewedPool
<1>4. thesis_pool[session.thesis].status = "UNDER_REVIEW"
  BY <1>1, ReviewStart DEF Current
<1>5. /\ Cardinality(FindingsOf(session.thesis)) = Len(session.turns)
      /\ NoneBeforeReview /\ AttemptsWithoutGap
  BY <1>1 DEF Audit, SessionAudited
<1>6. ASSUME NEW t \in DOMAIN thesis_pool', t \notin DOMAIN thesis_pool
      PROVE  thesis_pool'[t].status = "UNVERIFIED" /\ FindingsOf(t) = {}
  <2>1. t \in 1..Len(thesis_pool') /\ t > Len(thesis_pool)
    BY <1>3, <1>6
  <2>2. thesis_pool'[t].status = "UNVERIFIED"
    BY <1>3, <2>1 DEF Fresh
  <2> QED
    BY <1>5, <1>6, <2>2 DEF NoneBeforeReview, FindingsOf
<1>7. DOMAIN thesis_pool \subseteq DOMAIN thesis_pool'
  BY <1>3
<1>8. NothingAskedTwice' /\ CounterExact'
  BY <1>1 DEF Audit, NothingAskedTwice, CounterExact
<1>9. NoneBeforeReview'
  BY <1>1, <1>3, <1>5, <1>7 DEF NoneBeforeReview
<1>10. AttemptsWithoutGap'
  <2> SUFFICES ASSUME NEW t \in DOMAIN thesis_pool'
               PROVE  /\ {f.request.attempt : f \in FindingsOf(t)} = 1..Cardinality(FindingsOf(t))
                      /\ Cardinality(FindingsOf(t)) <= MaxRounds
                      /\ thesis_pool'[t].status \in Final =>
                           thesis_pool'[t].round = Cardinality(FindingsOf(t))
    BY <1>2 DEF AttemptsWithoutGap
  <2>1. CASE t \notin DOMAIN thesis_pool
    <3>1. FindingsOf(t) = {} /\ thesis_pool'[t].status \notin Final
      BY <1>6, <2>1 DEF Final
    <3> QED
      BY <3>1, NothingAskedYet, LimitAssumption
  <2>2. CASE t \in DOMAIN thesis_pool
    <3>1. /\ {f.request.attempt : f \in FindingsOf(t)} = 1..Cardinality(FindingsOf(t))
          /\ Cardinality(FindingsOf(t)) <= MaxRounds
          /\ thesis_pool[t].status \in Final =>
               thesis_pool[t].round = Cardinality(FindingsOf(t))
      BY <1>5, <2>2 DEF AttemptsWithoutGap
    <3>2. thesis_pool'[t].status \in Final =>
            thesis_pool'[t].round = Cardinality(FindingsOf(t))
      BY <1>3, <1>5, <2>2, <3>1
    <3> QED
      BY <3>1, <3>2
  <2> QED
    BY <2>1, <2>2
<1>11. \A t \in Completed : t \in DOMAIN thesis_pool' /\ thesis_pool'[t] = thesis_pool[t]
  BY <1>3, <1>4, <1>7 DEF Completed, Final
<1>12. input_count' # 0 /\ thesis_pool' # <<>>
  <2>1. Len(thesis_pool') > 0
    BY <1>3
  <2>2. input_count # 0
    BY <1>1 DEF Audit, Reported
  <2> QED
    BY <1>1, <2>1, <2>2
<1>13. stop_reason' \in {"none", "model_error"}
  BY <1>1 DEF Audit, Reported
<1> QED
  BY <1>8, <1>9, <1>10, <1>11, <1>12, <1>13

LEMMA ClosesAudited ==
  ASSUME IInv, Audit, NEW x, NEW found, Closes(x, found)
  PROVE  Audit' /\ HistoryKept
<1>1. /\ Reviews(x, found) /\ x.status \in Final /\ x.round = Len(session.turns)
      /\ session' = NoSession /\ pc' = "select" /\ research_requests' = research_requests
  BY DEF Closes
<1>2. /\ research_findings' = research_findings /\ evidence_pool' = evidence_pool
  BY <1>1 DEF Reviews, ledgerVars, evidenceVars
<1>3. /\ NothingAskedTwice' /\ AttemptsWithoutGap' /\ CounterExact'
      /\ NoneBeforeReview'
      /\ \A t \in Completed : t \in DOMAIN thesis_pool' /\ thesis_pool'[t] = thesis_pool[t]
      /\ input_count' # 0 /\ thesis_pool' # <<>>
      /\ stop_reason' \in {"none", "model_error"}
  BY <1>1, ReviewAudited DEF Final
<1>4. IdsUnique' /\ AnswersMatchRequests'
  BY <1>1, <1>2 DEF Audit, IdsUnique, AnswersMatchRequests, FinishedRequests
<1>5. SessionAudited' /\ Reported' /\ SummaryAccountsForAll'
  BY <1>1, <1>3 DEF SessionAudited, Reported, SummaryAccountsForAll
<1>6. HistoryKept
  BY <1>1, <1>2, <1>3 DEF HistoryKept, FinishedRequests
<1> QED
  BY <1>3, <1>4, <1>5, <1>6 DEF Audit


\* A question the ledger has no answer to yet: the next attempt of the thesis.
LEMMA UnansweredId ==
  ASSUME IInv, Audit, session # NoSession, NEW id,
         id.thesis = session.thesis, id.attempt = Len(session.turns) + 1
  PROVE  \A f \in research_findings : f.request # id
<1>1. Cardinality(FindingsOf(session.thesis)) = Len(session.turns)
  BY DEF Audit, SessionAudited
<1>2. Len(session.turns) \in Nat /\ session.thesis \in Nat
  BY DEF IInv, TypeOK, Session, NoSession
<1> SUFFICES ASSUME NEW f \in research_findings, f.request = id
             PROVE  FALSE
  OBVIOUS
<1>3. f \in FindingsOf(session.thesis)
  BY DEF FindingsOf
<1>4. session.thesis \in DOMAIN thesis_pool
  <2>1. f.request.thesis \in DOMAIN thesis_pool
    BY DEF Audit, NoneBeforeReview
  <2> QED
    BY <2>1
<1>5. {g.request.attempt : g \in FindingsOf(session.thesis)} = 1..Len(session.turns)
  BY <1>1, <1>4 DEF Audit, AttemptsWithoutGap
<1>6. Len(session.turns) + 1 \in 1..Len(session.turns)
  BY <1>3, <1>5
<1> QED
  BY <1>2, <1>6

\* A finished request has the id of a finding.
LEMMA FinishedWasAnswered ==
  ASSUME AnswersMatchRequests, NEW r \in FinishedRequests
  PROVE  \E f \in research_findings : f.request = r.id
<1>1. [request |-> r.id, status |-> r.status, evidence |-> r.results]
        \in {[request |-> f.request, status |-> StatusFor(f.outcome), evidence |-> f.evidence]
               : f \in research_findings}
  BY DEF AnswersMatchRequests
<1> QED
  BY <1>1

LEMMA AsksAudited ==
  ASSUME IInv, Audit, NEW x, NEW found, NEW request, Asks(x, found, request)
  PROVE  Audit' /\ HistoryKept
<1>1. /\ Reviews(x, found) /\ x.status = "UNDER_REVIEW"
      /\ Len(session.turns) < MaxRounds
      /\ request.id.fingerprint \notin session.used
      /\ request \in Request /\ request.status = "PENDING"
      /\ request.id.thesis = session.thesis /\ request.id.attempt = Len(session.turns) + 1
      /\ session' = [session EXCEPT !.used = @ \cup {request.id.fingerprint},
                                    !.pending = request.id.fingerprint]
      /\ active_request' = request.id /\ pc' = "execute"
      /\ research_requests' = {r \in research_requests : r.id # request.id} \cup {request}
      /\ pc = "review"
  BY DEF Asks, Reviews
<1>2. /\ research_findings' = research_findings /\ evidence_pool' = evidence_pool
      /\ session # NoSession /\ session \in Session /\ active_request = NoRequest
      /\ session.pending = NoFingerprint
  BY <1>1, ReviewStart DEF Reviews, ledgerVars, evidenceVars
<1>3. /\ NothingAskedTwice' /\ AttemptsWithoutGap' /\ CounterExact'
      /\ NoneBeforeReview'
      /\ \A t \in Completed : t \in DOMAIN thesis_pool' /\ thesis_pool'[t] = thesis_pool[t]
      /\ input_count' # 0 /\ thesis_pool' # <<>>
      /\ stop_reason' \in {"none", "model_error"}
  BY <1>1, ReviewAudited DEF Final
<1>4. \A r \in research_requests : r.id # request.id
  <2> SUFFICES ASSUME NEW r \in research_requests, r.id = request.id
               PROVE  FALSE
    OBVIOUS
  <2>1. r.status \in Active \cup Terminal
    BY DEF IInv, TypeOK, Request, Active
  <2>2. CASE r.status \in Active
    <3>1. r.id \in OpenRequests
      BY <2>2 DEF OpenRequests
    <3> QED
      BY <1>2, <3>1 DEF IInv, SessionOwnsOpenWork
  <2>3. CASE r.status \in Terminal
    <3>1. PICK f \in research_findings : f.request = r.id
      BY <2>3, FinishedWasAnswered DEF Audit, FinishedRequests
    <3> QED
      BY <1>1, <1>2, <3>1, UnansweredId
  <2> QED
    BY <2>1, <2>2, <2>3
<1>5. research_requests' = research_requests \cup {request}
  BY <1>1, <1>4
<1>6. IdsUnique'
  BY <1>4, <1>5 DEF Audit, IdsUnique
<1>7. FinishedRequests' = FinishedRequests
  BY <1>1, <1>5 DEF FinishedRequests, Terminal
<1>8. AnswersMatchRequests'
  BY <1>2, <1>7 DEF Audit, AnswersMatchRequests
<1>9. SessionAudited'
  <2>1. /\ session'.thesis = session.thesis /\ session'.turns = session.turns
        /\ session'.used = session.used \cup {request.id.fingerprint}
        /\ session'.pending = request.id.fingerprint
    BY <1>1, <1>2 DEF Session
  <2>2. FindingsOf(session.thesis)' = FindingsOf(session.thesis)
    BY <1>2, <2>1 DEF FindingsOf
  <2>3. /\ Cardinality(FindingsOf(session.thesis)) = Len(session.turns)
        /\ \A f \in FindingsOf(session.thesis) : f.request.fingerprint \in session.used
    BY <1>2 DEF Audit, SessionAudited
  <2> QED
    BY <1>1, <2>1, <2>2, <2>3 DEF SessionAudited
<1>10. Reported' /\ SummaryAccountsForAll'
  BY <1>1, <1>3 DEF Reported, SummaryAccountsForAll
<1>11. HistoryKept
  BY <1>2, <1>3, <1>5 DEF HistoryKept, FinishedRequests
<1> QED
  BY <1>3, <1>6, <1>8, <1>9, <1>10, <1>11 DEF Audit


-----------------------------------------------------------------------------
(* An execution adds one finding and finishes its request.                 *)

\* The findings about a thesis when finding is added.
FindingsWith(t, finding) == {f \in research_findings \cup {finding} : f.request.thesis = t}

\* finding answers the question the session waits for.
AnswersPending(finding) ==
  /\ finding.request.thesis = session.thesis
  /\ finding.request.attempt = Len(session.turns) + 1
  /\ finding.request.fingerprint = session.pending
  /\ session.pending # NoFingerprint
  /\ session.pending \in session.used
  /\ Len(session.turns) \in Nat /\ Len(session.turns) < MaxRounds
  /\ session.thesis \in DOMAIN thesis_pool
  /\ thesis_pool[session.thesis].status = "UNDER_REVIEW"
  /\ Cardinality(FindingsOf(session.thesis)) = Len(session.turns)
  /\ {f.request.attempt : f \in FindingsOf(session.thesis)} = 1..Len(session.turns)
  /\ \A f \in FindingsOf(session.thesis) :
       f.request.fingerprint \in session.used \ {session.pending}
  /\ \A f \in research_findings : f.request # finding.request

LEMMA AnswerStart ==
  ASSUME IInv, Audit, NEW finding, session # NoSession, active_request # NoRequest,
         finding.request = active_request
  PROVE  AnswersPending(finding)
<1>1. /\ active_request = [thesis |-> session.thesis, attempt |-> Len(session.turns) + 1,
                           fingerprint |-> session.pending]
      /\ session.pending # NoFingerprint
      /\ UnderReview = {session.thesis}
  BY DEF IInv, SessionOwnsOpenWork
<1>2. Len(session.turns) \in Nat
  BY DEF IInv, TypeOK, Session, NoSession
<1>3. session.thesis \in DOMAIN thesis_pool
      /\ thesis_pool[session.thesis].status = "UNDER_REVIEW"
  BY <1>1 DEF UnderReview
<1>4. /\ Cardinality(FindingsOf(session.thesis)) = Len(session.turns)
      /\ session.pending \in session.used /\ Len(session.turns) < MaxRounds
      /\ \A f \in FindingsOf(session.thesis) :
           f.request.fingerprint \in session.used \ {session.pending}
  BY <1>1 DEF Audit, SessionAudited
<1>5. {f.request.attempt : f \in FindingsOf(session.thesis)} = 1..Len(session.turns)
  BY <1>3, <1>4 DEF Audit, AttemptsWithoutGap
<1>6. \A f \in research_findings : f.request # finding.request
  BY <1>1, UnansweredId
<1> QED
  BY <1>1, <1>2, <1>3, <1>4, <1>5, <1>6 DEF AnswersPending

\* The numbering stays without a gap, and nothing is asked twice.
LEMMA NumberingExtended ==
  ASSUME IInv, Audit, NEW finding, AnswersPending(finding)
  PROVE  /\ Cardinality(FindingsWith(session.thesis, finding)) = Len(session.turns) + 1
         /\ {f.request.attempt : f \in FindingsWith(session.thesis, finding)}
              = 1..Len(session.turns) + 1
         /\ \A t : t # session.thesis => FindingsWith(t, finding) = FindingsOf(t)
         /\ FindingsWith(session.thesis, finding)
              = FindingsOf(session.thesis) \cup {finding}
<1> DEFINE F == FindingsOf(session.thesis)
           n == Len(session.turns)
<1>1. /\ n \in Nat /\ Cardinality(F) = n
      /\ {f.request.attempt : f \in F} = 1..n
      /\ finding.request.thesis = session.thesis /\ finding.request.attempt = n + 1
      /\ \A f \in research_findings : f.request # finding.request
  BY DEF AnswersPending
<1>2. FindingsWith(session.thesis, finding) = F \cup {finding}
  BY <1>1 DEF FindingsWith, FindingsOf
<1>3. \A t : t # session.thesis => FindingsWith(t, finding) = FindingsOf(t)
  BY <1>1 DEF FindingsWith, FindingsOf
<1>4. finding \notin F
  BY <1>1 DEF FindingsOf
<1>5. IsFiniteSet(F)
  BY FindingsFinite
<1> HIDE DEF F, n
<1>6. Cardinality(F \cup {finding}) = n + 1
  BY <1>1, <1>4, <1>5, FS_AddElement
<1>7. {f.request.attempt : f \in F \cup {finding}} = 1..n + 1
  <2>1. {f.request.attempt : f \in F \cup {finding}}
          = {f.request.attempt : f \in F} \cup {finding.request.attempt}
    OBVIOUS
  <2>2. 1..n + 1 = (1..n) \cup {n + 1}
    BY <1>1
  <2> QED
    BY <1>1, <2>1, <2>2
<1> QED
  BY <1>2, <1>3, <1>6, <1>7 DEF F, n


LEMMA AnswersAudited ==
  ASSUME IInv, Audit, NEW finding, NEW request, NEW records,
         Answers(finding, request, records)
  PROVE  Audit' /\ HistoryKept
<1>1. /\ session # NoSession /\ active_request # NoRequest
      /\ finding \in Finding /\ finding.request = active_request
      /\ request \in Request /\ request.id = active_request /\ request.status \in Terminal
      /\ request.status = StatusFor(finding.outcome) /\ request.results = finding.evidence
      /\ research_requests' = {r \in research_requests : r.id # request.id} \cup {request}
      /\ research_findings' = research_findings \cup {finding}
      /\ session' = [session EXCEPT !.turns = Append(@, finding), !.pending = NoFingerprint]
      /\ pc' = "review" /\ request_count' = request_count + 1
      /\ evidence_pool' = evidence_pool \cup records
      /\ thesis_pool' = thesis_pool /\ stop_reason' = stop_reason /\ input_count' = input_count
  BY DEF Answers
<1>2. AnswersPending(finding)
  BY <1>1, AnswerStart
<1>3. \A t : FindingsOf(t)' = FindingsWith(t, finding)
  BY <1>1 DEF FindingsOf, FindingsWith
<1>4. /\ Cardinality(FindingsWith(session.thesis, finding)) = Len(session.turns) + 1
      /\ {f.request.attempt : f \in FindingsWith(session.thesis, finding)}
           = 1..Len(session.turns) + 1
      /\ \A t : t # session.thesis => FindingsWith(t, finding) = FindingsOf(t)
      /\ FindingsWith(session.thesis, finding) = FindingsOf(session.thesis) \cup {finding}
  BY <1>2, NumberingExtended
<1>5. IdsUnique'
  BY <1>1 DEF Audit, IdsUnique
<1>6. \A r \in FinishedRequests : r.id # request.id
  BY <1>1, <1>2, FinishedWasAnswered DEF Audit, AnswersPending
<1>7. FinishedRequests' = FinishedRequests \cup {request}
  BY <1>1, <1>6 DEF FinishedRequests
<1>8. AnswersMatchRequests'
  <2> DEFINE Of(r) == [request |-> r.id, status |-> r.status, evidence |-> r.results]
             By(f) == [request |-> f.request, status |-> StatusFor(f.outcome),
                       evidence |-> f.evidence]
  <2>1. {Of(r) : r \in FinishedRequests} = {By(f) : f \in research_findings}
    BY DEF Audit, AnswersMatchRequests
  <2>2. Of(request) = By(finding)
    BY <1>1
  <2> HIDE DEF Of, By
  <2>3. {Of(r) : r \in FinishedRequests \cup {request}}
          = {By(f) : f \in research_findings \cup {finding}}
    BY <2>1, <2>2
  <2> QED
    BY <1>1, <1>7, <2>3 DEF AnswersMatchRequests, Of, By
<1>9. NothingAskedTwice'
  <2>1. ASSUME NEW g \in research_findings,
               g.request.thesis = finding.request.thesis,
               \/ g.request.attempt = finding.request.attempt
               \/ g.request.fingerprint = finding.request.fingerprint
        PROVE  FALSE
    <3>1. g \in FindingsOf(session.thesis)
      BY <1>2, <2>1 DEF FindingsOf, AnswersPending
    <3>2. g.request.attempt \in 1..Len(session.turns)
      BY <1>2, <3>1 DEF AnswersPending
    <3>3. g.request.attempt # Len(session.turns) + 1
      BY <1>2, <3>2 DEF AnswersPending
    <3> QED
      BY <1>2, <2>1, <3>1, <3>3 DEF AnswersPending
  <2>2. NothingAskedTwice
    BY DEF Audit
  <2> QED
    BY <1>1, <2>1, <2>2 DEF NothingAskedTwice
<1>10. AttemptsWithoutGap'
  <2> SUFFICES ASSUME NEW t \in DOMAIN thesis_pool
               PROVE  /\ {f.request.attempt : f \in FindingsWith(t, finding)}
                           = 1..Cardinality(FindingsWith(t, finding))
                      /\ Cardinality(FindingsWith(t, finding)) <= MaxRounds
                      /\ thesis_pool[t].status \in Final =>
                           thesis_pool[t].round = Cardinality(FindingsWith(t, finding))
    BY <1>1, <1>3 DEF AttemptsWithoutGap
  <2>1. CASE t = session.thesis
    <3>1. thesis_pool[t].status \notin Final
      BY <1>2, <2>1 DEF AnswersPending, Final
    <3>2. Len(session.turns) + 1 <= MaxRounds
      BY <1>2, LimitAssumption DEF AnswersPending
    <3> QED
      BY <1>4, <2>1, <3>1, <3>2
  <2>2. CASE t # session.thesis
    BY <1>4, <2>2 DEF Audit, AttemptsWithoutGap
  <2> QED
    BY <2>1, <2>2
<1>11. CounterExact'
  <2>1. IsFiniteSet(research_findings) /\ finding \notin research_findings
    BY <1>2 DEF IInv, AnswersPending
  <2>2. Cardinality(research_findings \cup {finding}) = Cardinality(research_findings) + 1
    BY <2>1, FS_AddElement
  <2>3. request_count < MaxRequests /\ request_count \in Nat /\ MaxRequests \in Nat
    BY <1>1, LimitAssumption DEF IInv, WithinBudgets, TypeOK
  <2> QED
    BY <1>1, <2>2, <2>3 DEF Audit, CounterExact
<1>12. NoneBeforeReview'
  BY <1>1, <1>2 DEF Audit, NoneBeforeReview, AnswersPending
<1>13. SessionAudited'
  <2>1. session \in Session /\ session.turns \in Seq(Finding)
    BY <1>1 DEF IInv, TypeOK, Session
  <2>2. /\ session'.thesis = session.thesis /\ session'.used = session.used
        /\ session'.pending = NoFingerprint
        /\ session'.turns = Append(session.turns, finding)
    BY <1>1, <2>1 DEF Session
  <2>3. Len(session'.turns) = Len(session.turns) + 1
    BY <1>1, <2>1, <2>2
  <2>4. session.used \subseteq Fingerprint /\ NoFingerprint \notin session.used
    BY <2>1, InputAssumption DEF Session
  <2>5. \A f \in FindingsWith(session.thesis, finding) : f.request.fingerprint \in session.used
    BY <1>2, <1>4 DEF AnswersPending
  <2>6. Cardinality(FindingsOf(session.thesis))' = Len(session'.turns)
    BY <1>3, <1>4, <2>2, <2>3
  <2>7. FindingsOf(session.thesis)' = FindingsWith(session.thesis, finding)
    BY <1>1, <2>2 DEF FindingsOf, FindingsWith
  <2> QED
    BY <2>2, <2>4, <2>5, <2>6, <2>7 DEF SessionAudited
<1>14. Reported' /\ SummaryAccountsForAll'
  BY <1>1 DEF Audit, Reported, SummaryAccountsForAll
<1>15. HistoryKept
  BY <1>1, <1>7, <1>6 DEF HistoryKept, FinishedRequests, Completed
<1> QED
  BY <1>5, <1>8, <1>9, <1>10, <1>11, <1>12, <1>13, <1>14, <1>15 DEF Audit


-----------------------------------------------------------------------------
(* The other nodes.                                                        *)

LEMMA SelectAudited ==
  ASSUME IInv, Audit, Select
  PROVE  Audit' /\ HistoryKept
<1>1. /\ pc = "select" /\ pc' = IF session' # NoSession THEN "review" ELSE "finalize"
      /\ research_requests' = research_requests /\ research_findings' = research_findings
      /\ request_count' = request_count /\ evidence_pool' = evidence_pool
      /\ stop_reason' = stop_reason
  BY DEF Select, Step, ledgerVars, evidenceVars
<1>2. session = NoSession /\ UnderReview = {}
  BY <1>1 DEF IInv, SessionOwnsOpenWork
<1>3. thesis_pool \in Seq(Thesis) /\ IsFiniteSet(research_findings)
  BY DEF IInv, TypeOK
<1>4. \A t : FindingsOf(t)' = FindingsOf(t)
  BY <1>1 DEF FindingsOf
<1>5. /\ IdsUnique' /\ AnswersMatchRequests' /\ NothingAskedTwice' /\ CounterExact'
  BY <1>1 DEF Audit, IdsUnique, AnswersMatchRequests, FinishedRequests, NothingAskedTwice,
              CounterExact
<1>6. SummaryAccountsForAll'
  BY <1>1 DEF SummaryAccountsForAll
<1>7. CASE Unverified = {}
  <2>1. UNCHANGED <<thesis_pool, session, input_count>>
    BY <1>7 DEF Select
  <2>2. \A t \in DOMAIN thesis_pool : thesis_pool[t].status \in Final
    <3> SUFFICES ASSUME NEW t \in DOMAIN thesis_pool
                 PROVE  thesis_pool[t].status \in Final
      OBVIOUS
    <3>1. thesis_pool[t] \in Thesis
      BY <1>3
    <3>2. thesis_pool[t].status \in {"UNVERIFIED", "UNDER_REVIEW"} \cup Final
      BY <3>1 DEF Thesis
    <3>3. thesis_pool[t].status # "UNVERIFIED" /\ thesis_pool[t].status # "UNDER_REVIEW"
      BY <1>2, <1>7 DEF Unverified, UnderReview
    <3> QED
      BY <3>2, <3>3
  <2>3. AttemptsWithoutGap' /\ NoneBeforeReview'
    BY <1>1, <1>4, <2>1 DEF Audit, AttemptsWithoutGap, NoneBeforeReview
  <2>4. SessionAudited' /\ Reported'
    BY <1>1, <1>2, <2>1, <2>2 DEF Audit, SessionAudited, Reported
  <2>5. HistoryKept
    BY <1>1, <2>1 DEF HistoryKept, FinishedRequests, Completed
  <2> QED
    BY <1>5, <1>6, <2>3, <2>4, <2>5 DEF Audit
<1>8. ASSUME NEW t \in Unverified, OpenSession(t)
      PROVE  Audit' /\ HistoryKept
  <2>1. /\ t \in DOMAIN thesis_pool /\ thesis_pool[t].status = "UNVERIFIED"
        /\ DOMAIN thesis_pool = 1..Len(thesis_pool) /\ Len(thesis_pool) \in Nat
    BY <1>3, <1>8 DEF Unverified
  <2>2. /\ thesis_pool' = [thesis_pool EXCEPT ![t] =
                              [@ EXCEPT !.status = "UNDER_REVIEW", !.round = 0]]
        /\ session' = [NoSession EXCEPT !.thesis = t]
        /\ input_count' = IF input_count = 0 THEN Len(thesis_pool) ELSE input_count
    BY <1>8 DEF OpenSession
  <2>3. /\ DOMAIN thesis_pool' = DOMAIN thesis_pool
        /\ \A u \in DOMAIN thesis_pool : u # t => thesis_pool'[u] = thesis_pool[u]
        /\ thesis_pool'[t].status = "UNDER_REVIEW"
        /\ Len(thesis_pool') = Len(thesis_pool)
    <3>1. thesis_pool[t] \in Thesis
      BY <1>3, <2>1
    <3> QED
      BY <1>3, <2>1, <2>2, <3>1 DEF Thesis
  <2>4. /\ session'.thesis = t /\ session'.turns = <<>>
        /\ session'.pending = NoFingerprint /\ session' # NoSession
    BY <2>1, <2>2 DEF NoSession
  <2>5. FindingsOf(t) = {}
    BY <2>1 DEF Audit, NoneBeforeReview, FindingsOf
  <2>6. AttemptsWithoutGap'
    BY <1>4, <2>3 DEF Audit, AttemptsWithoutGap, Final
  <2>7. NoneBeforeReview'
    BY <1>1, <2>3 DEF Audit, NoneBeforeReview
  <2>8. SessionAudited'
    <3>1. FindingsOf(session.thesis)' = {}
      BY <1>1, <2>4, <2>5 DEF FindingsOf
    <3> QED
      BY <2>4, <3>1, FS_EmptySet DEF SessionAudited
  <2>9. Reported'
    <3>1. input_count' # 0 /\ thesis_pool' # <<>>
      BY <2>1, <2>2, <2>3
    <3> QED
      BY <1>1, <2>4, <3>1 DEF Audit, Reported
  <2>10. HistoryKept
    BY <1>1, <2>1, <2>3 DEF HistoryKept, FinishedRequests, Completed, Final
  <2> QED
    BY <1>5, <1>6, <2>6, <2>7, <2>8, <2>9, <2>10 DEF Audit
<1> QED
  BY <1>2, <1>7, <1>8 DEF Select

LEMMA FinalizeAudited ==
  ASSUME IInv, Audit, FinalizeRun
  PROVE  Audit' /\ HistoryKept
<1>1. /\ pc = "finalize" /\ pc' = "done" /\ session' = NoSession
      /\ thesis_pool' = thesis_pool /\ research_requests' = research_requests
      /\ research_findings' = research_findings /\ request_count' = request_count
      /\ evidence_pool' = evidence_pool
      /\ input_count' = input_count /\ stop_reason' = stop_reason
      /\ summary' = [completed |-> Cardinality(Completed),
                     findings |-> Cardinality(research_findings),
                     stop |-> IF stop_reason # "none" THEN stop_reason
                              ELSE IF input_count = 0 THEN "no_theses" ELSE "complete"]
  BY DEF FinalizeRun, Step, CloseSession, ledgerVars, evidenceVars
<1>2. /\ thesis_pool \in Seq(Thesis) /\ DOMAIN thesis_pool = 1..Len(thesis_pool)
      /\ Len(thesis_pool) \in Nat
  BY DEF IInv, TypeOK
<1>3. \A t \in DOMAIN thesis_pool : thesis_pool[t].status \in Final
  BY <1>1 DEF Audit, Reported
<1>4. \A t : FindingsOf(t)' = FindingsOf(t)
  BY <1>1 DEF FindingsOf
<1>5. /\ IdsUnique' /\ AnswersMatchRequests' /\ NothingAskedTwice' /\ CounterExact'
      /\ AttemptsWithoutGap' /\ NoneBeforeReview'
  BY <1>1, <1>4 DEF Audit, IdsUnique, AnswersMatchRequests, FinishedRequests,
       NothingAskedTwice, CounterExact, AttemptsWithoutGap, NoneBeforeReview
<1>6. SessionAudited' /\ Reported'
  BY <1>1, <1>3 DEF Audit, SessionAudited, Reported
<1>7. Completed = 1..Len(thesis_pool) /\ Completed' = Completed
  BY <1>1, <1>2, <1>3 DEF Completed
<1>8. Cardinality(Completed) = Len(thesis_pool)
  BY <1>2, <1>7, FS_Interval
<1>9. summary'.stop = "no_theses" <=> thesis_pool = <<>>
  <2>1. thesis_pool # <<>> => input_count # 0
    <3>1. input_count = 0 => DOMAIN thesis_pool = {}
      BY <1>3 DEF Audit, Reported
    <3>2. DOMAIN thesis_pool = {} => Len(thesis_pool) = 0
      BY <1>2
    <3>3. Len(thesis_pool) = 0 => thesis_pool = <<>>
      BY <1>2
    <3> QED
      BY <3>1, <3>2, <3>3
  <2> QED
    BY <1>1, <2>1 DEF Audit, Reported
<1>10. SummaryAccountsForAll'
  BY <1>1, <1>2, <1>7, <1>8, <1>9 DEF Audit, CounterExact, SummaryAccountsForAll
<1>11. HistoryKept
  BY <1>1 DEF HistoryKept, FinishedRequests, Completed
<1> QED
  BY <1>5, <1>6, <1>10, <1>11 DEF Audit

LEMMA StepAudited ==
  ASSUME IInv, Audit, [Next]_vars
  PROVE  Audit' /\ (HistoryKept \/ UNCHANGED vars)
<1>1. CASE Select
  BY <1>1, SelectAudited
<1>2. CASE Review
  BY <1>2, ReviewShape, ClosesAudited, AsksAudited
<1>3. CASE Execute
  BY <1>3, ExecuteShape, AnswersAudited
<1>4. CASE FinalizeRun
  BY <1>4, FinalizeAudited
<1>5. ASSUME pc' \notin {"finalize", "done"} \/ UNCHANGED <<pc, summary>>,
             UNCHANGED <<thesis_pool, session, research_requests, ledgerVars,
                         evidenceVars, input_count, stop_reason>>
      PROVE  Audit' /\ HistoryKept
  <2>1. /\ thesis_pool' = thesis_pool /\ research_requests' = research_requests
        /\ research_findings' = research_findings /\ request_count' = request_count
        /\ evidence_pool' = evidence_pool /\ session' = session
        /\ input_count' = input_count /\ stop_reason' = stop_reason
    BY <1>5 DEF ledgerVars, evidenceVars
  <2>2. \A t : FindingsOf(t)' = FindingsOf(t)
    BY <2>1 DEF FindingsOf
  <2>3. FindingsOf(session.thesis)' = FindingsOf(session.thesis)
    BY <2>1 DEF FindingsOf
  <2>4. /\ IdsUnique' /\ AnswersMatchRequests' /\ NothingAskedTwice' /\ CounterExact'
        /\ AttemptsWithoutGap' /\ NoneBeforeReview'
    BY <2>1, <2>2 DEF Audit, IdsUnique, AnswersMatchRequests, FinishedRequests,
         NothingAskedTwice, CounterExact, AttemptsWithoutGap, NoneBeforeReview
  <2>5. SessionAudited'
    BY <2>1, <2>3 DEF Audit, SessionAudited
  <2>6. Reported' /\ SummaryAccountsForAll'
    BY <1>5, <2>1 DEF Audit, Reported, SummaryAccountsForAll, Completed
  <2>7. HistoryKept
    BY <2>1 DEF HistoryKept, FinishedRequests, Completed
  <2> QED
    BY <2>4, <2>5, <2>6, <2>7 DEF Audit
<1>6. CASE ReviewAborts
  BY <1>5, <1>6 DEF ReviewAborts, Step
<1>7. CASE Ended \/ UNCHANGED vars
  <2>1. UNCHANGED vars
    BY <1>7 DEF Ended
  <2> QED
    BY <1>5, <2>1 DEF vars, ledgerVars, evidenceVars
<1> QED
  BY <1>1, <1>2, <1>3, <1>4, <1>6, <1>7 DEF Next

-----------------------------------------------------------------------------
(* The theorems.                                                           *)

LEMMA AuditInvariance == Spec => [](IInv /\ Audit)
<1>1. Init => IInv /\ Audit
  BY InitInv, InitAudit
<1>2. IInv /\ Audit /\ [Next]_vars => (IInv /\ Audit)'
  BY StepInv, StepAudited
<1> QED
  BY <1>1, <1>2, PTL DEF Spec

\* Requests and findings tell the same story: each finished request is answered
\* once, no thesis is asked a question twice, its attempts are numbered without
\* a gap and within its budget, and the run's counter is exact.
THEOREM EveryRequestIsAnsweredOnce == Spec => []EveryRequestAnsweredOnce
<1>1. Audit => EveryRequestAnsweredOnce
  BY DEF Audit, EveryRequestAnsweredOnce
<1> QED
  BY <1>1, AuditInvariance, PTL

\* A run that reports has decided every thesis and counts all it did.
THEOREM SummaryIsComplete == Spec => []SummaryAccountsForAll
<1>1. Audit => SummaryAccountsForAll
  BY DEF Audit
<1> QED
  BY <1>1, AuditInvariance, PTL

\* No node alters or loses a finding, a record, a finished request or a decided
\* thesis, although the reducers merge by id.
THEOREM HistoryIsKept == Spec => HistoryImmutable
<1>1. IInv /\ Audit /\ [Next]_vars => [HistoryKept]_vars
  BY StepAudited
<1> QED
  BY <1>1, AuditInvariance, PTL DEF Spec, HistoryImmutable
============================================================================
