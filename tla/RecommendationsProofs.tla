------------------------ MODULE RecommendationsProofs ------------------------
(***************************************************************************)
(* Proofs about Recommendations: what the recommendations rest on, what    *)
(* the report says of them and what the log tells of the calls, for any    *)
(* theses, drafts, limits and number of repairs.                           *)
(***************************************************************************)
EXTENDS Recommendations, FiniteSetTheorems, TLAPS

-----------------------------------------------------------------------------
(* The inductive invariant.                                                *)

CallState == {"idle", "waiting", "returned", "raised"}
Stop == {"none", "complete", "no_decision_theses", "thesis_limit_exceeded",
         "context_limit_exceeded", "invalid_state", "model_error", "rejected_output"}
Silent == {"none", "complete", "no_decision_theses"}

CallType == [state: CallState, attempt: Nat, from: Nat, event: Nat,
             category: {"none", "transport_error", "validation_error"}]
EventType == [caller: Caller, attempt: Nat, from: Nat,
              status: {"success", "repaired", "transport_error", "validation_error"}]
CallsTyped == call \in [Caller -> CallType] /\ log \in Seq(EventType)

SummaryType == [stop: Stop, called: BOOLEAN, proposals: Nat]
RecommendationType == [items: SUBSET (UNION Draft), supports: SUBSET EligibleIds,
                       manager: Caller \cup {"none"}]

TypeInv ==
  /\ CallsTyped
  /\ summary \in [Caller -> SummaryType]
  /\ recommendation \in [Caller -> RecommendationType]
  /\ finalized \in BOOLEAN
  /\ debate \in BOOLEAN

About(r, target) == {item \in r.items : item.target = target}

\* What Acceptable and WellFormed leave of a draft that became a recommendation.
Grounds(r) ==
  /\ r.supports # {}
  /\ \A dimension \in Required :
       \E item \in About(r, Scope) :
         {i \in About(r, Scope) : i.dimension = dimension} = {item}
  /\ \A item \in r.items \ About(r, Scope) : \E t \in r.supports : Subject[t] = item.target

\* A manager's node has written its summary, its recommendation and its error
\* together.
NodeAt(m) ==
  /\ recommendation[m] # None <=> summary[m].stop = "complete"
  /\ recommendation[m] # None => /\ recommendation[m].manager = m
                                 /\ call[m].state = "returned"
                                 /\ Grounds(recommendation[m])
  /\ summary[m].stop = "none" <=> summary[m] = NoSummary
  /\ summary[m].stop \notin Silent => errors # {}
  /\ call[m].state = "waiting" => summary[m] = NoSummary /\ Refusal(m) = "none"

NodeInv == \A m \in Caller : NodeAt(m)

\* Where the graph is, and what is in the state there.
StageInv ==
  /\ stage \in {"managers", "finalize", "debate", "compose", "done"}
  /\ stage # "managers" => \A m \in Caller : summary[m] # NoSummary
  /\ stage = "finalize" => ~debate
  /\ stage = "debate" => debate
  /\ stage \in {"managers", "finalize", "debate"} => ~finalized /\ ended = NoDebate
  /\ stage # "done" => report = NoReport
  /\ debate => ~finalized
  /\ ~debate => ended = NoDebate
  /\ ended.consensus <=> ended.assembly = "complete"
  /\ ended.assembly # "none" => Both
  /\ stage \in {"compose", "done"} => /\ ~debate => (finalized <=> Both)
                                      /\ ~Both => errors # {}
  /\ stage = "done" => report = [outcome |-> Outcome, health |-> Health, mode |-> Mode]

Inv == TypeInv /\ NodeInv /\ StageInv

-----------------------------------------------------------------------------
LEMMA Managers == "AGGRESSIVE" \in Caller /\ "CONSERVATIVE" \in Caller /\ "none" \notin Caller
BY RecommendationsAssumption

LEMMA InitInv == Init => Inv
<1> SUFFICES ASSUME Init PROVE Inv
  OBVIOUS
<1>1. TypeInv
  <2>1. call \in [Caller -> CallType]
    BY DEF Init, CallsInit, Idle, NoEvent, CallState, CallType
  <2>2. log \in Seq(EventType)
    BY DEF Init, CallsInit
  <2>3. summary \in [Caller -> SummaryType]
    BY DEF Init, NoSummary, Stop, SummaryType
  <2>4. recommendation \in [Caller -> RecommendationType]
    BY DEF Init, None, RecommendationType
  <2> QED
    BY <2>1, <2>2, <2>3, <2>4 DEF TypeInv, CallsTyped, Init
<1>2. NodeInv
  BY DEF Init, CallsInit, Idle, NodeInv, NodeAt, NoSummary, None, Silent
<1>3. StageInv
  BY DEF Init, StageInv, NoDebate
<1> QED
  BY <1>1, <1>2, <1>3 DEF Inv

\* A well-formed and acceptable draft makes a grounded recommendation.
LEMMA AssembledIsGrounded ==
  ASSUME NEW m \in Caller, NEW d \in Draft, WellFormed(d), Acceptable(d)
  PROVE  /\ Assembled(m, d) \in RecommendationType
         /\ Assembled(m, d) # None
         /\ Grounds(Assembled(m, d))
<1> DEFINE r == Assembled(m, d)
<1>1. /\ r.items = d
      /\ r.supports = UNION {item.cites : item \in d}
      /\ r.manager = m
  BY DEF Assembled
<1>2. r.supports \subseteq EligibleIds
  BY <1>1 DEF Acceptable
<1>3. r \in RecommendationType
  BY <1>2 DEF Assembled, RecommendationType
<1>4. r # None
  BY <1>1, Managers DEF None
<1>5. About(r, Scope) = {item \in d : item.target = Scope}
  BY <1>1 DEF About
<1>6. ASSUME NEW dimension \in Required
      PROVE  \E item \in About(r, Scope) :
               {i \in About(r, Scope) : i.dimension = dimension} = {item}
  <2>1. PICK item \in About(r, Scope) : item.dimension = dimension
    BY <1>5, <1>6 DEF Acceptable
  <2>2. \A i \in About(r, Scope) : i.dimension = dimension => i = item
    BY <1>5, <2>1 DEF WellFormed, Slot
  <2> QED
    BY <2>1, <2>2
<1>7. r.supports # {}
  <2>1. PICK item \in About(r, Scope) : TRUE
    BY <1>6 DEF Required
  <2>2. item \in d /\ item.cites # {}
    BY <2>1, <1>5, RecommendationsAssumption
  <2> QED
    BY <2>2, <1>1
<1>8. ASSUME NEW item \in r.items \ About(r, Scope)
      PROVE  \E t \in r.supports : Subject[t] = item.target
  <2>1. item \in d /\ item.target # Scope
    BY <1>1, <1>5
  <2>2. PICK t \in item.cites : Subject[t] = item.target
    BY <2>1 DEF Acceptable
  <2> QED
    BY <2>1, <2>2, <1>1
<1> QED
  BY <1>3, <1>4, <1>6, <1>7, <1>8 DEF Grounds

-----------------------------------------------------------------------------
(* The managers' steps.                                                    *)

LEMMA InvokeTyped ==
  ASSUME CallsTyped, NEW m \in Caller, Invoke(m)
  PROVE  CallsTyped'
BY DEF CallsTyped, CallType, CallState, Invoke

LEMMA AttemptFailsTyped ==
  ASSUME CallsTyped, NEW m \in Caller,
         NEW category \in {"transport_error", "validation_error"},
         AttemptFails(m, category)
  PROVE  CallsTyped' /\ \A c \in Caller : c # m => call'[c] = call[c]
<1>1. Len(log) + 1 \in Nat
  BY DEF CallsTyped
<1>2. log' \in Seq(EventType)
  <2>1. [caller |-> m, attempt |-> call[m].attempt + 1, status |-> category,
         from |-> NoEvent] \in EventType
    BY DEF CallsTyped, CallType, EventType, NoEvent
  <2> QED
    BY <2>1 DEF AttemptFails, Record, CallsTyped
<1>3. /\ Repaired(m, Len(log) + 1) \in [Caller -> CallType]
      /\ Raised(m, category, Len(log) + 1) \in [Caller -> CallType]
  <2> DEFINE r == call[m]
             again == [r EXCEPT !.attempt = r.attempt + 1, !.from = Len(log) + 1]
             over == [r EXCEPT !.state = "raised", !.category = category,
                               !.event = Len(log) + 1]
  <2>1. r \in CallType
    BY DEF CallsTyped
  <2>2. r.attempt + 1 \in Nat
    BY <2>1 DEF CallType
  <2>3. again \in CallType
    BY <1>1, <2>1, <2>2 DEF CallType
  <2>4. over \in CallType
    BY <1>1, <2>1 DEF CallType, CallState
  <2>5. /\ Repaired(m, Len(log) + 1) = [call EXCEPT ![m] = again]
        /\ Raised(m, category, Len(log) + 1) = [call EXCEPT ![m] = over]
    BY DEF Repaired, Raised
  <2> HIDE DEF again, over
  <2> QED
    BY <2>3, <2>4, <2>5 DEF CallsTyped
<1>4. \A c \in Caller : c # m => call'[c] = call[c]
  BY DEF AttemptFails, Repaired, Raised, CallsTyped
<1> QED
  BY <1>2, <1>3, <1>4 DEF AttemptFails, CallsTyped

LEMMA AttemptSucceedsTyped ==
  ASSUME CallsTyped, NEW m \in Caller, AttemptSucceeds(m)
  PROVE  /\ CallsTyped'
         /\ call'[m].state = "returned"
         /\ \A c \in Caller : c # m => call'[c] = call[c]
<1>1. Len(log) + 1 \in Nat
  BY DEF CallsTyped
<1>2. log' \in Seq(EventType)
  <2>1. [caller |-> m, attempt |-> call[m].attempt + 1,
         status |-> IF call[m].attempt = 0 THEN "success" ELSE "repaired",
         from |-> call[m].from] \in EventType
    BY DEF CallsTyped, CallType, EventType
  <2> QED
    BY <2>1 DEF AttemptSucceeds, Record, CallsTyped
<1>3. call' \in [Caller -> CallType]
  BY <1>1 DEF AttemptSucceeds, CallsTyped, CallType, CallState
<1>4. /\ call'[m].state = "returned"
      /\ \A c \in Caller : c # m => call'[c] = call[c]
  BY DEF AttemptSucceeds, CallsTyped, CallType
<1> QED
  BY <1>2, <1>3, <1>4 DEF CallsTyped

\* While the managers run, nothing else of the graph moves.
LEMMA ManagerStage ==
  ASSUME StageInv, stage = "managers", UNCHANGED otherVars
  PROVE  StageInv'
BY DEF StageInv, otherVars, NoDebate

\* What a manager is refused for does not change while the managers run.
LEMMA RefusalStays ==
  ASSUME UNCHANGED otherVars, NEW m \in Caller
  PROVE  Refusal(m)' = Refusal(m)
BY DEF otherVars, Refusal, EligibleIds

\* A manager that ends without a recommendation, loudly.
LEMMA FailsKeeps ==
  ASSUME TypeInv, NodeInv, NEW m \in Caller, Running(m),
         NEW stop \in Stop \ Silent, NEW called \in BOOLEAN, NEW proposals \in Nat,
         NEW event, Fails(m, stop, called, proposals, event), UNCHANGED otherVars,
         CallsTyped', call'[m].state # "waiting",
         \A c \in Caller : c # m => call'[c] = call[c]
  PROVE  TypeInv' /\ NodeInv'
<1>1. summary' = [summary EXCEPT ![m] = [stop |-> stop, called |-> called,
                                         proposals |-> proposals]]
  BY DEF Fails, Ends
<1>2. summary' \in [Caller -> SummaryType]
  BY <1>1 DEF TypeInv, SummaryType
<1>3. RecommendationType' = RecommendationType
  BY DEF RecommendationType, EligibleIds, otherVars
<1>4. TypeInv'
  BY <1>2, <1>3 DEF TypeInv, Fails, otherVars
<1>5. recommendation' = recommendation /\ errors' # {}
  BY DEF Fails
<1>6. NodeAt(m)'
  <2>1. summary'[m].stop = stop /\ summary'[m] # NoSummary
    BY <1>1 DEF TypeInv, NoSummary, Silent
  <2>2. recommendation[m] = None
    BY DEF NodeInv, NodeAt, Running, NoSummary
  <2> QED
    BY <2>1, <2>2, <1>5 DEF NodeAt, Silent
<1>7. ASSUME NEW c \in Caller, c # m
      PROVE  NodeAt(c)'
  <2>1. summary'[c] = summary[c] /\ call'[c] = call[c]
    BY <1>1, <1>7 DEF TypeInv
  <2>2. NodeAt(c)
    BY DEF NodeInv
  <2>3. Refusal(c)' = Refusal(c)
    BY RefusalStays
  <2> QED
    BY <2>1, <2>2, <2>3, <1>5 DEF NodeAt, Grounds, About
<1> QED
  BY <1>4, <1>6, <1>7 DEF NodeInv

LEMMA AskKeeps ==
  ASSUME Inv, NEW m \in Caller, Ask(m)
  PROVE  Inv'
<1>1. CallsTyped'
  BY InvokeTyped DEF Ask, Inv, TypeInv
<1>2. TypeInv'
  BY <1>1 DEF Ask, Inv, TypeInv, RecommendationType, EligibleIds, resultVars, otherVars
<1>3. ASSUME NEW c \in Caller
      PROVE  NodeAt(c)'
  <2>1. call[c].state = "returned" => call'[c].state = "returned"
    BY DEF Ask, Invoke, Inv, TypeInv, CallsTyped, CallType
  <2>2. c # m => call'[c] = call[c]
    BY DEF Ask, Invoke, Inv, TypeInv, CallsTyped
  <2>3. Refusal(c)' = Refusal(c)
    BY RefusalStays DEF Ask
  <2>4. NodeAt(c)
    BY DEF Inv, NodeInv
  <2>5. c = m => summary[c] = NoSummary /\ Refusal(c) = "none"
    BY DEF Ask, Running
  <2> QED
    BY <2>1, <2>2, <2>3, <2>4, <2>5 DEF Ask, NodeAt, Grounds, About, resultVars
<1>4. StageInv'
  BY ManagerStage DEF Ask, Running, Inv
<1> QED
  BY <1>2, <1>3, <1>4 DEF Inv, NodeInv

LEMMA RefuseKeeps ==
  ASSUME Inv, NEW m \in Caller, Refuse(m)
  PROVE  Inv'
<1>1. CallsTyped' /\ \A c \in Caller : call'[c] = call[c]
  BY DEF Refuse, callVars, Inv, TypeInv, CallsTyped
<1>2. StageInv'
  BY ManagerStage DEF Refuse, Running, Inv
<1>3. call[m].state # "waiting"
  BY DEF Refuse, Inv, NodeInv, NodeAt
<1>4. CASE Refusal(m) # "no_decision_theses"
  <2>1. Refusal(m) \in Stop \ Silent
    BY <1>4 DEF Refuse, Refusal, Stop, Silent
  <2>2. Fails(m, Refusal(m), FALSE, 0, NoEvent) /\ Running(m) /\ UNCHANGED otherVars
    BY <1>4 DEF Refuse
  <2>3. TypeInv' /\ NodeInv'
    BY <1>1, <1>3, <2>1, <2>2, FailsKeeps DEF Inv
  <2> QED
    BY <1>2, <2>3 DEF Inv
<1>5. CASE Refusal(m) = "no_decision_theses"
  <2>1. /\ summary' = [summary EXCEPT ![m] = [stop |-> "no_decision_theses",
                                              called |-> FALSE, proposals |-> 0]]
        /\ recommendation' = recommendation
        /\ errors' = errors
    BY <1>5 DEF Refuse, Ends
  <2>2. summary' \in [Caller -> SummaryType]
    BY <2>1 DEF Inv, TypeInv, SummaryType, Stop
  <2>3. TypeInv'
    BY <1>1, <2>1, <2>2 DEF Inv, TypeInv, RecommendationType, EligibleIds, Refuse, otherVars
  <2>4. NodeAt(m)'
    <3>1. summary'[m].stop = "no_decision_theses" /\ summary'[m] # NoSummary
      BY <2>1 DEF Inv, TypeInv, NoSummary
    <3>2. recommendation[m] = None
      BY DEF Inv, NodeInv, NodeAt, Refuse, Running, NoSummary
    <3> QED
      BY <1>1, <1>3, <2>1, <3>1, <3>2 DEF NodeAt, Silent
  <2>5. ASSUME NEW c \in Caller, c # m
        PROVE  NodeAt(c)'
    <3>1. summary'[c] = summary[c]
      BY <2>1, <2>5 DEF Inv, TypeInv
    <3>2. NodeAt(c)
      BY DEF Inv, NodeInv
    <3>3. Refusal(c)' = Refusal(c)
      BY RefusalStays DEF Refuse
    <3> QED
      BY <1>1, <2>1, <3>1, <3>2, <3>3 DEF NodeAt, Grounds, About
  <2> QED
    BY <1>2, <2>3, <2>4, <2>5 DEF Inv, NodeInv
<1> QED
  BY <1>4, <1>5

\* An attempt that fails, whether it is repaired or ends the node.
LEMMA CallFailsKeeps ==
  ASSUME Inv, NEW m \in Caller, NEW category \in {"transport_error", "validation_error"},
         CallFails(m, category)
  PROVE  Inv'
<1>1. CallsTyped' /\ \A c \in Caller : c # m => call'[c] = call[c]
  BY AttemptFailsTyped DEF CallFails, Inv, TypeInv
<1>2. Running(m) /\ Refusal(m) = "none"
  <2>1. call[m].state = "waiting"
    BY DEF CallFails, AttemptFails
  <2> QED
    BY <2>1 DEF Inv, NodeInv, NodeAt, StageInv, Running
<1>3. StageInv'
  BY <1>2, ManagerStage DEF CallFails, Running, Inv
<1>4. recommendation[m] = None
  BY <1>2 DEF Inv, NodeInv, NodeAt, Running, NoSummary
<1>5. CASE Repairable(m, category)
  <2>1. UNCHANGED resultVars
    BY <1>5 DEF CallFails
  <2>2. TypeInv'
    BY <1>1, <2>1 DEF CallFails, Inv, TypeInv, RecommendationType, EligibleIds,
                      resultVars, otherVars
  <2>3. ASSUME NEW c \in Caller
        PROVE  NodeAt(c)'
    <3>1. NodeAt(c)
      BY DEF Inv, NodeInv
    <3>2. recommendation[c] # None => call'[c] = call[c]
      BY <1>1, <1>4
    <3>3. Refusal(c)' = Refusal(c)
      BY RefusalStays DEF CallFails
    <3>4. call'[c].state = "waiting" => summary[c] = NoSummary /\ Refusal(c) = "none"
      BY <1>1, <1>2, <3>1 DEF NodeAt, Running
    <3> QED
      BY <2>1, <3>1, <3>2, <3>3, <3>4 DEF NodeAt, Grounds, About, resultVars
  <2> QED
    BY <1>3, <2>2, <2>3 DEF Inv, NodeInv
<1>6. CASE ~Repairable(m, category)
  <2>1. PICK event \in {Len(log) + 1, NoEvent} :
          Fails(m, "model_error", TRUE, 0, event) /\ UNCHANGED otherVars
    BY <1>6 DEF CallFails
  <2>2. "model_error" \in Stop \ Silent
    BY DEF Stop, Silent
  <2>3. call'[m].state = "raised"
    BY <1>6 DEF CallFails, AttemptFails, Raised, Inv, TypeInv, CallsTyped, CallType
  <2>4. TypeInv' /\ NodeInv'
    BY <1>1, <1>2, <2>1, <2>2, <2>3, FailsKeeps DEF Inv
  <2> QED
    BY <1>3, <2>4 DEF Inv
<1> QED
  BY <1>5, <1>6

LEMMA AnswerKeeps ==
  ASSUME Inv, NEW m \in Caller, Answer(m)
  PROVE  Inv'
<1>1. PICK d \in {d \in Draft : WellFormed(d)} :
        /\ AttemptSucceeds(m)
        /\ IF Acceptable(d)
           THEN /\ recommendation' = [recommendation EXCEPT ![m] = Assembled(m, d)]
                /\ Ends(m, "complete", TRUE, Cardinality(d))
                /\ UNCHANGED errors
           ELSE Fails(m, "rejected_output", TRUE, Cardinality(d), NoEvent)
        /\ UNCHANGED otherVars
  BY DEF Answer
<1>2. /\ CallsTyped'
      /\ call'[m].state = "returned"
      /\ \A c \in Caller : c # m => call'[c] = call[c]
  BY <1>1, AttemptSucceedsTyped DEF Inv, TypeInv
<1>3. Running(m)
  <2>1. call[m].state = "waiting"
    BY <1>1 DEF AttemptSucceeds
  <2> QED
    BY <2>1 DEF Inv, NodeInv, NodeAt, StageInv, Running
<1>4. StageInv'
  BY <1>1, <1>3, ManagerStage DEF Running, Inv
<1>5. Cardinality(d) \in Nat
  BY FS_CardinalityType, RecommendationsAssumption
<1>6. CASE ~Acceptable(d)
  <2>1. Fails(m, "rejected_output", TRUE, Cardinality(d), NoEvent)
    BY <1>1, <1>6
  <2>2. "rejected_output" \in Stop \ Silent
    BY DEF Stop, Silent
  <2>3. TypeInv' /\ NodeInv'
    BY <1>1, <1>2, <1>3, <1>5, <2>1, <2>2, FailsKeeps DEF Inv
  <2> QED
    BY <1>4, <2>3 DEF Inv
<1>7. CASE Acceptable(d)
  <2> DEFINE r == Assembled(m, d)
             s == [stop |-> "complete", called |-> TRUE, proposals |-> Cardinality(d)]
  <2>1. r \in RecommendationType /\ r # None /\ Grounds(r)
    BY <1>7, AssembledIsGrounded
  <2>2. r.manager = m
    BY DEF Assembled
  <2>3. /\ recommendation' = [recommendation EXCEPT ![m] = r]
        /\ summary' = [summary EXCEPT ![m] = s]
        /\ errors' = errors
    BY <1>1, <1>7 DEF Ends
  <2>4. s \in SummaryType /\ s.stop = "complete" /\ s # NoSummary
    BY <1>5 DEF SummaryType, Stop, NoSummary
  <2> HIDE DEF r, s
  <2>5. recommendation' \in [Caller -> RecommendationType]
    BY <2>1, <2>3 DEF Inv, TypeInv
  <2>6. summary' \in [Caller -> SummaryType]
    BY <2>3, <2>4 DEF Inv, TypeInv
  <2>7. RecommendationType' = RecommendationType
    BY <1>1 DEF RecommendationType, EligibleIds, otherVars
  <2>8. TypeInv'
    BY <1>1, <1>2, <2>5, <2>6, <2>7 DEF Inv, TypeInv, otherVars
  <2>9. recommendation'[m] = r /\ summary'[m] = s
    BY <2>3 DEF Inv, TypeInv
  <2>10. NodeAt(m)'
    <3>1. Grounds(recommendation[m])'
      BY <2>1, <2>9 DEF Grounds, About
    <3> QED
      BY <1>2, <2>1, <2>2, <2>4, <2>9, <3>1 DEF NodeAt, Silent
  <2>11. ASSUME NEW c \in Caller, c # m
         PROVE  NodeAt(c)'
    <3>1. recommendation'[c] = recommendation[c] /\ summary'[c] = summary[c]
      BY <2>3, <2>11 DEF Inv, TypeInv
    <3>2. NodeAt(c) /\ call'[c] = call[c]
      BY <1>2, <2>11 DEF Inv, NodeInv
    <3>3. Refusal(c)' = Refusal(c)
      BY <1>1, RefusalStays
    <3> QED
      BY <2>3, <3>1, <3>2, <3>3 DEF NodeAt, Grounds, About
  <2> QED
    BY <1>4, <2>8, <2>10, <2>11 DEF Inv, NodeInv
<1> QED
  BY <1>6, <1>7

-----------------------------------------------------------------------------
(* The ends of the graph.                                                  *)

\* What the managers left is not touched by the later nodes.
LEMMA ManagersKept ==
  ASSUME TypeInv, NodeInv, errors \subseteq errors',
         UNCHANGED <<callVars, recommendation, summary, theses, lengthy, overlong, debate>>,
         finalized' \in BOOLEAN
  PROVE  TypeInv' /\ NodeInv' /\ Both' = Both
<1>1. TypeInv'
  BY DEF TypeInv, CallsTyped, callVars, RecommendationType, EligibleIds
<1>2. ASSUME NEW m \in Caller
      PROVE  NodeAt(m)'
  <2>1. Refusal(m)' = Refusal(m)
    BY DEF Refusal, EligibleIds
  <2>2. NodeAt(m)
    BY DEF NodeInv
  <2> QED
    BY <2>1, <2>2 DEF NodeAt, Grounds, About, callVars
<1> QED
  BY <1>1, <1>2 DEF NodeInv, Both

LEMMA JoinKeeps ==
  ASSUME Inv, Join
  PROVE  Inv'
<1>1. TypeInv' /\ NodeInv'
  BY ManagersKept DEF Join, Inv, TypeInv, resultVars
<1>2. StageInv'
  BY DEF Join, Inv, TypeInv, StageInv, NoDebate, resultVars
<1> QED
  BY <1>1, <1>2 DEF Inv

\* Each of two recommendations has its manager's name, and none has that of none.
LEMMA BothNamed ==
  ASSUME NodeInv
  PROVE  Both <=> \A m \in Caller : recommendation[m].manager = m
BY Managers DEF Both, NodeInv, NodeAt, None

LEMMA FinalizeKeeps ==
  ASSUME Inv, Finalize
  PROVE  Inv'
<1>1. /\ stage = "finalize"
      /\ stage' = "compose"
      /\ UNCHANGED <<callVars, theses, lengthy, overlong, debate, recommendation, summary,
                     ended, report>>
      /\ Both => finalized' = TRUE /\ errors' = errors
      /\ ~Both => errors' = errors \cup {Error("finalizer", NoEvent)} /\ finalized' = finalized
  BY BothNamed DEF Finalize, Inv
<1>2. finalized = FALSE /\ ~debate /\ ended = NoDebate /\ report = NoReport
  BY <1>1 DEF Inv, StageInv, TypeInv
<1>3. /\ finalized' \in BOOLEAN
      /\ finalized' <=> Both
      /\ errors \subseteq errors'
      /\ ~Both => errors' # {}
  <2>1. CASE Both
    BY <1>1, <2>1
  <2>2. CASE ~Both
    BY <1>1, <1>2, <2>2
  <2> QED
    BY <2>1, <2>2
<1>4. TypeInv' /\ NodeInv' /\ Both' = Both
  BY <1>1, <1>3, ManagersKept DEF Inv
<1>5. \A m \in Caller : summary'[m] # NoSummary
  BY <1>1 DEF Inv, StageInv
<1>6. StageInv'
  BY <1>1, <1>2, <1>3, <1>4, <1>5 DEF StageInv, NoDebate
<1> QED
  BY <1>4, <1>6 DEF Inv

LEMMA DebateKeeps ==
  ASSUME Inv, Debate
  PROVE  Inv'
<1>1. PICK e \in DebateEnd :
        /\ ~Both => e = NoDebate
        /\ ended' = e
        /\ errors' \in IF e.assembly \in {"complete", "no_actionable_consensus"}
                       THEN {errors}
                       ELSE {errors \cup {Error("debate", NoEvent)}} \cup
                            IF Both /\ ~e.gate THEN {errors} ELSE {}
  BY DEF Debate
<1>2. /\ stage = "debate"
      /\ stage' = "compose"
      /\ UNCHANGED <<callVars, theses, lengthy, overlong, debate, recommendation, summary,
                     finalized, report>>
  BY DEF Debate
<1>3. debate /\ ~finalized /\ report = NoReport /\ \A m \in Caller : summary'[m] # NoSummary
  BY <1>2 DEF Inv, StageInv
<1>4. errors \subseteq errors' /\ (~Both => errors' # {})
  BY <1>1 DEF NoDebate
<1>5. e.consensus <=> e.assembly = "complete"
  <2>1. CASE e \in {[gate |-> g, assembly |-> "none", consensus |-> FALSE] : g \in BOOLEAN}
    BY <2>1
  <2>2. CASE e \in {[gate |-> TRUE, assembly |-> stop, consensus |-> stop = "complete"] :
                     stop \in {"complete", "no_actionable_consensus", "model_error"}}
    <3>1. PICK stop \in {"complete", "no_actionable_consensus", "model_error"} :
            e = [gate |-> TRUE, assembly |-> stop, consensus |-> stop = "complete"]
      BY <2>2
    <3>2. CASE stop = "complete"
      BY <3>1, <3>2
    <3>3. CASE stop # "complete"
      BY <3>1, <3>3
    <3> QED
      BY <3>2, <3>3
  <2> QED
    BY <2>1, <2>2 DEF DebateEnd
<1>6. e.assembly # "none" => Both
  BY <1>1 DEF NoDebate
<1>7. TypeInv' /\ NodeInv' /\ Both' = Both
  BY <1>2, <1>4, ManagersKept DEF Inv, TypeInv
<1>8. StageInv'
  BY <1>1, <1>2, <1>3, <1>4, <1>5, <1>6, <1>7 DEF StageInv
<1> QED
  BY <1>7, <1>8 DEF Inv

\* The composer and the report's own model agree on the outcome: a finalized run
\* has had no debate.
LEMMA OutcomeExpected ==
  ASSUME Inv, stage = "compose"
  PROVE  Outcome = Expected
<1>1. finalized => ended = NoDebate /\ Both
  BY DEF Inv, StageInv
<1>2. CASE finalized
  <2>1. Mode = "DUAL_INDEPENDENT"
    BY <1>2 DEF Mode
  <2> QED
    BY <1>1, <1>2, <2>1 DEF Outcome, Expected, NoDebate
<1>3. CASE ~finalized
  <2>1. Mode # "DUAL_INDEPENDENT"
    BY <1>3 DEF Mode
  <2>2. CASE Both /\ ended.consensus
    BY <2>1, <2>2 DEF Outcome, Expected
  <2>3. CASE ~(Both /\ ended.consensus)
    BY <2>1, <2>3 DEF Outcome, Expected
  <2> QED
    BY <2>2, <2>3
<1> QED
  BY <1>2, <1>3 DEF Inv, TypeInv

LEMMA ComposeKeeps ==
  ASSUME Inv, Compose
  PROVE  Inv'
<1>1. Outcome = Expected
  BY OutcomeExpected DEF Compose
<1>2. /\ stage = "compose"
      /\ stage' = "done"
      /\ report' = [outcome |-> Outcome, health |-> Health, mode |-> Mode]
      /\ UNCHANGED <<callVars, theses, lengthy, overlong, debate, resultVars, finalized, ended>>
  BY <1>1 DEF Compose
<1>3. TypeInv' /\ NodeInv' /\ Both' = Both
  BY <1>2, ManagersKept DEF Inv, TypeInv, resultVars
<1>4. Mode' = Mode
  BY <1>2 DEF Mode
<1>5. Outcome' = Outcome
  BY <1>2, <1>3, <1>4 DEF Outcome
<1>6. Health' = Health
  BY <1>2 DEF Health, Warned, resultVars
<1>7. StageInv'
  BY <1>2, <1>3, <1>4, <1>5, <1>6 DEF Inv, StageInv, resultVars
<1> QED
  BY <1>3, <1>7 DEF Inv

LEMMA StutterKeeps ==
  ASSUME Inv, UNCHANGED vars
  PROVE  Inv'
<1>1. TypeInv' /\ NodeInv' /\ Both' = Both
  BY ManagersKept DEF Inv, TypeInv, vars, resultVars
<1>2. Mode' = Mode /\ Outcome' = Outcome /\ Health' = Health
  BY <1>1 DEF vars, resultVars, Mode, Outcome, Health, Warned
<1>3. StageInv'
  BY <1>1, <1>2 DEF Inv, StageInv, vars, resultVars
<1> QED
  BY <1>1, <1>3 DEF Inv

LEMMA StepInv == Inv /\ [Next]_vars => Inv'
<1> SUFFICES ASSUME Inv, [Next]_vars
             PROVE  Inv'
  OBVIOUS
<1>1. ASSUME NEW m \in Caller,
             Ask(m) \/ Refuse(m) \/ TransportFails(m) \/ AnswerInvalid(m) \/ Answer(m)
      PROVE  Inv'
  <2>1. CASE Ask(m)
    BY <2>1, AskKeeps
  <2>2. CASE Refuse(m)
    BY <2>2, RefuseKeeps
  <2>3. CASE TransportFails(m)
    BY <2>3, CallFailsKeeps DEF TransportFails
  <2>4. CASE AnswerInvalid(m)
    BY <2>4, CallFailsKeeps DEF AnswerInvalid
  <2>5. CASE Answer(m)
    BY <2>5, AnswerKeeps
  <2> QED
    BY <1>1, <2>1, <2>2, <2>3, <2>4, <2>5
<1>2. CASE Join
  BY <1>2, JoinKeeps
<1>3. CASE Finalize
  BY <1>3, FinalizeKeeps
<1>4. CASE Debate
  BY <1>4, DebateKeeps
<1>5. CASE Compose
  BY <1>5, ComposeKeeps
<1>6. CASE UNCHANGED vars
  BY <1>6, StutterKeeps
<1> QED
  BY <1>1, <1>2, <1>3, <1>4, <1>5, <1>6 DEF Next

\* In every state the inductive invariant holds.
THEOREM Invariance == Spec => []Inv
BY InitInv, StepInv, PTL DEF Spec

-----------------------------------------------------------------------------
(* What it gives.                                                          *)

LEMMA GroundedFromInv == Inv => RecommendationsGrounded
<1> SUFFICES ASSUME Inv, NEW m \in Caller
             PROVE  LET r == recommendation[m]
                        about(target) == {item \in r.items : item.target = target}
                    IN  /\ r # None <=> summary[m].stop = "complete"
                        /\ r # None =>
                             /\ r.manager = m
                             /\ call[m].state = "returned"
                             /\ r.supports # {}
                             /\ \A t \in r.supports : t \in DOMAIN theses /\ theses[t] \in Eligible
                             /\ \A dimension \in Required :
                                  \E item \in about(Scope) :
                                    {i \in about(Scope) : i.dimension = dimension} = {item}
                             /\ \A item \in r.items \ about(Scope) :
                                  \E t \in r.supports : Subject[t] = item.target
  BY DEF RecommendationsGrounded
<1>1. NodeAt(m)
  BY DEF Inv, NodeInv
<1>2. recommendation[m].supports \subseteq EligibleIds
  BY DEF Inv, TypeInv, RecommendationType
<1> QED
  BY <1>1, <1>2 DEF NodeAt, Grounds, About, EligibleIds

\* A recommendation rests on supported theses about its targets, settles the
\* required dimensions of the research target once each, and is there exactly when
\* the manager's node completed (portfolio_recommendation.py, _draft_error).
THEOREM Grounded == Spec => []RecommendationsGrounded
BY Invariance, GroundedFromInv, PTL

LEMMA ReportFromInv == Inv => ReportTellsTheRun
<1> SUFFICES ASSUME Inv, report # NoReport
             PROVE
       /\ report.outcome = "DUAL_RECOMMENDATIONS_READY" <=> ~debate /\ Both
       /\ report.outcome = "CONSENSUS_READY" <=> ended.assembly = "complete"
       /\ report.outcome = "NO_ACTIONABLE_CONSENSUS"
            <=> ended.assembly = "no_actionable_consensus"
       /\ ~Both => report.outcome = "INCOMPLETE" /\ report.health = "WITH_ERRORS"
       /\ report.health = "CLEAN" =>
            \A m \in Caller : /\ summary[m].stop = "complete"
                              /\ call[m].state = "returned"
  BY DEF ReportTellsTheRun, Inv, StageInv
<1>1. stage = "done" /\ report.outcome = Outcome /\ report.health = Health
  BY DEF Inv, StageInv
<1>2. /\ ~debate => (finalized <=> Both) /\ ended = NoDebate
      /\ debate => ~finalized
      /\ ended.consensus <=> ended.assembly = "complete"
      /\ ended.assembly # "none" => Both
      /\ ~Both => errors # {}
  BY <1>1 DEF Inv, StageInv
<1>3. CASE finalized
  <2>1. Mode = "DUAL_INDEPENDENT"
    BY <1>3 DEF Mode
  <2>2. ~debate /\ Both /\ ended.assembly = "none"
    BY <1>2, <1>3 DEF NoDebate
  <2>3. Outcome = "DUAL_RECOMMENDATIONS_READY"
    BY <2>1, <2>2 DEF Outcome
  <2>4. QED
    BY <1>1, <2>2, <2>3 DEF Both, Inv, NodeInv, NodeAt
<1>4. CASE ~finalized
  <2>1. Mode # "DUAL_INDEPENDENT"
    BY <1>4 DEF Mode
  <2>2. /\ Outcome = "CONSENSUS_READY" <=> Both /\ ended.consensus
        /\ Outcome = "NO_ACTIONABLE_CONSENSUS"
             <=> Both /\ ~ended.consensus /\ ended.assembly = "no_actionable_consensus"
        /\ Outcome # "DUAL_RECOMMENDATIONS_READY"
        /\ ~Both => Outcome = "INCOMPLETE"
    <3>1. CASE Both /\ ended.consensus
      BY <2>1, <3>1 DEF Outcome
    <3>2. CASE ~(Both /\ ended.consensus)
      BY <2>1, <3>2 DEF Outcome
    <3> QED
      BY <3>1, <3>2
  <2>3. Health = "CLEAN" => errors = {}
    BY DEF Health
  <2>4. ~Both => Health = "WITH_ERRORS"
    BY <1>2 DEF Health
  <2>5. debate \/ ~Both
    BY <1>2, <1>4
  <2> QED
    BY <1>1, <1>2, <2>2, <2>3, <2>4, <2>5 DEF Both, Inv, NodeInv, NodeAt
<1> QED
  BY <1>3, <1>4 DEF Inv, TypeInv

\* The report is never refused by its own model, its outcome is the one the run
\* came to, and it is clean only if both managers answered and completed
\* (report_composer.py, reporting/models.py).
THEOREM Truthful == Spec => []ReportTellsTheRun
BY Invariance, ReportFromInv, PTL

-----------------------------------------------------------------------------
(* The log of the calls.                                                   *)

\* The attempts of a call that goes on have all failed the validation, and the
\* next one repairs the last of them.
Retrying(m) ==
  /\ Attempts(m, call[m].attempt)
  /\ call[m].attempt <= RepairAttempts
  /\ \A n \in EventsOf(m) : log[n].status = "validation_error"
  /\ call[m].attempt > 0 => Names(m, call[m].from, call[m].attempt, "validation_error")

CallAt(m) ==
  /\ call[m].state = "idle" => EventsOf(m) = {} /\ call[m] = Idle
  /\ call[m].state = "waiting" => Retrying(m)
  /\ call[m].state \in {"returned", "raised"} => Audited(m)

\* A manager's error names the end of its call, or nothing.
ErrorsAt(m) ==
  /\ call[m].state = "raised" => /\ summary[m].stop = "model_error"
                                 /\ \E error \in errors : error.node = m
  /\ \A error \in errors :
       error.node = m /\ error.event # NoEvent =>
         call[m].state = "raised" /\ error.event = call[m].event

AuditInv == \A m \in Caller : CallAt(m) /\ ErrorsAt(m)

LEMMA InitAudit == Init => AuditInv
<1> SUFFICES ASSUME Init, NEW m \in Caller
             PROVE  CallAt(m) /\ ErrorsAt(m)
  BY DEF AuditInv
<1>1. call[m] = Idle /\ log = <<>> /\ errors = {}
  BY DEF Init, CallsInit
<1>2. EventsOf(m) = {}
  BY <1>1 DEF EventsOf
<1>3. call[m].state = "idle"
  BY <1>1 DEF Idle
<1> QED
  BY <1>1, <1>2, <1>3 DEF CallAt, ErrorsAt

\* The event an attempt records comes after all others.
LEMMA Recorded ==
  ASSUME CallsTyped, NEW m \in Caller, NEW status, NEW from, Record(m, status, from)
  PROVE  /\ Len(log) + 1 \in DOMAIN log'
         /\ log'[Len(log) + 1].caller = m
         /\ log'[Len(log) + 1].attempt = call[m].attempt + 1
         /\ log'[Len(log) + 1].status = status
         /\ log'[Len(log) + 1].from = from
         /\ \A n \in DOMAIN log : n \in Nat /\ n < Len(log) + 1
                                  /\ n \in DOMAIN log' /\ log'[n] = log[n]
         /\ \A n \in DOMAIN log' : n \in DOMAIN log \/ n = Len(log) + 1
<1> DEFINE e == [caller |-> m, attempt |-> call[m].attempt + 1, status |-> status,
                 from |-> from]
<1>1. log' = Append(log, e)
  BY DEF Record
<1>2. log \in Seq(EventType)
  BY DEF CallsTyped
<1>3. /\ e.caller = m
      /\ e.attempt = call[m].attempt + 1
      /\ e.status = status
      /\ e.from = from
  OBVIOUS
<1> HIDE DEF e
<1>4. log'[Len(log) + 1] = e
  BY <1>1, <1>2
<1>5. /\ Len(log) + 1 \in DOMAIN log'
      /\ \A n \in DOMAIN log : n \in Nat /\ n < Len(log) + 1
                               /\ n \in DOMAIN log' /\ log'[n] = log[n]
      /\ \A n \in DOMAIN log' : n \in DOMAIN log \/ n = Len(log) + 1
  BY <1>1, <1>2
<1> QED
  BY <1>3, <1>4, <1>5

LEMMA EventsRecorded ==
  ASSUME CallsTyped, NEW m \in Caller, NEW status, NEW from, Record(m, status, from)
  PROVE  /\ EventsOf(m)' = EventsOf(m) \cup {Len(log) + 1}
         /\ \A c \in Caller : c # m => EventsOf(c)' = EventsOf(c)
         /\ \A c \in Caller : EventsOf(c) \subseteq DOMAIN log
<1>1. log'[Len(log) + 1].caller = m
  BY Recorded
<1> QED
  BY <1>1, Recorded DEF EventsOf

\* What the log told of another caller it tells still.
LEMMA OthersKept ==
  ASSUME CallsTyped, NEW m \in Caller, NEW status, NEW from, Record(m, status, from),
         NEW c \in Caller, c # m, call'[c] = call[c], CallAt(c)
  PROVE  CallAt(c)'
<1>1. EventsOf(c)' = EventsOf(c)
  BY EventsRecorded
<1>2. \A n \in EventsOf(c) : log'[n] = log[n]
  BY Recorded, EventsRecorded
<1>3. \A k : Attempts(c, k) => Attempts(c, k)'
  BY <1>1, <1>2 DEF Attempts
<1>4. \A e, k, status_ : Names(c, e, k, status_) => Names(c, e, k, status_)'
  BY <1>1, <1>2 DEF Names
<1>5. Retrying(c) => Retrying(c)'
  BY <1>1, <1>2, <1>3, <1>4 DEF Retrying
<1>6. Audited(c) => Audited(c)'
  BY <1>1, <1>2, <1>3, <1>4 DEF Audited
<1> QED
  BY <1>1, <1>5, <1>6 DEF CallAt

\* One more attempt is the next one.
LEMMA AttemptsRecorded ==
  ASSUME CallsTyped, NEW m \in Caller, NEW status, NEW from, Record(m, status, from),
         NEW k \in Nat, k = call[m].attempt, Attempts(m, k)
  PROVE  Attempts(m, k + 1)'
<1> DEFINE N == Len(log) + 1
<1>1. PICK E : E = EventsOf(m)
  OBVIOUS
<1>2. EventsOf(m)' = E \cup {N}
  BY <1>1, EventsRecorded
<1>3. \A n \in E : n \in Nat /\ n < N /\ log'[n] = log[n] /\ n # N
  BY <1>1, Recorded, EventsRecorded
<1>4. log'[N].attempt = k + 1
  BY Recorded
<1>5. {log[n].attempt : n \in E} = 1..k
  BY <1>1 DEF Attempts
<1>6. \A n \in E : log[n].attempt \in 1..k
  BY <1>5
<1>7. \A n, p \in E : n < p <=> log[n].attempt < log[p].attempt
  BY <1>1 DEF Attempts
<1>8. {log'[n].attempt : n \in E \cup {N}} = 1..k + 1
  <2>1. {log'[n].attempt : n \in E \cup {N}} = {log[n].attempt : n \in E} \cup {k + 1}
    BY <1>3, <1>4
  <2>2. (1..k) \cup {k + 1} = 1..k + 1
    OBVIOUS
  <2> QED
    BY <1>5, <2>1, <2>2
<1>9. ASSUME NEW n \in E \cup {N}, NEW p \in E \cup {N}
       PROVE  n < p <=> log'[n].attempt < log'[p].attempt
  <2>1. N \in Nat
    BY DEF CallsTyped
  <2>2. CASE n \in E /\ p \in E
    BY <1>3, <1>7, <2>2
  <2>3. CASE n = N /\ p \in E
    BY <1>3, <1>4, <1>6, <2>1, <2>3
  <2>4. CASE n \in E /\ p = N
    BY <1>3, <1>4, <1>6, <2>1, <2>4
  <2>5. CASE n = N /\ p = N
    BY <1>4, <2>1, <2>5
  <2> QED
    BY <2>2, <2>3, <2>4, <2>5
<1>10. \A n, p \in EventsOf(m)' : n < p <=> log'[n].attempt < log'[p].attempt
  BY <1>2, <1>9
<1> QED
  BY <1>2, <1>8, <1>10 DEF Attempts


\* What the log told of the call's own attempts it tells still.
LEMMA OwnKept ==
  ASSUME CallsTyped, NEW m \in Caller, NEW status, NEW from, Record(m, status, from),
         Retrying(m), NEW k \in Nat, k = call[m].attempt
  PROVE  /\ Len(log) + 1 \in EventsOf(m)'
         /\ Attempts(m, k + 1)'
         /\ k <= RepairAttempts
         /\ \A n \in EventsOf(m)' : n # Len(log) + 1 => log'[n].status = "validation_error"
         /\ \A e : k > 0 /\ e = call[m].from => Names(m, e, k, "validation_error")'
         /\ log'[Len(log) + 1].attempt = k + 1
         /\ log'[Len(log) + 1].status = status
         /\ log'[Len(log) + 1].from = from
<1>1. /\ EventsOf(m)' = EventsOf(m) \cup {Len(log) + 1}
      /\ \A n \in EventsOf(m) : log'[n] = log[n]
  BY Recorded, EventsRecorded
<1>2. Attempts(m, k + 1)'
  BY AttemptsRecorded DEF Retrying
<1>3. \A e : Names(m, e, k, "validation_error") => Names(m, e, k, "validation_error")'
  BY <1>1 DEF Names
<1> QED
  BY <1>1, <1>2, <1>3, Recorded DEF Retrying

LEMMA AttemptFailsAudit ==
  ASSUME CallsTyped, NEW m \in Caller, CallAt(m),
         NEW category \in {"transport_error", "validation_error"},
         AttemptFails(m, category)
  PROVE  /\ CallAt(m)'
         /\ Repairable(m, category) => call'[m].state = "waiting"
         /\ ~Repairable(m, category) => /\ call'[m].state = "raised"
                                        /\ call'[m].event = Len(log) + 1
<1> PICK N \in Nat : N = Len(log) + 1
  BY DEF CallsTyped
<1>1. PICK k \in Nat : k = call[m].attempt
  BY DEF CallsTyped, CallType
<1>2. call[m].state = "waiting" /\ Retrying(m) /\ Record(m, category, NoEvent)
  BY DEF AttemptFails, CallAt
<1>3. /\ N \in EventsOf(m)'
      /\ Attempts(m, k + 1)'
      /\ k <= RepairAttempts
      /\ \A n \in EventsOf(m)' : n # N => log'[n].status = "validation_error"
      /\ log'[N].attempt = k + 1
      /\ log'[N].status = category
  BY <1>1, <1>2, OwnKept
<1>4. N \in Nat /\ RepairAttempts \in Nat
  BY CallsAssumption DEF CallsTyped
<1>5. CASE Repairable(m, category)
  <2>1. category = "validation_error" /\ k < RepairAttempts
    BY <1>1, <1>5 DEF Repairable
  <2>2. /\ call'[m].state = "waiting"
        /\ call'[m].attempt = k + 1
        /\ call'[m].from = N
    BY <1>1, <1>2, <1>5 DEF AttemptFails, Repaired, CallsTyped, CallType
  <2>3. Names(m, N, k + 1, "validation_error")'
    BY <1>3, <2>1 DEF Names
  <2>4. Retrying(m)'
    BY <1>3, <1>4, <2>1, <2>2, <2>3 DEF Retrying
  <2> QED
    BY <1>5, <2>2, <2>4 DEF CallAt
<1>6. CASE ~Repairable(m, category)
  <2>1. category = "validation_error" => k + 1 = RepairAttempts + 1
    BY <1>1, <1>3, <1>4, <1>6 DEF Repairable
  <2>2. /\ call'[m].state = "raised"
        /\ call'[m].event = N
        /\ call'[m].category = category
    BY <1>6 DEF AttemptFails, Raised, CallsTyped, CallType
  <2>3. k + 1 <= RepairAttempts + 1
    BY <1>3, <1>4
  <2>4. Audited(m)'
    BY <1>3, <2>1, <2>2, <2>3 DEF Audited
  <2> QED
    BY <1>6, <2>2, <2>4 DEF CallAt
<1> QED
  BY <1>5, <1>6

LEMMA AttemptSucceedsAudit ==
  ASSUME CallsTyped, NEW m \in Caller, CallAt(m), AttemptSucceeds(m)
  PROVE  CallAt(m)'
<1> PICK N \in Nat : N = Len(log) + 1
  BY DEF CallsTyped
<1>1. PICK k \in Nat : k = call[m].attempt
  BY DEF CallsTyped, CallType
<1>2. PICK from : from = call[m].from
  OBVIOUS
<1>3. PICK status : status = IF k = 0 THEN "success" ELSE "repaired"
  OBVIOUS
<1>4. call[m].state = "waiting" /\ Retrying(m) /\ Record(m, status, from)
  BY <1>1, <1>2, <1>3 DEF AttemptSucceeds, CallAt
<1>5. /\ N \in EventsOf(m)'
      /\ Attempts(m, k + 1)'
      /\ k <= RepairAttempts
      /\ \A n \in EventsOf(m)' : n # N => log'[n].status = "validation_error"
      /\ k > 0 => Names(m, from, k, "validation_error")'
      /\ log'[N].attempt = k + 1
      /\ log'[N].status = status
      /\ log'[N].from = from
  BY <1>1, <1>2, <1>4, OwnKept
<1>6. /\ call'[m].state = "returned"
      /\ call'[m].event = N
  BY DEF AttemptSucceeds, CallsTyped, CallType
<1>7. /\ k + 1 <= RepairAttempts + 1
      /\ k + 1 = 1 <=> k = 0
      /\ k + 1 > 1 => k > 0
      /\ (k + 1) - 1 = k
  BY <1>5, CallsAssumption
<1>8. status = IF k + 1 = 1 THEN "success" ELSE "repaired"
  BY <1>3, <1>7
<1>9. k + 1 > 1 => Names(m, from, (k + 1) - 1, "validation_error")'
  BY <1>5, <1>7
<1>10. Audited(m)'
  BY <1>5, <1>6, <1>7, <1>8, <1>9 DEF Audited
<1> QED
  BY <1>6, <1>10 DEF CallAt


\* A step that leaves the calls alone, and adds no error that names an event.
LEMMA QuietAudit ==
  ASSUME AuditInv, UNCHANGED callVars, errors \subseteq errors',
         \A error \in errors' : error \in errors \/ error.event = NoEvent,
         \A c \in Caller : call[c].state = "raised" => summary'[c] = summary[c]
  PROVE  AuditInv'
<1> SUFFICES ASSUME NEW c \in Caller
             PROVE  CallAt(c)' /\ ErrorsAt(c)'
  BY DEF AuditInv
<1>1. CallAt(c) /\ ErrorsAt(c) /\ call' = call /\ log' = log
  BY DEF AuditInv, callVars
<1>2. /\ EventsOf(c)' = EventsOf(c)
      /\ Retrying(c) => Retrying(c)'
      /\ Audited(c) => Audited(c)'
  BY <1>1 DEF EventsOf, Retrying, Audited, Attempts, Names
<1> QED
  BY <1>1, <1>2 DEF CallAt, ErrorsAt

\* The errors of a manager whose call has not ended name no event, and while one
\* manager moves the other's errors stay what they are.
LEMMA ErrorsStep ==
  ASSUME AuditInv, NEW m \in Caller, call[m].state # "raised", call'[m].state # "raised",
         \A c \in Caller : c # m => call'[c] = call[c] /\ summary'[c] = summary[c],
         errors \subseteq errors',
         \A error \in errors' : error \in errors \/ error = Error(m, NoEvent)
  PROVE  \A c \in Caller : ErrorsAt(c)'
<1> SUFFICES ASSUME NEW c \in Caller
             PROVE  ErrorsAt(c)'
  OBVIOUS
<1>1. ErrorsAt(c)
  BY DEF AuditInv
<1>2. \A error \in errors' : error \in errors \/ error.event = NoEvent
  BY DEF Error
<1> QED
  BY <1>1, <1>2 DEF ErrorsAt

LEMMA AskAudit ==
  ASSUME Inv, AuditInv, NEW m \in Caller, Ask(m)
  PROVE  AuditInv'
<1>1. /\ call[m].state = "idle"
      /\ call' = [call EXCEPT ![m].state = "waiting"]
      /\ log' = log /\ summary' = summary /\ errors' = errors
  BY DEF Ask, Invoke, resultVars
<1>2. CallsTyped /\ CallAt(m)
  BY DEF Inv, TypeInv, AuditInv
<1>3. /\ \A c \in Caller : EventsOf(c)' = EventsOf(c)
      /\ \A c \in Caller : c # m => call'[c] = call[c]
      /\ call'[m].state = "waiting"
  BY <1>1, <1>2 DEF EventsOf, CallsTyped, CallType
<1>4. EventsOf(m)' = {} /\ call'[m].attempt = 0
  BY <1>1, <1>2, <1>3 DEF CallAt, Idle, CallsTyped
<1>5. CallAt(m)'
  <2>1. 0 <= RepairAttempts /\ 1..0 = {}
    BY CallsAssumption
  <2>2. Retrying(m)'
    BY <1>4, <2>1 DEF Retrying, Attempts
  <2> QED
    BY <1>3, <2>2 DEF CallAt
<1>6. ASSUME NEW c \in Caller, c # m
      PROVE  CallAt(c)'
  <2>1. CallAt(c) /\ call'[c] = call[c] /\ EventsOf(c)' = EventsOf(c) /\ log' = log
    BY <1>1, <1>3, <1>6 DEF AuditInv
  <2>2. (Retrying(c) => Retrying(c)') /\ (Audited(c) => Audited(c)')
    BY <2>1 DEF Retrying, Audited, Attempts, Names
  <2> QED
    BY <2>1, <2>2 DEF CallAt
<1>7. \A c \in Caller : ErrorsAt(c)'
  BY <1>1, <1>3, ErrorsStep
<1> QED
  BY <1>5, <1>6, <1>7 DEF AuditInv

LEMMA RefuseAudit ==
  ASSUME Inv, AuditInv, NEW m \in Caller, Refuse(m)
  PROVE  AuditInv'
<1>1. /\ errors' = errors \/ errors' = errors \cup {Error(m, NoEvent)}
      /\ \A c \in Caller : c # m => summary'[c] = summary[c]
  BY DEF Refuse, Fails, Ends, Inv, TypeInv
<1>2. call[m].state # "raised"
  BY DEF Refuse, Running, NoSummary, AuditInv, ErrorsAt
<1> QED
  BY <1>1, <1>2, QuietAudit DEF Refuse, Error

LEMMA CallFailsAudit ==
  ASSUME Inv, AuditInv, NEW m \in Caller, NEW category \in {"transport_error", "validation_error"},
         CallFails(m, category)
  PROVE  AuditInv'
<1>1. /\ CallsTyped
      /\ AttemptFails(m, category)
      /\ call[m].state = "waiting"
      /\ Record(m, category, NoEvent)
      /\ \A c \in Caller : CallAt(c) /\ ErrorsAt(c)
  BY DEF CallFails, AttemptFails, Inv, TypeInv, AuditInv
<1>2. /\ CallAt(m)'
      /\ Repairable(m, category) => call'[m].state = "waiting"
      /\ ~Repairable(m, category) => /\ call'[m].state = "raised"
                                     /\ call'[m].event = Len(log) + 1
  BY <1>1, AttemptFailsAudit
<1>3. \A c \in Caller : c # m => call'[c] = call[c]
  BY <1>1, AttemptFailsTyped
<1>4. \A c \in Caller : CallAt(c)'
  BY <1>1, <1>2, <1>3, OthersKept
<1>5. CASE Repairable(m, category)
  <2>1. errors' = errors /\ summary' = summary
    BY <1>5 DEF CallFails, resultVars
  <2>2. \A c \in Caller : ErrorsAt(c)'
    BY <1>1, <1>2, <1>3, <1>5, <2>1, ErrorsStep
  <2> QED
    BY <1>4, <2>2 DEF AuditInv
<1>6. CASE ~Repairable(m, category)
  <2>1. PICK event \in {Len(log) + 1, NoEvent} : Fails(m, "model_error", TRUE, 0, event)
    BY <1>6 DEF CallFails
  <2>2. /\ errors' = errors \cup {Error(m, event)}
        /\ summary'[m].stop = "model_error"
        /\ \A c \in Caller : c # m => summary'[c] = summary[c]
    BY <2>1 DEF Fails, Ends, Inv, TypeInv
  <2>3. Error(m, event).node = m /\ Error(m, event).event = event
    BY DEF Error
  <2>4. ErrorsAt(m)'
    BY <1>1, <1>2, <1>6, <2>2, <2>3 DEF ErrorsAt
  <2>5. ASSUME NEW c \in Caller, c # m
        PROVE  ErrorsAt(c)'
    BY <1>1, <1>3, <2>2, <2>3, <2>5 DEF ErrorsAt
  <2> QED
    BY <1>4, <2>4, <2>5 DEF AuditInv
<1> QED
  BY <1>5, <1>6

LEMMA AnswerAudit ==
  ASSUME Inv, AuditInv, NEW m \in Caller, Answer(m)
  PROVE  AuditInv'
<1>1. AttemptSucceeds(m)
  BY DEF Answer
<1>2. /\ CallsTyped
      /\ call[m].state = "waiting"
      /\ \A c \in Caller : CallAt(c)
  BY <1>1 DEF AttemptSucceeds, Inv, TypeInv, AuditInv
<1>3. /\ call'[m].state = "returned"
      /\ \A c \in Caller : c # m => call'[c] = call[c]
  BY <1>1, <1>2, AttemptSucceedsTyped
<1>4. ASSUME NEW c \in Caller, c # m
      PROVE  CallAt(c)'
  <2>1. PICK status, from : Record(m, status, from)
    BY <1>1 DEF AttemptSucceeds
  <2> QED
    BY <1>2, <1>3, <1>4, <2>1, OthersKept
<1>5. CallAt(m)'
  BY <1>1, <1>2, AttemptSucceedsAudit
<1>6. /\ errors' = errors \/ errors' = errors \cup {Error(m, NoEvent)}
      /\ \A c \in Caller : c # m => summary'[c] = summary[c]
  BY DEF Answer, Fails, Ends, Inv, TypeInv
<1>7. \A c \in Caller : ErrorsAt(c)'
  BY <1>2, <1>3, <1>6, ErrorsStep
<1> QED
  BY <1>4, <1>5, <1>7 DEF AuditInv

LEMMA StepAudit == Inv /\ AuditInv /\ [Next]_vars => AuditInv'
<1> SUFFICES ASSUME Inv, AuditInv, [Next]_vars
             PROVE  AuditInv'
  OBVIOUS
<1>1. ASSUME NEW m \in Caller,
             Ask(m) \/ Refuse(m) \/ TransportFails(m) \/ AnswerInvalid(m) \/ Answer(m)
      PROVE  AuditInv'
  BY <1>1, AskAudit, RefuseAudit, CallFailsAudit, AnswerAudit DEF TransportFails, AnswerInvalid
<1>2. CASE Join \/ Compose \/ UNCHANGED vars
  BY <1>2, QuietAudit DEF Join, Compose, vars, resultVars
<1>3. CASE Finalize
  <2>1. errors' = errors \/ errors' = errors \cup {Error("finalizer", NoEvent)}
    BY <1>3 DEF Finalize
  <2> QED
    BY <1>3, <2>1, QuietAudit DEF Finalize, Error
<1>4. CASE Debate
  <2>1. errors' = errors \/ errors' = errors \cup {Error("debate", NoEvent)}
    BY <1>4 DEF Debate
  <2> QED
    BY <1>4, <2>1, QuietAudit DEF Debate, Error
<1> QED
  BY <1>1, <1>2, <1>3, <1>4 DEF Next

LEMMA AuditedFromInv == AuditInv => CallsAreAudited
BY DEF AuditInv, CallAt, ErrorsAt, CallsAreAudited

\* Whatever the interleaving of the two managers' calls, the shared log tells of
\* each its attempts in their order, which of them a repaired answer repairs and
\* how the call ended, and an error that names an event names that end
\* (llm/structured_output.py, portfolio_recommendation.py).
THEOREM Audit == Spec => []CallsAreAudited
<1>1. Spec => []AuditInv
  BY InitAudit, StepAudit, Invariance, PTL DEF Spec
<1> QED
  BY <1>1, AuditedFromInv, PTL
==============================================================================
