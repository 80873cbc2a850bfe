-------------------------- MODULE NegotiationProofs --------------------------
(***************************************************************************)
(* Proofs about Negotiation, for every value of its constants.             *)
(***************************************************************************)
EXTENDS Negotiation, TLAPS, FiniteSetTheorems

-----------------------------------------------------------------------------
(* The inductive invariant.                                                *)

\* The pool, revisions not being bounded.
AnyItem == [status: Status, revision: Nat, scores: [Manager -> Score], scored: Nat]

PoolTyped ==
  /\ pool \in [Items -> AnyItem]
  /\ debate_round \in 0..MaxRounds

\* The gate rules on every proposal, and leaves one out in the last round only, after
\* which there is no further one.
RoundsEnd ==
  /\ pc \notin {"assemble", "done", "failed"} => \A i \in Items : pool[i].status # "EXCLUDED"
  /\ \A i \in Items : pool[i].status = "EXCLUDED" => debate_round = MaxRounds
  /\ pc = "begin" => /\ \A i \in Items : pool[i].status # "PROPOSED"
                     /\ Negotiating(pool) # {}

IsCurrent(i) == pool[i].scored = pool[i].revision

\* Whose scores are about the text as it stands.
ScoresCurrent ==
  /\ \A i \in Items : pool[i].status = "AGREED" => IsCurrent(i) /\ Passes(pool[i])
  /\ pc \notin {"score", "assemble", "done", "failed"} => \A i \in Active(pool) : IsCurrent(i)
  /\ pc = "score" =>
       /\ application.rescore \subseteq {i \in Active(pool) : pool[i].status # "AGREED"}
       /\ \A i \in Active(pool) : IsCurrent(i) \/ i \in application.rescore

\* Where no manager may support both sides of a slot: the scores that say otherwise
\* end the run.
SidesTaken ==
  pc \notin {"validate", "assemble", "done", "failed"} => Exclusive(pool)

\* A slot has one winner at most, and its rivals are out.
SlotsWon ==
  \A i \in Items : pool[i].status = "AGREED" =>
    \A j \in Rivals(i) : pool[j].status \in {"REJECTED", "WITHDRAWN"}

\* There is no recommendation before the end.
OnlyAtTheEnd == pc # "done" => recommendation = NoResult

IInv ==
  /\ PoolTyped
  /\ RoundsEnd
  /\ ScoresCurrent
  /\ SidesTaken
  /\ SlotsWon
  /\ OnlyAtTheEnd
  /\ RecommendationFaithful

-----------------------------------------------------------------------------
(* The pool.                                                               *)

LEMMA SlotsOfItems == \A i \in Items : SlotOf[i] \in Slot
<1> SUFFICES ASSUME NEW i \in Items PROVE i[1] \in Slot
  BY DEF SlotOf
<1> QED
  BY NegotiationAssumption

LEMMA AtMostOne ==
  ASSUME NEW S, IsFiniteSet(S), ~ (Cardinality(S) > 1), NEW x \in S, NEW y \in S
  PROVE  x = y
<1> SUFFICES ASSUME x # y PROVE FALSE
  OBVIOUS
<1>1. IsFiniteSet({x}) /\ Cardinality({x}) = 1
  BY FS_Singleton
<1>2. IsFiniteSet({x} \cup {y}) /\ Cardinality({x} \cup {y}) = 2
  <2>1. y \notin {x}
    OBVIOUS
  <2>2. Cardinality({x} \cup {y}) = Cardinality({x}) + 1
    BY <1>1, <2>1, FS_AddElement
  <2> QED
    BY <1>1, <2>2, FS_AddElement
<1>3. Cardinality({x} \cup {y}) <= Cardinality(S)
  BY FS_Subset
<1>4. Cardinality(S) \in Nat
  BY FS_CardinalityType
<1> QED
  BY <1>2, <1>3, <1>4

\* The gate could rule: it finds one winner in a slot at most.
OneEach == \A slot \in Slot : ~ (Cardinality(Winners(pool, slot)) > 1)

LEMMA SameWinner ==
  ASSUME OneEach, NEW i \in Items, NEW x \in Winners(pool, SlotOf[i]),
         NEW y \in Winners(pool, SlotOf[i])
  PROVE  x = y
<1>1. Winners(pool, SlotOf[i]) \subseteq Items
  BY DEF Winners, Candidates
<1>2. IsFiniteSet(Winners(pool, SlotOf[i]))
  BY <1>1, NegotiationAssumption, FS_Subset
<1>3. ~ (Cardinality(Winners(pool, SlotOf[i])) > 1)
  BY SlotsOfItems DEF OneEach
<1> QED
  BY <1>2, <1>3, AtMostOne

Decided == {"AGREED", "REJECTED", "WITHDRAWN", "EXCLUDED"}

\* What the gate makes of a proposal, t being the status it gives.
Ruled(i, t) ==
  /\ t \in Status \ {"PROPOSED"}
  /\ pool[i].status \in Decided => t = pool[i].status
  /\ t = "AGREED" =>
       /\ i \in Active(pool)
       /\ Passes(pool[i])
       /\ \A j \in Rivals(i) : Outcome(pool, j) \in {"REJECTED", "WITHDRAWN"}
  /\ t = "REJECTED" /\ pool[i].status # "REJECTED" =>
       \E j \in Rivals(i) : Outcome(pool, j) = "AGREED"
  /\ t = "NEGOTIATING" => debate_round < MaxRounds /\ i \in Active(pool)
  /\ t = "EXCLUDED" => debate_round = MaxRounds

LEMMA GateRules ==
  ASSUME PoolTyped, OneEach, \A i \in Items : pool[i].status # "EXCLUDED",
         \A i \in Items : pool[i].status = "AGREED" => Passes(pool[i]),
         NEW i \in Items
  PROVE  Ruled(i, Outcome(pool, i))
<1> DEFINE W == Winners(pool, SlotOf[i])
<1>1. pool[i].status \in Status /\ debate_round \in Nat /\ debate_round <= MaxRounds
  BY NegotiationAssumption DEF PoolTyped, AnyItem
<1>2. ASSUME NEW j \in W
      PROVE  /\ j \in Items /\ SlotOf[j] = SlotOf[i]
             /\ j \in Active(pool) /\ Passes(pool[j])
             /\ Outcome(pool, j) = "AGREED"
  <2>1. j \in Items /\ SlotOf[j] = SlotOf[i]
    BY DEF Winners, Candidates
  <2>2. pool[j].status \notin Inactive /\ Passes(pool[j])
    BY <2>1 DEF Winners, Candidates, Inactive
  <2> QED
    BY <2>1, <2>2 DEF Active, Outcome
<1>3. pool[i].status = "AGREED" => i \in W
  BY DEF Winners
<1>4. pool[i].status \in {"REJECTED", "WITHDRAWN"} => i \notin W
  BY DEF Winners, Candidates
<1>5. CASE i \in W
  <2>1. Outcome(pool, i) = "AGREED"
    BY <1>5 DEF Outcome
  <2>2. ASSUME NEW j \in Rivals(i) PROVE Outcome(pool, j) \in {"REJECTED", "WITHDRAWN"}
    <3>1. j \in Items /\ j # i /\ Winners(pool, SlotOf[j]) = W
      BY DEF Rivals
    <3>2. j \notin W
      BY <1>5, <3>1, SameWinner
    <3> QED
      BY <1>5, <3>1, <3>2 DEF Outcome
  <2> QED
    BY <1>2, <1>4, <1>5, <2>1, <2>2 DEF Ruled, Decided, Status, Inactive
<1>6. CASE i \notin W /\ pool[i].status \in {"WITHDRAWN", "REJECTED"}
  <2>1. Outcome(pool, i) = pool[i].status
    BY <1>6 DEF Outcome
  <2> QED
    BY <1>6, <2>1 DEF Ruled, Decided, Status, Inactive
<1>7. CASE i \notin W /\ pool[i].status \notin {"WITHDRAWN", "REJECTED"} /\ W # {}
  <2>1. Outcome(pool, i) = "REJECTED"
    BY <1>7 DEF Outcome
  <2>2. pool[i].status \in {"PROPOSED", "NEGOTIATING"}
    BY <1>1, <1>3, <1>7 DEF Status, Inactive
  <2>3. PICK j \in W : TRUE
    BY <1>7
  <2>4. j \in Rivals(i) /\ Outcome(pool, j) = "AGREED"
    BY <1>2, <1>7, <2>3 DEF Rivals
  <2> QED
    BY <2>1, <2>2, <2>4 DEF Ruled, Decided, Status, Inactive
<1>8. CASE i \notin W /\ pool[i].status \notin {"WITHDRAWN", "REJECTED"} /\ W = {}
  <2>1. Outcome(pool, i) = IF debate_round >= MaxRounds THEN "EXCLUDED" ELSE "NEGOTIATING"
    BY <1>8 DEF Outcome
  <2>2. pool[i].status \in {"PROPOSED", "NEGOTIATING"} /\ i \in Active(pool)
    BY <1>1, <1>3, <1>8 DEF Status, Inactive, Active
  <2>3. CASE debate_round >= MaxRounds
    <3>1. debate_round = MaxRounds
      BY <1>1, <2>3, NegotiationAssumption
    <3> QED
      BY <2>1, <2>2, <2>3, <3>1 DEF Ruled, Decided, Status, Inactive
  <2>4. CASE debate_round < MaxRounds
    <3>1. Outcome(pool, i) = "NEGOTIATING"
      BY <1>1, <2>1, <2>4, NegotiationAssumption
    <3> QED
      BY <2>2, <2>4, <3>1 DEF Ruled, Decided, Status, Inactive
  <2> QED
    BY <1>1, <2>3, <2>4, NegotiationAssumption
<1> QED
  BY <1>5, <1>6, <1>7, <1>8

-----------------------------------------------------------------------------
(* Every step preserves the invariant.                                     *)

\* A step that leaves the pool and its round alone.
LEMMA PoolStays ==
  ASSUME IInv, pc # "done", UNCHANGED <<debate_round, pool, recommendation>>,
         pc' \notin {"begin", "score"},
         pc' \notin {"assemble", "done", "failed"} =>
           /\ pc \notin {"assemble", "failed", "score"}
           /\ pc' # "validate" => Exclusive(pool)
  PROVE  IInv'
<1>1. PoolTyped'
  BY DEF IInv, PoolTyped
<1>2. RoundsEnd'
  BY DEF IInv, RoundsEnd
<1>3. ScoresCurrent'
  BY DEF IInv, ScoresCurrent, IsCurrent, Active
<1>4. SidesTaken'
  BY DEF IInv, SidesTaken, Exclusive, Active
<1>5. SlotsWon' /\ OnlyAtTheEnd' /\ RecommendationFaithful'
  BY DEF IInv, SlotsWon, OnlyAtTheEnd, RecommendationFaithful
<1> QED
  BY <1>1, <1>2, <1>3, <1>4, <1>5 DEF IInv

LEMMA FailPreserves ==
  ASSUME IInv, NEW node, NEW cause, Fail(node, cause), node # "done"
  PROVE  IInv'
BY PoolStays DEF Fail, Step, recordVars

\* Item i keeps its text and its scores.
SameText(i) ==
  /\ pool'[i].revision = pool[i].revision
  /\ pool'[i].scores = pool[i].scores
  /\ pool'[i].scored = pool[i].scored

LEMMA EvaluatedPool ==
  ASSUME PoolTyped, OneEach, pool' = Evaluated(pool),
         \A i \in Items : pool[i].status # "EXCLUDED",
         \A i \in Items : pool[i].status = "AGREED" => Passes(pool[i])
  PROVE  /\ pool' \in [Items -> AnyItem]
         /\ \A i \in Items : /\ pool'[i].status = Outcome(pool, i)
                             /\ SameText(i)
                             /\ Ruled(i, Outcome(pool, i))
<1> DEFINE t(i) == Outcome(pool, i)
<1>1. \A i \in Items : Ruled(i, t(i))
  BY GateRules
<1>2. \A i \in Items : t(i) \in Status
  BY <1>1 DEF Ruled
<1>3. pool \in [Items -> AnyItem]
  BY DEF PoolTyped
<1>4. pool' = [i \in Items |-> [pool[i] EXCEPT !.status = t(i)]]
  BY DEF Evaluated
<1> HIDE DEF t
<1>5. /\ pool' \in [Items -> AnyItem]
      /\ \A i \in Items : pool'[i].status = t(i) /\ SameText(i)
  BY <1>2, <1>3, <1>4 DEF AnyItem, SameText
<1> QED
  BY <1>1, <1>5 DEF t

\* The gate rules.
LEMMA RuledPool ==
  ASSUME IInv, pc = "gate", OneEach, pool' = Evaluated(pool),
         pc' = Report(pool).route, UNCHANGED <<debate_round, recommendation>>
  PROVE  IInv'
<1> DEFINE t(i) == Outcome(pool, i)
<1>1. /\ \A i \in Items : Ruled(i, t(i))
      /\ \A i \in Items : pool[i].status \in Status \ {"EXCLUDED"}
      /\ \A i \in Items : pool[i].status = "AGREED" => Passes(pool[i])
  <2>1. \A i \in Items : pool[i].status # "EXCLUDED"
    BY DEF IInv, RoundsEnd
  <2>2. \A i \in Items : pool[i].status = "AGREED" => Passes(pool[i])
    BY DEF IInv, ScoresCurrent
  <2>3. \A i \in Items : pool[i].status \in Status
    BY DEF IInv, PoolTyped, AnyItem
  <2> QED
    BY <2>1, <2>2, <2>3, GateRules DEF IInv
<1>2. /\ pool' \in [Items -> AnyItem]
      /\ \A i \in Items : pool'[i].status = t(i) /\ SameText(i)
  BY <1>1, EvaluatedPool DEF IInv
<1>3. pc' = IF Negotiating(pool') = {} THEN "assemble" ELSE "begin"
  BY DEF Report
<1>4. \A i \in Active(pool') : i \in Active(pool)
  <2> SUFFICES ASSUME NEW i \in Items, t(i) \notin Inactive PROVE pool[i].status \notin Inactive
    BY <1>2 DEF Active
  <2>1. Ruled(i, t(i)) /\ pool[i].status \in Status \ {"EXCLUDED"}
    BY <1>1
  <2> HIDE DEF t
  <2> QED
    BY <2>1 DEF Ruled, Decided, Inactive, Status
<1>5. PoolTyped'
  BY <1>2 DEF IInv, PoolTyped
<1> HIDE DEF t
<1>6. RoundsEnd'
  <2>1. \A i \in Items : t(i) = "EXCLUDED" => debate_round = MaxRounds
    BY <1>1 DEF Ruled
  <2>2. \A i \in Items : t(i) = "NEGOTIATING" => debate_round < MaxRounds
    BY <1>1 DEF Ruled
  <2>3. \A i \in Items : t(i) # "PROPOSED"
    BY <1>1 DEF Ruled
  <2>4. ASSUME pc' = "begin" PROVE \A i \in Items : t(i) # "EXCLUDED"
    <3>1. PICK j \in Items : t(j) = "NEGOTIATING"
      BY <1>2, <1>3, <2>4 DEF Negotiating
    <3>2. debate_round # MaxRounds
      BY <2>2, <3>1, NegotiationAssumption DEF IInv, PoolTyped
    <3> QED
      BY <2>1, <3>2
  <2> QED
    BY <1>2, <1>3, <2>1, <2>3, <2>4 DEF RoundsEnd
<1>7. ScoresCurrent'
  <2>1. \A i \in Active(pool) : IsCurrent(i)
    BY DEF IInv, ScoresCurrent
  <2>2. \A i \in Active(pool) : IsCurrent(i)'
    BY <1>2, <2>1 DEF IsCurrent, Active, SameText
  <2>3. ASSUME NEW i \in Items, t(i) = "AGREED" PROVE Passes(pool[i])'
    <3>1. Passes(pool[i]) /\ pool'[i].scores = pool[i].scores
      BY <1>1, <1>2, <2>3 DEF Ruled, SameText
    <3> QED
      BY <3>1 DEF Passes
  <2>4. \A i \in Items : t(i) = "AGREED" => i \in Active(pool)
    BY <1>1 DEF Ruled
  <2> QED
    BY <1>2, <1>3, <1>4, <2>2, <2>3, <2>4 DEF ScoresCurrent
<1>8. SidesTaken'
  <2>1. Exclusive(pool)
    BY DEF IInv, SidesTaken
  <2>2. \A i \in Items : pool'[i].scores = pool[i].scores
    BY <1>2 DEF SameText
  <2>3. Exclusive(pool')
    BY <1>4, <2>1, <2>2 DEF Exclusive, Active
  <2> QED
    BY <2>3 DEF SidesTaken, Exclusive, Active
<1>9. SlotsWon'
  <2> SUFFICES ASSUME NEW i \in Items, t(i) = "AGREED", NEW j \in Rivals(i)
               PROVE t(j) \in {"REJECTED", "WITHDRAWN"}
    BY <1>2 DEF SlotsWon, Rivals
  <2> QED
    BY <1>1 DEF Ruled, t
<1>10. OnlyAtTheEnd' /\ RecommendationFaithful'
  BY <1>3 DEF IInv, OnlyAtTheEnd, RecommendationFaithful, NoResult
<1> QED
  BY <1>5, <1>6, <1>7, <1>8, <1>9, <1>10 DEF IInv

LEMMA GatePreserves == ASSUME IInv, ConsensusGate PROVE IInv'
<1>1. CASE \/ debate_round > MaxRounds
           \/ report.round = debate_round
           \/ ~ Exclusive(pool)
           \/ \E slot \in Slot : Cardinality(Winners(pool, slot)) > 1
  BY <1>1, FailPreserves DEF ConsensusGate
<1>2. CASE ~ (\/ debate_round > MaxRounds
              \/ report.round = debate_round
              \/ ~ Exclusive(pool)
              \/ \E slot \in Slot : Cardinality(Winners(pool, slot)) > 1)
  <2>1. OneEach
    BY <1>2 DEF OneEach
  <2> QED
    BY <1>2, <2>1, RuledPool DEF ConsensusGate, Step
<1> QED
  BY <1>1, <1>2

\* A round begins.
LEMMA BeginPreserves == ASSUME IInv, Begin PROVE IInv'
<1>1. /\ pc = "begin" /\ pc' = "exchange"
      /\ UNCHANGED <<pool, recommendation>>
      /\ \/ debate_round' = debate_round
         \/ debate_round < MaxRounds /\ debate_round' = debate_round + 1
  BY DEF Begin, Step
<1>2. PoolTyped'
  BY <1>1, NegotiationAssumption DEF IInv, PoolTyped
<1>3. RoundsEnd'
  BY <1>1 DEF IInv, RoundsEnd
<1>4. ScoresCurrent'
  BY <1>1 DEF IInv, ScoresCurrent, IsCurrent, Active
<1>5. SidesTaken'
  BY <1>1 DEF IInv, SidesTaken, Exclusive, Active
<1>6. SlotsWon' /\ OnlyAtTheEnd' /\ RecommendationFaithful'
  BY <1>1 DEF IInv, SlotsWon, OnlyAtTheEnd, RecommendationFaithful, NoResult
<1> QED
  BY <1>2, <1>3, <1>4, <1>5, <1>6 DEF IInv

LEMMA ExchangePreserves == ASSUME IInv, ExchangeReasons PROVE IInv'
<1>1. CASE \/ Fail("exchange", "refused") \/ Fail("exchange", "call")
  BY <1>1, FailPreserves
<1>2. CASE /\ Step("exchange", "revise")
           /\ UNCHANGED <<debate_round, pool, recommendation>>
  <2>1. pc = "exchange" /\ pc' = "revise" /\ Exclusive(pool)
    BY <1>2 DEF Step, IInv, SidesTaken
  <2> QED
    BY <1>2, <2>1, PoolStays
<1> QED
  BY <1>1, <1>2 DEF ExchangeReasons

LEMMA RevisedItem ==
  ASSUME NEW item \in AnyItem, item.status = "NEGOTIATING", NEW action \in Action
  PROVE  LET x == Revised(item, action)
         IN /\ x \in AnyItem
            /\ x.scores = item.scores /\ x.scored = item.scored
            /\ x.revision = IF action = "KEEP" THEN item.revision ELSE item.revision + 1
            /\ x.status = IF action = "WITHDRAW" THEN "WITHDRAWN" ELSE "NEGOTIATING"
            /\ action = "KEEP" => x = item
<1> DEFINE x == Revised(item, action)
<1>1. ASSUME NEW n \in Nat, NEW t \in Status, x = [item EXCEPT !.revision = n, !.status = t]
      PROVE  /\ x \in AnyItem
             /\ x.scores = item.scores /\ x.scored = item.scored
             /\ x.revision = n /\ x.status = t
             /\ n = item.revision /\ t = item.status => x = item
  <2> HIDE DEF x
  <2> QED
    BY <1>1 DEF AnyItem
<1>2. "WITHDRAWN" \in Status /\ "NEGOTIATING" \in Status
  BY DEF Status, Inactive
<1>3. item.revision \in Nat /\ item.revision + 1 \in Nat
  BY DEF AnyItem
<1>4. CASE action = "KEEP"
  <2>1. Revised(item, action) = [item EXCEPT !.revision = item.revision, !.status = "NEGOTIATING"]
    BY <1>4 DEF Revised
  <2> QED
    BY <1>1, <1>2, <1>3, <1>4, <2>1
<1>5. CASE action = "WITHDRAW"
  <2>1. Revised(item, action) = [item EXCEPT !.revision = item.revision + 1, !.status = "WITHDRAWN"]
    BY <1>5 DEF Revised
  <2> QED
    BY <1>1, <1>2, <1>3, <1>5, <2>1
<1>6. CASE action = "MODIFY"
  <2>1. Revised(item, action) = [item EXCEPT !.revision = item.revision + 1, !.status = "NEGOTIATING"]
    BY <1>6 DEF Revised
  <2> QED
    BY <1>1, <1>2, <1>3, <1>6, <2>1
<1> QED
  BY <1>4, <1>5, <1>6 DEF Action

\* The pool when decisions are committed.
WithDecisions(decisions) ==
  [i \in Items |-> IF i \in DOMAIN decisions THEN Revised(pool[i], decisions[i]) ELSE pool[i]]

\* What decisions d do to the pool.
Decides(d) ==
  /\ pool' \in [Items -> AnyItem]
  /\ \A i \in Items : i \notin Negotiating(pool) => pool'[i] = pool[i]
  /\ \A i \in Negotiating(pool) :
       /\ pool[i].status = "NEGOTIATING" /\ i \in Items
       /\ pool'[i].scores = pool[i].scores /\ pool'[i].scored = pool[i].scored
       /\ pool'[i].revision = IF d[i] = "KEEP" THEN pool[i].revision ELSE pool[i].revision + 1
       /\ pool'[i].status = IF d[i] = "WITHDRAW" THEN "WITHDRAWN" ELSE "NEGOTIATING"
       /\ d[i] = "KEEP" => pool'[i] = pool[i]

LEMMA DecisionsRevise ==
  ASSUME PoolTyped, NEW decisions \in [Negotiating(pool) -> Action],
         pool' = WithDecisions(decisions)
  PROVE  Decides(decisions)
<1>1. pool \in [Items -> AnyItem] /\ DOMAIN decisions = Negotiating(pool)
  BY DEF PoolTyped
<1>2. \A i \in Negotiating(pool) : i \in Items /\ pool[i].status = "NEGOTIATING" /\ pool[i] \in AnyItem
  BY <1>1 DEF Negotiating
<1>3. \A i \in Negotiating(pool) : pool'[i] = Revised(pool[i], decisions[i])
  BY <1>1, <1>2 DEF WithDecisions
<1>4. \A i \in Items : i \notin Negotiating(pool) => pool'[i] = pool[i]
  BY <1>1 DEF WithDecisions
<1>5. ASSUME NEW i \in Negotiating(pool)
      PROVE  /\ pool'[i] \in AnyItem
             /\ pool'[i].scores = pool[i].scores /\ pool'[i].scored = pool[i].scored
             /\ pool'[i].revision = IF decisions[i] = "KEEP" THEN pool[i].revision
                                    ELSE pool[i].revision + 1
             /\ pool'[i].status = IF decisions[i] = "WITHDRAW" THEN "WITHDRAWN" ELSE "NEGOTIATING"
             /\ decisions[i] = "KEEP" => pool'[i] = pool[i]
  BY <1>2, <1>3, RevisedItem
<1>6. \A i \in Items : pool'[i] \in AnyItem
  BY <1>1, <1>4, <1>5
<1>7. pool' = [i \in Items |-> pool'[i]]
  BY DEF WithDecisions
<1>8. pool' \in [Items -> AnyItem]
  BY <1>6, <1>7
<1> QED
  BY <1>2, <1>4, <1>5, <1>8 DEF Decides

\* Decisions are committed: what was changed and is not withdrawn is scored next.
LEMMA RevisedPool ==
  ASSUME IInv, pc = "revise", NEW decisions \in [Negotiating(pool) -> Action],
         CommitRevisions(decisions)
  PROVE  IInv'
<1> DEFINE revised == WithDecisions(decisions)
<1>1. CASE ~ ValidPool(revised)
  BY <1>1, FailPreserves DEF CommitRevisions, WithDecisions
<1>2. CASE ValidPool(revised)
  <2>1. /\ pool' = revised
        /\ application' = Application(revised, decisions)
        /\ pc' = IF application'.rescore # {} THEN "score" ELSE "unscored"
        /\ UNCHANGED <<debate_round, recommendation>>
    BY <1>2 DEF CommitRevisions, Step, WithDecisions
  <2>2. application'.rescore = Rescore(pool', decisions)
    BY <2>1 DEF Application
  <2>3. Decides(decisions)
    BY <2>1, DecisionsRevise DEF IInv
  <2>4. DOMAIN decisions = Negotiating(pool)
    OBVIOUS
  <2>5. /\ pool' \in [Items -> AnyItem]
        /\ \A i \in Items : i \notin Negotiating(pool) => pool'[i] = pool[i]
        /\ \A i \in Negotiating(pool) :
             /\ pool'[i].scores = pool[i].scores
             /\ decisions[i] = "KEEP" => pool'[i] = pool[i]
             /\ pool'[i].status \in {"NEGOTIATING", "WITHDRAWN"}
    BY <2>3 DEF Decides
  <2> HIDE DEF revised
  <2>6. \A i \in Active(pool') : i \in Active(pool) /\ pool'[i].scores = pool[i].scores
    BY <2>5 DEF Active, Negotiating, Inactive
  <2>7. PoolTyped'
    BY <2>1, <2>5 DEF IInv, PoolTyped
  <2>8. RoundsEnd'
    BY <2>1, <2>5 DEF IInv, RoundsEnd
  <2>9. ScoresCurrent'
    <3>1. ASSUME NEW i \in Items, pool'[i].status = "AGREED"
          PROVE  IsCurrent(i)' /\ Passes(pool[i])'
      <4>1. pool'[i] = pool[i]
        BY <2>5, <3>1
      <4> QED
        BY <3>1, <4>1 DEF IInv, ScoresCurrent, IsCurrent, Passes
    <3>2. ASSUME NEW i \in Active(pool'), ~ IsCurrent(i)'
          PROVE  i \in application'.rescore
      <4>1. i \in Items /\ i \in Active(pool)
        BY <2>6 DEF Active
      <4>2. IsCurrent(i)
        BY <4>1 DEF IInv, ScoresCurrent
      <4>3. pool'[i] # pool[i]
        BY <3>2, <4>2 DEF IsCurrent
      <4>4. i \in Material(decisions) /\ pool'[i].status # "AGREED"
        BY <2>4, <2>5, <4>1, <4>3 DEF Material
      <4> QED
        BY <2>2, <3>2, <4>4 DEF Rescore
    <3>3. application'.rescore \subseteq {i \in Active(pool') : pool'[i].status # "AGREED"}
      BY <2>2 DEF Rescore
    <3> QED
      BY <2>1, <3>1, <3>2, <3>3 DEF ScoresCurrent, Active
  <2>10. SidesTaken'
    <3>1. Exclusive(pool)
      BY DEF IInv, SidesTaken
    <3>2. Exclusive(pool')
      BY <2>6, <3>1 DEF Exclusive
    <3> QED
      BY <3>2 DEF SidesTaken, Exclusive, Active
  <2>11. SlotsWon'
    <3> SUFFICES ASSUME NEW i \in Items, pool'[i].status = "AGREED", NEW j \in Rivals(i)
                 PROVE  pool'[j].status \in {"REJECTED", "WITHDRAWN"}
      BY DEF SlotsWon, Rivals
    <3>1. pool'[i] = pool[i] /\ j \in Items
      BY <2>5 DEF Rivals
    <3>2. pool[j].status \in {"REJECTED", "WITHDRAWN"}
      BY <3>1 DEF IInv, SlotsWon
    <3> QED
      BY <2>5, <3>1, <3>2 DEF Negotiating
  <2>12. OnlyAtTheEnd' /\ RecommendationFaithful'
    BY <2>1 DEF IInv, OnlyAtTheEnd, RecommendationFaithful, NoResult
  <2> QED
    BY <2>7, <2>8, <2>9, <2>10, <2>11, <2>12 DEF IInv
<1> QED
  BY <1>1, <1>2

LEMMA RevisePreserves == ASSUME IInv, ReviseProposals PROVE IInv'
<1>1. CASE Fail("revise", "refused") \/ Fail("revise", "call")
  BY <1>1, FailPreserves
<1>2. CASE \E decisions \in [Negotiating(pool) -> Action] : CommitRevisions(decisions)
  BY <1>2, RevisedPool DEF ReviseProposals
<1> QED
  BY <1>1, <1>2 DEF ReviseProposals

\* The pool when scores are committed.
WithScores(scores) ==
  [i \in Items |-> IF i \in DOMAIN scores THEN Scored(pool[i], scores[i]) ELSE pool[i]]

\* What scores g do to the pool.
Rescores(g) ==
  /\ pool' \in [Items -> AnyItem]
  /\ \A i \in Items :
       /\ pool'[i].status = pool[i].status /\ pool'[i].revision = pool[i].revision
       /\ i \notin application.rescore => pool'[i] = pool[i]
       /\ i \in application.rescore =>
            pool'[i].scored = pool'[i].revision /\ pool'[i].scores = g[i]

LEMMA ScoresRescore ==
  ASSUME PoolTyped, NEW scores \in [application.rescore -> [Manager -> Score]],
         pool' = WithScores(scores)
  PROVE  Rescores(scores)
<1>1. pool \in [Items -> AnyItem]
  BY DEF PoolTyped
<1>2. ASSUME NEW item \in AnyItem, NEW given \in [Manager -> Score]
      PROVE  LET x == Scored(item, given)
             IN /\ x \in AnyItem
                /\ x.status = item.status /\ x.revision = item.revision
                /\ x.scored = x.revision /\ x.scores = given
  BY DEF Scored, AnyItem
<1>3. \A i \in Items : pool'[i] = IF i \in application.rescore
                                  THEN Scored(pool[i], scores[i]) ELSE pool[i]
  BY DEF WithScores
<1>4. ASSUME NEW i \in Items
      PROVE  /\ pool'[i] \in AnyItem
             /\ pool'[i].status = pool[i].status /\ pool'[i].revision = pool[i].revision
             /\ i \notin application.rescore => pool'[i] = pool[i]
             /\ i \in application.rescore =>
                  pool'[i].scored = pool'[i].revision /\ pool'[i].scores = scores[i]
  <2>1. pool[i] \in AnyItem
    BY <1>1
  <2>2. CASE i \in application.rescore
    <3>1. scores[i] \in [Manager -> Score] /\ pool'[i] = Scored(pool[i], scores[i])
      BY <1>3, <2>2
    <3> QED
      BY <1>2, <2>1, <2>2, <3>1
  <2>3. CASE i \notin application.rescore
    BY <1>3, <2>1, <2>3
  <2> QED
    BY <2>2, <2>3
<1>5. pool' = [i \in Items |-> pool'[i]]
  BY DEF WithScores
<1>6. pool' \in [Items -> AnyItem]
  BY <1>4, <1>5
<1> QED
  BY <1>4, <1>6 DEF Rescores

\* Both managers' scores of the closure are committed.
LEMMA ScoredPool ==
  ASSUME IInv, pc = "score",
         NEW scores \in [application.rescore -> [Manager -> Score]],
         CommitScores(scores)
  PROVE  IInv'
<1> DEFINE rescored == WithScores(scores)
<1>1. CASE ~ ValidPool(rescored)
  BY <1>1, FailPreserves DEF CommitScores, WithScores
<1>2. CASE ValidPool(rescored)
  <2>1. /\ pool' = rescored /\ pc' = "validate"
        /\ UNCHANGED <<debate_round, recommendation>>
    BY <1>2 DEF CommitScores, Step, WithScores
  <2>2. Rescores(scores)
    BY <2>1, ScoresRescore DEF IInv
  <2>3. /\ pool' \in [Items -> AnyItem]
        /\ \A i \in Items :
             /\ pool'[i].status = pool[i].status
             /\ i \notin application.rescore => pool'[i] = pool[i]
             /\ i \in application.rescore => pool'[i].scored = pool'[i].revision
    BY <2>2 DEF Rescores
  <2> HIDE DEF rescored
  <2>4. PoolTyped'
    BY <2>1, <2>3 DEF IInv, PoolTyped
  <2>5. RoundsEnd'
    BY <2>1, <2>3 DEF IInv, RoundsEnd
  <2>6. ScoresCurrent'
    <3>1. \A i \in Items : pool[i].status = "AGREED" => i \notin application.rescore
      BY DEF IInv, ScoresCurrent
    <3>2. ASSUME NEW i \in Items, pool'[i].status = "AGREED"
          PROVE  IsCurrent(i)' /\ Passes(pool[i])'
      <4>1. pool'[i] = pool[i]
        BY <2>3, <3>1, <3>2
      <4> QED
        BY <3>2, <4>1 DEF IInv, ScoresCurrent, IsCurrent, Passes
    <3>3. ASSUME NEW i \in Active(pool') PROVE IsCurrent(i)'
      <4>1. i \in Items /\ i \in Active(pool)
        BY <2>3 DEF Active
      <4>2. IsCurrent(i) \/ i \in application.rescore
        BY <4>1 DEF IInv, ScoresCurrent
      <4> QED
        BY <2>3, <4>1, <4>2 DEF IsCurrent
    <3> QED
      BY <2>1, <3>2, <3>3 DEF ScoresCurrent, Active
  <2>7. SidesTaken'
    BY <2>1 DEF SidesTaken
  <2>8. SlotsWon'
    BY <2>3 DEF IInv, SlotsWon, Rivals
  <2>9. OnlyAtTheEnd' /\ RecommendationFaithful'
    BY <2>1 DEF IInv, OnlyAtTheEnd, RecommendationFaithful, NoResult
  <2> QED
    BY <2>4, <2>5, <2>6, <2>7, <2>8, <2>9 DEF IInv
<1> QED
  BY <1>1, <1>2

LEMMA ScorePreserves == ASSUME IInv, ScoreRevisions PROVE IInv'
<1>1. CASE Fail("score", "refused") \/ Fail("score", "call")
  BY <1>1, FailPreserves
<1>2. ASSUME NEW own \in [application.rescore -> {s \in Score : s > 0}],
             NEW other \in [application.rescore -> Score],
             CommitScores(Drafted(own, other))
      PROVE  IInv'
  <2>1. Drafted(own, other) \in [application.rescore -> [Manager -> Score]]
    BY DEF Drafted
  <2> QED
    BY <1>2, <2>1, ScoredPool DEF ScoreRevisions
<1> QED
  BY <1>1, <1>2 DEF ScoreRevisions

LEMMA ValidatePreserves == ASSUME IInv, ValidateScores PROVE IInv'
<1>1. CASE Exclusive(pool)
  BY <1>1, PoolStays DEF ValidateScores, Step
<1>2. CASE ~ Exclusive(pool)
  BY <1>2, FailPreserves DEF ValidateScores
<1> QED
  BY <1>1, <1>2

LEMMA CompletePreserves ==
  ASSUME IInv, NEW node \in {"complete", "unscored"}, NEW ready, NEW managers,
         CompleteRound(node, ready, managers)
  PROVE  IInv'
<1>1. CASE Fail(node, "refused")
  BY <1>1, FailPreserves
<1>2. CASE Step(node, "gate") /\ UNCHANGED <<debate_round, pool, recommendation>>
  BY <1>2, PoolStays DEF Step, IInv, SidesTaken
<1> QED
  BY <1>1, <1>2 DEF CompleteRound

\* What is recommended.
LEMMA AssemblePreserves == ASSUME IInv, Assemble PROVE IInv'
<1> DEFINE accepted == {i \in Items : report.outcome[i] = "AGREED"}
<1>1. /\ pc = "assemble" /\ pc' = "done"
      /\ UNCHANGED <<debate_round, pool>>
      /\ \/ recommendation' = recommendation
         \/ recommendation'.stop = "no_actionable_consensus"
         \/ ReportDescribesPool /\ Actionable(accepted) /\ Recommend(accepted)
  BY DEF Assemble, Step
<1>2. recommendation.stop = "none"
  BY <1>1 DEF IInv, OnlyAtTheEnd, NoResult
<1>3. PoolTyped' /\ RoundsEnd' /\ ScoresCurrent' /\ SidesTaken' /\ SlotsWon' /\ OnlyAtTheEnd'
  <2>1. PoolTyped' /\ RoundsEnd' /\ SidesTaken' /\ SlotsWon' /\ OnlyAtTheEnd'
    BY <1>1 DEF IInv, PoolTyped, RoundsEnd, SidesTaken, SlotsWon, OnlyAtTheEnd
  <2>2. ScoresCurrent'
    BY <1>1 DEF IInv, ScoresCurrent, IsCurrent
  <2> QED
    BY <2>1, <2>2
<1>4. CASE ReportDescribesPool /\ Actionable(accepted) /\ Recommend(accepted)
  <2>1. accepted = {i \in Items : pool[i].status = "AGREED"}
    BY <1>4 DEF ReportDescribesPool
  <2>2. (\E i \in Items : report.outcome[i] = "EXCLUDED") <=> \E i \in Items : pool[i].status = "EXCLUDED"
    BY <1>4 DEF ReportDescribesPool
  <2>3. /\ recommendation'.items = accepted
        /\ recommendation'.debate = "PARTIAL_CONSENSUS"
             <=> \E i \in Items : pool[i].status = "EXCLUDED"
    BY <1>4, <2>2 DEF Recommend
  <2>4. Missing(pool) = {}
    BY <1>4 DEF ReportDescribesPool, Actionable
  <2> HIDE DEF accepted
  <2>5. ASSUME NEW slot \in Required
        PROVE  \E i \in accepted : /\ SlotOf[i] = slot
                                   /\ \A j \in accepted : SlotOf[j] = slot => j = i
    <3>1. PICK i \in accepted : SlotOf[i] = slot
      BY <2>1, <2>4 DEF Missing
    <3>2. ASSUME NEW j \in accepted, SlotOf[j] = slot PROVE j = i
      BY <2>1, <3>1, <3>2 DEF IInv, SlotsWon, Rivals
    <3> QED
      BY <3>1, <3>2
  <2>6. (\E i \in Items : pool[i].status = "EXCLUDED") => debate_round = MaxRounds
    BY DEF IInv, RoundsEnd
  <2>7. RecommendationFaithful'
    BY <1>1, <2>1, <2>3, <2>5, <2>6 DEF RecommendationFaithful
  <2> QED
    BY <1>3, <2>7 DEF IInv
<1>5. CASE recommendation'.stop # "complete"
  BY <1>3, <1>5 DEF IInv, RecommendationFaithful
<1> QED
  BY <1>1, <1>2, <1>4, <1>5

LEMMA InitInv == Init => IInv
<1> SUFFICES ASSUME Init PROVE IInv
  OBVIOUS
<1>1. /\ pool \in [Items -> [status: {"PROPOSED"}, revision: {1},
                             scores: [Manager -> Score], scored: {1}]]
      /\ Exclusive(pool)
      /\ pc = "gate" /\ debate_round = 0 /\ recommendation = NoResult
  BY DEF Init
<1>2. \A i \in Items : pool[i].status = "PROPOSED" /\ pool[i].scored = pool[i].revision
  BY <1>1
<1>3. PoolTyped
  BY <1>1, NegotiationAssumption DEF PoolTyped, AnyItem, Status
<1>4. RoundsEnd /\ ScoresCurrent /\ SidesTaken /\ SlotsWon
  BY <1>1, <1>2 DEF RoundsEnd, ScoresCurrent, SidesTaken, SlotsWon, IsCurrent, Active
<1>5. OnlyAtTheEnd /\ RecommendationFaithful
  BY <1>1 DEF OnlyAtTheEnd, RecommendationFaithful, NoResult
<1> QED
  BY <1>3, <1>4, <1>5 DEF IInv

LEMMA StepInv == IInv /\ [Next]_vars => IInv'
<1> SUFFICES ASSUME IInv, [Next]_vars PROVE IInv'
  OBVIOUS
<1>1. CASE UNCHANGED vars
  BY <1>1 DEF vars, IInv, PoolTyped, RoundsEnd, ScoresCurrent, IsCurrent, SidesTaken, SlotsWon,
              OnlyAtTheEnd, RecommendationFaithful, Negotiating, Active
<1>2. CASE CompleteScored
  BY <1>2, CompletePreserves DEF CompleteScored
<1>3. CASE CompleteUnscored
  BY <1>3, CompletePreserves DEF CompleteUnscored
<1> QED
  BY <1>1, <1>2, <1>3, GatePreserves, BeginPreserves, ExchangePreserves, RevisePreserves,
     ScorePreserves, ValidatePreserves, AssemblePreserves DEF Next, Ended

LEMMA Invariance == Spec => []IInv
  BY InitInv, StepInv, PTL DEF Spec

-----------------------------------------------------------------------------
(* What is promised.                                                       *)

\* The two managers agree to the words that both of them scored: an agreed proposal, and
\* every open one the gate looks at, has scores that are about its current text.
THEOREM TextsAreCurrent == Spec => []AgreedOnCurrentText
<1>1. IInv => AgreedOnCurrentText
  BY DEF IInv, ScoresCurrent, IsCurrent, AgreedOnCurrentText
<1> QED
  BY <1>1, Invariance, PTL

\* Two rivals that a manager may not both support cannot both pass the gate.
LEMMA OnePasses ==
  ASSUME PoolTyped, Exclusive(pool), NEW i \in Items, NEW j \in Rivals(i),
         i \in Active(pool), j \in Active(pool)
  PROVE  ~ (Passes(pool[i]) /\ Passes(pool[j]))
<1> DEFINE a(k) == pool[k].scores["AGGRESSIVE"]
           c(k) == pool[k].scores["CONSERVATIVE"]
<1>1. j \in Items
  BY DEF Rivals
<1>2. \A k \in Items : a(k) \in Int /\ c(k) \in Int
  <2>1. \A k \in Items : a(k) \in Score /\ c(k) \in Score
    BY DEF PoolTyped, AnyItem, Manager
  <2>2. Score \subseteq Int
    BY NegotiationAssumption
  <2> HIDE DEF a, c
  <2> QED
    BY <2>1, <2>2
<1>3. a(i) + a(j) <= 0 /\ c(i) + c(j) <= 0
  BY DEF Exclusive, Manager
<1>4. Passes(pool[i]) => a(i) + c(i) > 0
  BY DEF Passes
<1>5. Passes(pool[j]) => a(j) + c(j) > 0
  BY DEF Passes
<1>6. a(i) \in Int /\ c(i) \in Int /\ a(j) \in Int /\ c(j) \in Int
  BY <1>1, <1>2
<1> HIDE DEF a, c
<1> QED
  BY <1>3, <1>4, <1>5, <1>6

\* A slot never has two winners, and no pool the gate meets could give it two.
THEOREM SlotsHaveOneWinner == Spec => []OneWinnerPerSlot
<1>1. IInv => OneWinnerPerSlot
  <2> SUFFICES ASSUME IInv, NEW i \in Items, NEW j \in Rivals(i)
               PROVE  /\ pool[i].status = "AGREED" => pool[j].status \in {"REJECTED", "WITHDRAWN"}
                      /\ pc = "gate" => ~ (/\ {i, j} \subseteq Active(pool)
                                           /\ Passes(pool[i]) /\ Passes(pool[j]))
    BY DEF OneWinnerPerSlot
  <2>1. pool[i].status = "AGREED" => pool[j].status \in {"REJECTED", "WITHDRAWN"}
    BY DEF IInv, SlotsWon
  <2>2. pc = "gate" => Exclusive(pool)
    BY DEF IInv, SidesTaken
  <2> QED
    BY <2>1, <2>2, OnePasses DEF IInv
<1> QED
  BY <1>1, Invariance, PTL

\* The committee recommends what was agreed, all of it, one proposal for each decision.
THEOREM RecommendsTheAgreed == Spec => []RecommendationFaithful
<1>1. IInv => RecommendationFaithful
  BY DEF IInv
<1> QED
  BY <1>1, Invariance, PTL

-----------------------------------------------------------------------------
(* The negotiation implements the lifecycle of its proposals.              *)

\* What a step does to the statuses, in terms of the pool.
StepsLikeGate ==
  /\ debate_round' = debate_round
  /\ \A i \in Items : pool'[i].status = Outcome(pool, i) /\ Ruled(i, Outcome(pool, i))

LEMMA GateMaps == ASSUME IInv, StepsLikeGate PROVE Lifecycle!Gate
<1>1. \A i \in Items : pool'[i].status = Outcome(pool, i)
  BY DEF StepsLikeGate
<1>2. \A i \in Items : Ruled(i, pool'[i].status) /\ pool[i].status \in Status
  BY <1>1 DEF StepsLikeGate, IInv, PoolTyped, AnyItem
<1>3. [i \in Items |-> pool'[i].status] \in [Items -> Lifecycle!Status]
  BY <1>2 DEF Ruled, Status, Inactive, Lifecycle!Status, Lifecycle!Decided
<1>4. ASSUME NEW i \in Items, pool[i].status \in Decided PROVE pool'[i].status = pool[i].status
  BY <1>2, <1>4 DEF Ruled
<1>5. ASSUME NEW i \in Items, pool[i].status \notin Decided
      PROVE  \/ /\ pool'[i].status = "AGREED"
                /\ \A j \in Rivals(i) : pool'[j].status \in {"REJECTED", "WITHDRAWN"}
             \/ /\ pool'[i].status = "REJECTED"
                /\ \E j \in Rivals(i) : pool'[j].status = "AGREED"
             \/ pool'[i].status = "NEGOTIATING" /\ debate_round < MaxRounds
             \/ pool'[i].status = "EXCLUDED" /\ debate_round = MaxRounds
  <2>1. \A j \in Rivals(i) : j \in Items
    BY DEF Rivals
  <2>2. Ruled(i, pool'[i].status)
    BY <1>2
  <2>3. pool'[i].status \in {"AGREED", "REJECTED", "NEGOTIATING", "EXCLUDED", "WITHDRAWN"}
    BY <2>2 DEF Ruled, Status, Inactive
  <2>4. pool'[i].status # "WITHDRAWN"
    BY <1>1, <1>5 DEF Outcome, Decided
  <2> QED
    BY <1>1, <1>5, <2>1, <2>2, <2>3, <2>4 DEF Ruled, Decided
<1> QED
  BY <1>3, <1>4, <1>5
     DEF StepsLikeGate, Lifecycle!Gate, Lifecycle!Ruling, Lifecycle!Decided, Decided,
         Lifecycle!Rivals, Rivals

LEMMA StutterMaps ==
  ASSUME IInv, debate_round' = debate_round,
         \A i \in Items : pool'[i].status = pool[i].status
  PROVE  UNCHANGED Lifecycle!vars
BY DEF Lifecycle!vars

LEMMA GateStepMaps == ASSUME IInv, ConsensusGate PROVE [Lifecycle!Next]_(Lifecycle!vars)
<1>1. CASE Fail("gate", "refused")
  BY <1>1, StutterMaps DEF Fail
<1>2. CASE ~ Fail("gate", "refused")
  <2>1. /\ OneEach
        /\ pool' = Evaluated(pool) /\ debate_round' = debate_round
        /\ pc = "gate"
    BY <1>2 DEF ConsensusGate, OneEach
  <2>2. /\ \A i \in Items : pool[i].status # "EXCLUDED"
        /\ \A i \in Items : pool[i].status = "AGREED" => Passes(pool[i])
    BY <2>1 DEF IInv, RoundsEnd, ScoresCurrent
  <2>3. StepsLikeGate
    BY <2>1, <2>2, EvaluatedPool DEF IInv, StepsLikeGate
  <2> QED
    BY <2>3, GateMaps DEF Lifecycle!Next
<1> QED
  BY <1>1, <1>2

LEMMA BeginStepMaps == ASSUME IInv, Begin PROVE [Lifecycle!Next]_(Lifecycle!vars)
<1>1. pc = "begin" /\ pool' = pool
  BY DEF Begin, Step
<1>2. CASE debate_round' = debate_round
  BY <1>1, <1>2, StutterMaps
<1>3. CASE debate_round < MaxRounds /\ debate_round' = debate_round + 1
  <2>1. /\ \A i \in Items : pool[i].status # "PROPOSED"
        /\ \E i \in Items : pool[i].status = "NEGOTIATING"
    BY <1>1 DEF IInv, RoundsEnd, Negotiating
  <2> QED
    BY <1>1, <1>3, <2>1 DEF Lifecycle!Next, Lifecycle!BeginRound
<1> QED
  BY <1>2, <1>3 DEF Begin

LEMMA ReviseStepMaps == ASSUME IInv, ReviseProposals PROVE [Lifecycle!Next]_(Lifecycle!vars)
<1>1. CASE Fail("revise", "refused") \/ Fail("revise", "call")
  BY <1>1, StutterMaps DEF Fail
<1>2. ASSUME GateIsCurrent, NEW decisions \in [Negotiating(pool) -> Action],
             CommitRevisions(decisions), ~ Fail("revise", "refused")
      PROVE  [Lifecycle!Next]_(Lifecycle!vars)
  <2>1. pool' = WithDecisions(decisions) /\ debate_round' = debate_round
    BY <1>2 DEF CommitRevisions, WithDecisions
  <2>2. Decides(decisions)
    BY <2>1, DecisionsRevise DEF IInv
  <2>3. ASSUME NEW i \in Items
        PROVE  /\ \/ pool'[i].status = pool[i].status
                  \/ pool[i].status = "NEGOTIATING" /\ pool'[i].status = "WITHDRAWN"
               /\ pool'[i].status \in Status
    BY <2>2 DEF Decides, AnyItem
  <2>4. debate_round > 0
    BY <1>2 DEF GateIsCurrent, IInv, PoolTyped
  <2>5. [i \in Items |-> pool'[i].status] \in [Items -> Lifecycle!Status]
    BY <2>3 DEF Status, Inactive, Lifecycle!Status, Lifecycle!Decided
  <2> QED
    BY <2>1, <2>3, <2>4, <2>5 DEF Lifecycle!Next, Lifecycle!Withdraw
<1> QED
  BY <1>1, <1>2 DEF ReviseProposals

LEMMA ScoreStepMaps == ASSUME IInv, ScoreRevisions PROVE [Lifecycle!Next]_(Lifecycle!vars)
<1>1. CASE Fail("score", "refused") \/ Fail("score", "call")
  BY <1>1, StutterMaps DEF Fail
<1>2. ASSUME NEW scores, CommitScores(scores), ~ Fail("score", "refused")
      PROVE  [Lifecycle!Next]_(Lifecycle!vars)
  <2>1. pool' = WithScores(scores) /\ debate_round' = debate_round
    BY <1>2 DEF CommitScores, WithScores
  <2>2. ASSUME NEW i \in Items PROVE pool'[i].status = pool[i].status
    <3>1. pool[i] \in AnyItem
      BY DEF IInv, PoolTyped
    <3> QED
      BY <2>1, <3>1 DEF Scored, WithScores, AnyItem
  <2> QED
    BY <2>1, <2>2, StutterMaps
<1> QED
  BY <1>1, <1>2 DEF ScoreRevisions

LEMMA StepMaps == IInv /\ [Next]_vars => [Lifecycle!Next]_(Lifecycle!vars)
<1> SUFFICES ASSUME IInv, [Next]_vars PROVE [Lifecycle!Next]_(Lifecycle!vars)
  OBVIOUS
<1>1. CASE UNCHANGED <<pool, debate_round>>
  BY <1>1, StutterMaps
<1>2. CASE ExchangeReasons \/ ValidateScores \/ CompleteScored \/ CompleteUnscored \/ Assemble
  BY <1>1, <1>2 DEF ExchangeReasons, ValidateScores, CompleteScored, CompleteUnscored,
                    CompleteRound, Assemble, Fail
<1> QED
  BY <1>1, <1>2, GateStepMaps, BeginStepMaps, ReviseStepMaps, ScoreStepMaps
     DEF Next, Ended, vars

LEMMA InitMaps == Init => Lifecycle!Init
<1> SUFFICES ASSUME Init PROVE Lifecycle!Init
  OBVIOUS
<1>1. \A i \in Items : pool[i].status = "PROPOSED"
  BY DEF Init
<1> QED
  BY <1>1 DEF Init, Lifecycle!Init

\* However the managers argue, decide and score: decisions are final, a slot is won
\* once, a proposal is rejected for a winner only and left out in the last round only.
THEOREM Implements == Spec => ImplementsLifecycle
<1>1. Spec => Lifecycle!Init /\ [][Lifecycle!Next]_(Lifecycle!vars)
  BY InitMaps, StepMaps, Invariance, PTL DEF Spec
<1> QED
  BY <1>1 DEF ImplementsLifecycle, Lifecycle!Spec

-----------------------------------------------------------------------------
(* The audit trail: the records of a negotiation explain its pool, and its  *)
(* nodes never refuse them.                                                 *)

-----------------------------------------------------------------------------
(* The audit trail.                                                        *)

\* Records have the types of their models, and none is of a round to come.
RecordsTyped ==
  /\ exchanges \subseteq [round: 1..debate_round, reviewer: Manager]
  /\ revisions \subseteq [round: 1..debate_round, item: Items, action: Action]
  /\ score_records \subseteq [round: 1..debate_round, manager: Manager]
  /\ IsFiniteSet(revisions) /\ IsFiniteSet(rounds)

\* The decisions that changed a proposal.
Changes(i) == {r \in revisions : r.item = i /\ r.action # "KEEP"}

\* The records explain what has become of a proposal.
PoolExplained ==
  \A i \in Items :
    /\ pool[i].revision = 1 + Cardinality(Changes(i))
    /\ pool[i].status = "WITHDRAWN" <=> \E r \in Changes(i) : r.action = "WITHDRAW"

\* A proposer decides when the other manager has given its reasons.
ReasonsFirst ==
  \A r \in revisions : \E e \in exchanges :
    e.round = r.round /\ e.reviewer = Other(Proposer(r.item))

\* Managers insist on what is still open.
OwnSupport == \A i \in Active(pool) : pool[i].scores[Proposer(i)] > 0

InRound == {"exchange", "revise", "score", "unscored", "validate", "complete"}
Revising == {"score", "unscored", "validate", "complete"}

\* What the round under way has recorded, stage by stage.
StagesRecorded ==
  /\ pc = "exchange" => Of(debate_round, exchanges) = {}
  /\ pc = "revise" => {r.reviewer : r \in Of(debate_round, exchanges)} = Reviewers
  /\ pc \in {"exchange", "revise"} =>
       Of(debate_round, revisions) = {} /\ Negotiating(pool) # {}
  /\ pc \in {"exchange", "revise", "score", "unscored"} => Of(debate_round, score_records) = {}
  /\ pc \in {"validate", "complete"} =>
       {r.manager : r \in Of(debate_round, score_records)} = Manager
  /\ pc \in Revising =>
       /\ Of(debate_round, revisions) # {}
       /\ {r.reviewer : r \in Of(debate_round, exchanges)}
            = {Other(m) : m \in {Proposer(r.item) : r \in Of(debate_round, revisions)}}
       /\ \A r, q \in Of(debate_round, revisions) : r.item = q.item => r = q
       /\ application.round = debate_round
       /\ application.material =
            {r.item : r \in {q \in Of(debate_round, revisions) : q.action # "KEEP"}}
  /\ pc = "score" => application.rescore # {}
  /\ pc = "complete" => validation.round = debate_round /\ validation.valid

\* The report of the gate is the one the next node expects.
ReportFits ==
  /\ pc = "gate" \/ pc \in Revising => report.round = debate_round - 1
  /\ pc = "begin" => /\ report.route = "begin" /\ report.round = debate_round
                     /\ debate_round < MaxRounds
                     /\ report.source = Source(pool, debate_round)
  /\ pc \in {"exchange", "revise"} =>
       /\ report.route = "begin" /\ report.round = debate_round - 1
       /\ report.source = Source(pool, debate_round - 1)
  /\ pc = "assemble" => report.route = "assemble" /\ ReportDescribesPool

\* Rounds are completed one after the other.
RoundsCounted ==
  LET n == Cardinality(rounds)
  IN /\ {s.round : s \in rounds} = 1..n
     /\ n <= debate_round
     /\ pc \in InRound => n = debate_round - 1
     /\ pc \in {"begin", "gate", "assemble", "done"} => n = debate_round

\* A summary tells what its round recorded.
Summarises(s) ==
  /\ s.changes = Cardinality({r \in Of(s.round, revisions) : r.action # "KEEP"})
  /\ s.exchanged = {Other(m) : m \in s.revised}
  /\ s.scored = {r.manager : r \in Of(s.round, score_records)}

SummariesRight == \A s \in rounds : Summarises(s)

AuditInv ==
  /\ failure # "refused"
  /\ RecordsTyped
  /\ PoolExplained
  /\ ReasonsFirst
  /\ OwnSupport
  /\ StagesRecorded
  /\ ReportFits
  /\ RoundsCounted
  /\ SummariesRight

\* A step that leaves the records and what they explain alone.
LEMMA RecordsKept ==
  ASSUME AuditInv, UNCHANGED recordVars, debate_round' \in {debate_round, debate_round + 1},
         debate_round \in Nat,
         \A i \in Items : /\ pool'[i].revision = pool[i].revision
                          /\ pool'[i].status = "WITHDRAWN" <=> pool[i].status = "WITHDRAWN"
  PROVE  RecordsTyped' /\ PoolExplained' /\ ReasonsFirst' /\ SummariesRight'
<1>1. 1..debate_round \subseteq 1..debate_round'
  OBVIOUS
<1>2. RecordsTyped'
  BY <1>1 DEF AuditInv, RecordsTyped, recordVars
<1>3. PoolExplained'
  BY DEF AuditInv, PoolExplained, Changes, recordVars
<1>4. ReasonsFirst' /\ SummariesRight'
  BY DEF AuditInv, ReasonsFirst, SummariesRight, Summarises, Of, recordVars
<1> QED
  BY <1>2, <1>3, <1>4

LEMMA FailAudited ==
  ASSUME IInv, AuditInv, NEW node, NEW cause, cause # "refused", Fail(node, cause)
  PROVE  AuditInv'
<1>1. /\ UNCHANGED <<debate_round, pool, recordVars>>
      /\ pc' = "failed" /\ failure' # "refused"
  BY DEF Fail, Step
<1>2. RecordsTyped' /\ PoolExplained' /\ ReasonsFirst' /\ SummariesRight'
  BY <1>1, RecordsKept DEF IInv, PoolTyped
<1>3. OwnSupport' /\ RoundsCounted'
  BY <1>1 DEF AuditInv, OwnSupport, Active, RoundsCounted, InRound, recordVars
<1>4. StagesRecorded' /\ ReportFits'
  BY <1>1 DEF StagesRecorded, ReportFits, Revising
<1> QED
  BY <1>1, <1>2, <1>3, <1>4 DEF AuditInv

LEMMA AtMostOneElement ==
  ASSUME NEW S, \A x, y \in S : x = y
  PROVE  ~ (Cardinality(S) > 1)
<1>1. CASE S = {}
  BY <1>1, FS_EmptySet
<1>2. ASSUME NEW x \in S PROVE ~ (Cardinality(S) > 1)
  <2>1. S = {x}
    OBVIOUS
  <2>2. Cardinality(S) = 1
    BY <2>1, FS_Singleton
  <2> QED
    BY <2>2
<1> QED
  BY <1>1, <1>2

\* The gate is never asked to rule where it cannot.
LEMMA GateCanRule ==
  ASSUME IInv, AuditInv, pc = "gate"
  PROVE  /\ ~ (debate_round > MaxRounds) /\ report.round # debate_round
         /\ Exclusive(pool) /\ OneEach
<1>1. debate_round \in Nat /\ debate_round <= MaxRounds
  BY NegotiationAssumption DEF IInv, PoolTyped
<1>2. report.round = debate_round - 1
  BY DEF AuditInv, ReportFits
<1>3. Exclusive(pool)
  BY DEF IInv, SidesTaken
<1>4. ASSUME NEW slot \in Slot, NEW x \in Winners(pool, slot), NEW y \in Winners(pool, slot), x # y
      PROVE  FALSE
  <2>1. x \in Items /\ y \in Items /\ SlotOf[x] = slot /\ SlotOf[y] = slot
    BY DEF Winners, Candidates
  <2>2. y \in Rivals(x)
    BY <1>4, <2>1 DEF Rivals
  <2>3. CASE pool[x].status = "AGREED" /\ pool[y].status = "AGREED"
    BY <2>1, <2>2, <2>3 DEF IInv, SlotsWon
  <2>4. CASE ~ (pool[x].status = "AGREED" /\ pool[y].status = "AGREED")
    <3>1. /\ pool[x].status \notin {"REJECTED", "WITHDRAWN"} /\ Passes(pool[x])
          /\ pool[y].status \notin {"REJECTED", "WITHDRAWN"} /\ Passes(pool[y])
      BY <2>4 DEF Winners, Candidates
    <3>2. x \in Active(pool) /\ y \in Active(pool)
      BY <2>1, <3>1 DEF IInv, RoundsEnd, Active, Inactive
    <3> QED
      BY <1>3, <2>1, <2>2, <3>1, <3>2, OnePasses DEF IInv
  <2> QED
    BY <2>3, <2>4
<1>5. OneEach
  BY <1>4, AtMostOneElement DEF OneEach
<1> QED
  BY <1>1, <1>2, <1>3, <1>5, NegotiationAssumption

LEMMA GateAudited == ASSUME IInv, AuditInv, ConsensusGate PROVE AuditInv'
<1>1. /\ pc = "gate" /\ OneEach
      /\ pool' = Evaluated(pool) /\ report' = Report(pool) /\ pc' = report'.route
      /\ UNCHANGED <<debate_round, recordVars, failure>>
  BY GateCanRule DEF ConsensusGate, Step, OneEach
<1>2. /\ \A i \in Items : pool[i].status # "EXCLUDED"
      /\ \A i \in Items : pool[i].status = "AGREED" => Passes(pool[i])
  BY <1>1 DEF IInv, RoundsEnd, ScoresCurrent
<1>3. \A i \in Items : /\ pool'[i].status = Outcome(pool, i)
                       /\ SameText(i) /\ Ruled(i, Outcome(pool, i))
  BY <1>1, <1>2, EvaluatedPool DEF IInv
<1>4. \A i \in Items : pool'[i].status = "WITHDRAWN" <=> pool[i].status = "WITHDRAWN"
  <2> SUFFICES ASSUME NEW i \in Items
               PROVE  Outcome(pool, i) = "WITHDRAWN" <=> pool[i].status = "WITHDRAWN"
    BY <1>3
  <2>1. pool[i].status = "WITHDRAWN" => Outcome(pool, i) = "WITHDRAWN"
    BY <1>3 DEF Ruled, Decided
  <2>2. Outcome(pool, i) = "WITHDRAWN" => pool[i].status = "WITHDRAWN"
    BY DEF Outcome
  <2> QED
    BY <2>1, <2>2
<1>5. RecordsTyped' /\ PoolExplained' /\ ReasonsFirst' /\ SummariesRight'
  BY <1>1, <1>3, <1>4, RecordsKept DEF IInv, PoolTyped, SameText
<1>6. OwnSupport'
  <2>1. ASSUME NEW i \in Items, pool'[i].status \notin Inactive PROVE i \in Active(pool)
    <3>1. pool[i].status \in Status /\ pool[i].status # "EXCLUDED"
      BY <1>2 DEF IInv, PoolTyped, AnyItem
    <3>2. pool[i].status \in Decided => pool'[i].status = pool[i].status
      BY <1>3 DEF Ruled
    <3> QED
      BY <2>1, <3>1, <3>2 DEF Active, Decided, Status, Inactive
  <2> QED
    BY <1>3, <2>1 DEF AuditInv, OwnSupport, Active, SameText
<1>7. /\ report'.round = debate_round
      /\ report'.source = Source(pool, debate_round)
      /\ report'.outcome = [i \in Items |-> Outcome(pool, i)]
      /\ report'.revision = [i \in Items |-> pool[i].revision]
      /\ report'.missing = Missing(Evaluated(pool))
      /\ report'.route = IF Negotiating(Evaluated(pool)) = {} THEN "assemble" ELSE "begin"
  BY <1>1 DEF Report
<1>8. Source(pool', debate_round) = Source(pool, debate_round)
  BY <1>3 DEF Source, SameText
<1>9. pc' = "begin" => debate_round < MaxRounds
  <2> SUFFICES ASSUME NEW i \in Items, pool'[i].status = "NEGOTIATING" PROVE debate_round < MaxRounds
    BY <1>1, <1>7 DEF Negotiating
  <2> QED
    BY <1>3 DEF Ruled
<1>10. ReportFits'
  <2>1. ReportDescribesPool'
    BY <1>1, <1>3, <1>7, <1>8 DEF ReportDescribesPool, SameText
  <2>2. pc' \in {"begin", "assemble"}
    BY <1>1, <1>7
  <2> QED
    BY <1>1, <1>7, <1>8, <1>9, <2>1, <2>2 DEF ReportFits, Revising
<1>11. RoundsCounted'
  BY <1>1, <1>7 DEF AuditInv, RoundsCounted, InRound, recordVars
<1>12. StagesRecorded'
  BY <1>1, <1>7 DEF StagesRecorded, Revising
<1> QED
  BY <1>1, <1>5, <1>6, <1>10, <1>11, <1>12 DEF AuditInv

LEMMA BeginAudited == ASSUME IInv, AuditInv, Begin PROVE AuditInv'
<1>1. pc = "begin" /\ pc' = "exchange" /\ UNCHANGED <<pool, report, recordVars, failure>>
  BY DEF Begin, Step
<1>2. /\ report.route = "begin" /\ report.round = debate_round
      /\ debate_round < MaxRounds /\ report.source = Source(pool, debate_round)
  BY <1>1 DEF AuditInv, ReportFits
<1>3. debate_round \in Nat
  BY DEF IInv, PoolTyped
<1>4. report # NoReport
  <2>1. NoReport.round = -1
    BY DEF NoReport
  <2> QED
    BY <1>2, <1>3, <2>1
<1>5. debate_round' = debate_round + 1
  BY <1>2, <1>4 DEF Begin
<1>6. RecordsTyped' /\ PoolExplained' /\ ReasonsFirst' /\ SummariesRight'
  BY <1>1, <1>3, <1>5, RecordsKept
<1>7. OwnSupport'
  BY <1>1 DEF AuditInv, OwnSupport, Active
<1>8. /\ Of(debate_round', exchanges) = {} /\ Of(debate_round', revisions) = {}
      /\ Of(debate_round', score_records) = {}
  BY <1>3, <1>5 DEF AuditInv, RecordsTyped, Of
<1>9. StagesRecorded'
  <2>1. Negotiating(pool) # {}
    BY <1>1 DEF IInv, RoundsEnd
  <2> QED
    BY <1>1, <1>8, <2>1 DEF StagesRecorded, Revising, recordVars, Of, Negotiating
<1>10. ReportFits'
  <2>1. debate_round' - 1 = debate_round
    BY <1>3, <1>5
  <2> QED
    BY <1>1, <1>2, <2>1 DEF ReportFits, Revising, Source
<1>11. RoundsCounted'
  <2>1. Cardinality(rounds) = debate_round /\ {s.round : s \in rounds} = 1..Cardinality(rounds)
    BY <1>1 DEF AuditInv, RoundsCounted
  <2> QED
    BY <1>1, <1>3, <1>5, <2>1 DEF RoundsCounted, InRound, recordVars
<1> QED
  BY <1>1, <1>6, <1>7, <1>9, <1>10, <1>11 DEF AuditInv

\* In a round, the gate's report is the one that opened it, and completed rounds are
\* over.
LEMMA RoundUnderWay ==
  ASSUME IInv, AuditInv, pc \in InRound
  PROVE  /\ debate_round \in Nat /\ debate_round >= 1
         /\ pc \in {"exchange", "revise"} => GateIsCurrent /\ Proposers # {} /\ Reviewers # {}
         /\ \A s \in rounds : s.round \in Nat /\ s.round < debate_round
<1>1. IsFiniteSet(rounds)
  BY DEF AuditInv, RecordsTyped
<1>2. Cardinality(rounds) \in Nat
  BY <1>1, FS_CardinalityType
<1>3. Cardinality(rounds) = debate_round - 1 /\ {s.round : s \in rounds} = 1..Cardinality(rounds)
  BY DEF AuditInv, RoundsCounted
<1>4. debate_round \in Nat /\ debate_round >= 1
  BY <1>2, <1>3 DEF IInv, PoolTyped
<1>5. ASSUME NEW s \in rounds PROVE s.round \in Nat /\ s.round < debate_round
  <2>1. s.round \in 1..Cardinality(rounds)
    BY <1>3
  <2> QED
    BY <1>2, <1>3, <1>4, <2>1
<1>6. ASSUME pc \in {"exchange", "revise"} PROVE GateIsCurrent /\ Proposers # {} /\ Reviewers # {}
  <2>1. /\ report.route = "begin" /\ report.round = debate_round - 1
        /\ report.source = Source(pool, debate_round - 1)
        /\ Negotiating(pool) # {}
    BY <1>6 DEF AuditInv, ReportFits, StagesRecorded
  <2>2. NoReport.round = -1
    BY DEF NoReport
  <2>3. report # NoReport
    BY <1>4, <2>1, <2>2
  <2> QED
    BY <1>4, <2>1, <2>3 DEF GateIsCurrent, Proposers, Reviewers
<1> QED
  BY <1>4, <1>5, <1>6

LEMMA OtherManager == \A i \in Items : Proposer(i) \in Manager /\ Other(Proposer(i)) \in Manager
<1> SUFFICES ASSUME NEW i \in Items PROVE i[2] \in Manager
  BY DEF Proposer, Other, Manager
<1> QED
  BY NegotiationAssumption

LEMMA ExchangeAudited == ASSUME IInv, AuditInv, ExchangeReasons PROVE AuditInv'
<1> DEFINE new == {[round |-> debate_round, reviewer |-> m] : m \in Reviewers}
<1>1. pc = "exchange" /\ pc \in InRound
  BY DEF ExchangeReasons, InRound
<1>2. /\ debate_round \in Nat /\ debate_round >= 1
      /\ GateIsCurrent /\ Proposers # {} /\ Reviewers # {}
  BY <1>1, RoundUnderWay
<1>3. Of(debate_round, exchanges) = {}
  BY <1>1 DEF AuditInv, StagesRecorded
<1>4. CASE Fail("exchange", "call")
  BY <1>4, FailAudited
<1>5. CASE /\ exchanges' = exchanges \cup new
           /\ pc' = "revise"
           /\ UNCHANGED <<debate_round, pool, report, application, validation,
                          revisions, score_records, rounds, recommendation, failure>>
  <2>1. Reviewers \subseteq Manager
    BY OtherManager DEF Reviewers, Proposers, Negotiating
  <2>2. RecordsTyped'
    BY <1>2, <1>5, <2>1 DEF AuditInv, RecordsTyped
  <2>3. PoolExplained' /\ ReasonsFirst' /\ SummariesRight' /\ OwnSupport'
    BY <1>5 DEF AuditInv, PoolExplained, Changes, ReasonsFirst, SummariesRight, Summarises, Of,
                OwnSupport, Active
  <2>4. {r.reviewer : r \in Of(debate_round, exchanges')} = Reviewers
    <3>1. Of(debate_round, exchanges') = new
      BY <1>3, <1>5 DEF Of
    <3>2. {r.reviewer : r \in new} = Reviewers
      <4>1. \A r \in new : r.reviewer \in Reviewers
        OBVIOUS
      <4>2. ASSUME NEW m \in Reviewers PROVE \E r \in new : r.reviewer = m
        <5>1. [round |-> debate_round, reviewer |-> m] \in new
          OBVIOUS
        <5> QED
          BY <5>1
      <4> HIDE DEF new
      <4> QED
        BY <4>1, <4>2
    <3> QED
      BY <3>1, <3>2
  <2>5. StagesRecorded'
    <3>1. Reviewers' = Reviewers
      BY <1>5 DEF Reviewers, Proposers, Negotiating
    <3> QED
      BY <1>1, <1>5, <2>4, <3>1 DEF AuditInv, StagesRecorded, Revising, Of, Negotiating
  <2>6. ReportFits' /\ RoundsCounted'
    BY <1>1, <1>5 DEF AuditInv, ReportFits, Source, Revising, RoundsCounted, InRound
  <2> QED
    BY <1>5, <2>2, <2>3, <2>5, <2>6 DEF AuditInv
<1> QED
  BY <1>2, <1>3, <1>4, <1>5 DEF ExchangeReasons, Step

\* The record of decision a on proposal i.
Decision(i, a) == [round |-> debate_round, item |-> i, action |-> a]

\* What a revision stage records.
Decisions(d) == {Decision(i, d[i]) : i \in Negotiating(pool)}

LEMMA DecisionsRecorded ==
  ASSUME IInv, AuditInv, pc = "revise", NEW d \in [Negotiating(pool) -> Action]
  PROVE  /\ IsFiniteSet(Decisions(d))
         /\ Decisions(d) \subseteq [round: 1..debate_round, item: Items, action: Action]
         /\ \A r \in Decisions(d) : /\ r.round = debate_round /\ r.item \in Negotiating(pool)
                                    /\ r = Decision(r.item, d[r.item])
         /\ \A i \in Negotiating(pool) : Decision(i, d[i]) \in Decisions(d)
         /\ \A r \in revisions : r.round # debate_round
<1>1. Negotiating(pool) \subseteq Items
  BY DEF Negotiating
<1>2. IsFiniteSet(Negotiating(pool))
  BY <1>1, NegotiationAssumption, FS_Subset
<1>3. debate_round \in Nat /\ debate_round >= 1
  BY RoundUnderWay DEF InRound
<1>4. IsFiniteSet(Decisions(d))
  <2> DEFINE f == [i \in Negotiating(pool) |-> Decision(i, d[i])]
  <2>1. f \in Surjection(Negotiating(pool), Decisions(d))
    BY DEF Surjection, Decisions
  <2> HIDE DEF f
  <2> QED
    BY <1>2, <2>1, FS_Surjection
<1>5. Decisions(d) \subseteq [round: 1..debate_round, item: Items, action: Action]
  BY <1>1, <1>3 DEF Decisions, Decision
<1>6. \A r \in Decisions(d) : /\ r.round = debate_round /\ r.item \in Negotiating(pool)
                              /\ r = Decision(r.item, d[r.item])
  BY DEF Decisions, Decision
<1>7. \A i \in Negotiating(pool) : Decision(i, d[i]) \in Decisions(d)
  BY DEF Decisions
<1>8. \A r \in revisions : r.round # debate_round
  BY DEF AuditInv, StagesRecorded, Of
<1> QED
  BY <1>4, <1>5, <1>6, <1>7, <1>8

\* The records of the decisions explain what they did.
LEMMA DecisionsExplain ==
  ASSUME IInv, AuditInv, pc = "revise", NEW d \in [Negotiating(pool) -> Action],
         Decides(d), revisions' = revisions \cup Decisions(d)
  PROVE  PoolExplained'
<1>1. /\ \A r \in Decisions(d) : /\ r.round = debate_round /\ r.item \in Negotiating(pool)
                                 /\ r = Decision(r.item, d[r.item])
      /\ \A i \in Negotiating(pool) : Decision(i, d[i]) \in Decisions(d)
      /\ \A r \in revisions : r.round # debate_round
  BY DecisionsRecorded
<1>2. \A i \in Items : /\ pool[i].revision = 1 + Cardinality(Changes(i))
                       /\ pool[i].status = "WITHDRAWN" <=> \E r \in Changes(i) : r.action = "WITHDRAW"
  BY DEF AuditInv, PoolExplained
<1>3. \A i \in Items : IsFiniteSet(Changes(i))
  BY FS_Subset DEF AuditInv, RecordsTyped, Changes
<1> SUFFICES ASSUME NEW i \in Items
             PROVE  /\ pool'[i].revision = 1 + Cardinality(Changes(i)')
                    /\ pool'[i].status = "WITHDRAWN"
                         <=> \E r \in Changes(i)' : r.action = "WITHDRAW"
  BY DEF PoolExplained
<1>4. CASE i \notin Negotiating(pool)
  <2>1. Changes(i)' = Changes(i)
    BY <1>1, <1>4 DEF Changes
  <2>2. pool'[i] = pool[i]
    BY <1>4 DEF Decides
  <2> QED
    BY <1>2, <2>1, <2>2
<1>5. CASE i \in Negotiating(pool)
  <2> DEFINE x == Decision(i, d[i])
  <2>1. /\ x.item = i /\ x.action = d[i] /\ x.round = debate_round
        /\ x \in Decisions(d) /\ x \notin revisions
    BY <1>1, <1>5 DEF Decision
  <2>2. \A r \in Decisions(d) : r.item = i => r = x
    BY <1>1
  <2>3. /\ pool[i].status = "NEGOTIATING"
        /\ pool'[i].revision = IF d[i] = "KEEP" THEN pool[i].revision ELSE pool[i].revision + 1
        /\ pool'[i].status = IF d[i] = "WITHDRAW" THEN "WITHDRAWN" ELSE "NEGOTIATING"
    BY <1>5 DEF Decides
  <2>4. Cardinality(Changes(i)) \in Nat
    BY <1>3, FS_CardinalityType
  <2> HIDE DEF x
  <2>5. CASE d[i] = "KEEP"
    <3>1. Changes(i)' = Changes(i)
      BY <2>1, <2>2, <2>5 DEF Changes
    <3> QED
      BY <1>2, <2>3, <2>5, <3>1
  <2>6. CASE d[i] # "KEEP"
    <3>1. Changes(i)' = Changes(i) \cup {x} /\ x \notin Changes(i)
      BY <2>1, <2>2, <2>6 DEF Changes
    <3>2. Cardinality(Changes(i) \cup {x}) = Cardinality(Changes(i)) + 1
      BY <1>3, <3>1, FS_AddElement
    <3>3. pool'[i].revision = 1 + Cardinality(Changes(i)')
      BY <1>2, <2>3, <2>4, <2>6, <3>1, <3>2
    <3>4. \A r \in Changes(i) : r.action # "WITHDRAW"
      BY <1>2, <2>3
    <3>5. (\E r \in Changes(i)' : r.action = "WITHDRAW") <=> d[i] = "WITHDRAW"
      BY <2>1, <3>1, <3>4
    <3> QED
      BY <2>3, <3>3, <3>5
  <2> QED
    BY <2>5, <2>6
<1> QED
  BY <1>4, <1>5

\* Decisions leave a pool that its model accepts.
LEMMA DecisionsAccepted ==
  ASSUME IInv, AuditInv, NEW d \in [Negotiating(pool) -> Action]
  PROVE  ValidPool(WithDecisions(d))
<1> DEFINE q == WithDecisions(d)
<1>1. pool \in [Items -> AnyItem]
  BY DEF IInv, PoolTyped
<1>2. ASSUME NEW i \in Items
      PROVE  /\ q[i].scores = pool[i].scores
             /\ q[i].status \notin Inactive => pool[i].status \notin Inactive
             /\ q[i].status = "AGREED" <=> pool[i].status = "AGREED"
  <2>1. CASE i \in Negotiating(pool)
    <3>1. q[i] = Revised(pool[i], d[i]) /\ pool[i].status = "NEGOTIATING" /\ d[i] \in Action
      BY <2>1 DEF WithDecisions, Negotiating
    <3>2. /\ q[i].scores = pool[i].scores
          /\ q[i].status = IF d[i] = "WITHDRAW" THEN "WITHDRAWN" ELSE "NEGOTIATING"
      BY <1>1, <3>1, RevisedItem
    <3> QED
      BY <3>1, <3>2 DEF Inactive
  <2>2. CASE i \notin Negotiating(pool)
    BY <2>2 DEF WithDecisions
  <2> QED
    BY <2>1, <2>2
<1> HIDE DEF q
<1>3. \A i \in Active(q) : q[i].scores[Proposer(i)] > 0
  BY <1>2 DEF AuditInv, OwnSupport, Active
<1>4. \A i \in Items : q[i].status = "AGREED" => \A j \in Rivals(i) : q[j].status # "AGREED"
  BY <1>2 DEF IInv, SlotsWon, Rivals
<1> QED
  BY <1>3, <1>4 DEF ValidPool, q

\* The material decisions are of the proposals that changed.
LEMMA MaterialRecorded ==
  ASSUME IInv, AuditInv, pc = "revise", NEW d \in [Negotiating(pool) -> Action]
  PROVE  Material(d) = {r.item : r \in {q \in Decisions(d) : q.action # "KEEP"}}
<1> DEFINE M == {q \in Decisions(d) : q.action # "KEEP"}
<1>1. /\ \A r \in Decisions(d) : r.item \in Negotiating(pool) /\ r = Decision(r.item, d[r.item])
      /\ \A i \in Negotiating(pool) : Decision(i, d[i]) \in Decisions(d)
  BY DecisionsRecorded
<1>2. \A i \in Negotiating(pool) : Decision(i, d[i]).action = d[i] /\ Decision(i, d[i]).item = i
  BY DEF Decision
<1>3. ASSUME NEW r \in M PROVE r.item \in Material(d)
  BY <1>1, <1>2 DEF Material
<1>4. ASSUME NEW i \in Material(d) PROVE \E r \in M : r.item = i
  <2>1. i \in Negotiating(pool) /\ d[i] # "KEEP"
    BY DEF Material
  <2>2. Decision(i, d[i]) \in M /\ Decision(i, d[i]).item = i
    BY <1>1, <1>2, <2>1
  <2> QED
    BY <2>2
<1> HIDE DEF M
<1>5. Material(d) = {r.item : r \in M}
  BY <1>3, <1>4
<1> QED
  BY <1>5 DEF M

\* Every proposer has decided, and had been answered.
LEMMA ProposersAnswered ==
  ASSUME IInv, AuditInv, pc = "revise", NEW d \in [Negotiating(pool) -> Action]
  PROVE  /\ {Proposer(r.item) : r \in Decisions(d)} = Proposers
         /\ {r.reviewer : r \in Of(debate_round, exchanges)} = {Other(m) : m \in Proposers}
         /\ \A r \in Decisions(d) : \E e \in exchanges :
              e.round = r.round /\ e.reviewer = Other(Proposer(r.item))
         /\ Decisions(d) # {}
<1>1. /\ \A r \in Decisions(d) : r.round = debate_round /\ r.item \in Negotiating(pool)
      /\ \A i \in Negotiating(pool) : Decision(i, d[i]) \in Decisions(d)
  BY DecisionsRecorded
<1>2. /\ {r.reviewer : r \in Of(debate_round, exchanges)} = Reviewers
      /\ Negotiating(pool) # {}
  BY DEF AuditInv, StagesRecorded
<1>3. {Proposer(r.item) : r \in Decisions(d)} = Proposers
  <2>1. ASSUME NEW r \in Decisions(d) PROVE Proposer(r.item) \in Proposers
    BY <1>1 DEF Proposers
  <2>2. ASSUME NEW m \in Proposers PROVE \E r \in Decisions(d) : Proposer(r.item) = m
    <3>1. PICK i \in Negotiating(pool) : Proposer(i) = m
      BY DEF Proposers
    <3>2. Decision(i, d[i]) \in Decisions(d) /\ Decision(i, d[i]).item = i
      BY <1>1 DEF Decision
    <3> QED
      BY <3>1, <3>2
  <2> QED
    BY <2>1, <2>2
<1>4. ASSUME NEW r \in Decisions(d)
      PROVE  \E e \in exchanges : e.round = r.round /\ e.reviewer = Other(Proposer(r.item))
  <2>1. Other(Proposer(r.item)) \in Reviewers
    BY <1>1 DEF Reviewers, Proposers
  <2>2. PICK e \in Of(debate_round, exchanges) : e.reviewer = Other(Proposer(r.item))
    BY <1>2, <2>1
  <2> QED
    BY <1>1, <2>2 DEF Of
<1>5. Decisions(d) # {}
  BY <1>1, <1>2
<1> QED
  BY <1>2, <1>3, <1>4, <1>5 DEF Reviewers

LEMMA DecisionsAudited ==
  ASSUME IInv, AuditInv, pc = "revise", NEW d \in [Negotiating(pool) -> Action],
         CommitRevisions(d)
  PROVE  AuditInv'
<1>1. /\ pool' = WithDecisions(d)
      /\ revisions' = revisions \cup Decisions(d)
      /\ application' = Application(WithDecisions(d), d)
      /\ pc' = IF application'.rescore # {} THEN "score" ELSE "unscored"
      /\ UNCHANGED <<debate_round, report, exchanges, score_records, rounds, failure>>
  <2>1. ValidPool(WithDecisions(d))
    BY DecisionsAccepted
  <2>2. DOMAIN d = Negotiating(pool)
    OBVIOUS
  <2> QED
    BY <2>1, <2>2 DEF CommitRevisions, WithDecisions, Decisions, Decision, Step
<1>2. Decides(d)
  BY <1>1, DecisionsRevise DEF IInv
<1>3. /\ IsFiniteSet(Decisions(d))
      /\ Decisions(d) \subseteq [round: 1..debate_round, item: Items, action: Action]
      /\ \A r \in Decisions(d) : r.round = debate_round /\ r = Decision(r.item, d[r.item])
      /\ \A r \in revisions : r.round # debate_round
  BY DecisionsRecorded
<1>4. /\ debate_round \in Nat /\ debate_round >= 1
      /\ \A s \in rounds : s.round \in Nat /\ s.round < debate_round
  BY RoundUnderWay DEF InRound
<1>5. pc' \in {"score", "unscored"}
  BY <1>1
<1>6. Of(debate_round, revisions') = Decisions(d)
  BY <1>1, <1>3 DEF Of
<1>7. RecordsTyped'
  <2>1. IsFiniteSet(revisions \cup Decisions(d))
    BY <1>3, FS_Union DEF AuditInv, RecordsTyped
  <2> QED
    BY <1>1, <1>3, <2>1 DEF AuditInv, RecordsTyped
<1>8. PoolExplained'
  BY <1>1, <1>2, DecisionsExplain
<1>9. ReasonsFirst'
  BY <1>1, ProposersAnswered DEF AuditInv, ReasonsFirst
<1>10. OwnSupport'
  <2>1. ASSUME NEW i \in Active(pool') PROVE i \in Active(pool) /\ pool'[i].scores = pool[i].scores
    BY <1>2 DEF Decides, Active, Negotiating, Inactive
  <2> QED
    BY <2>1 DEF AuditInv, OwnSupport, Active
<1>11. StagesRecorded'
  <2>1. /\ Of(debate_round, revisions') # {}
        /\ {r.reviewer : r \in Of(debate_round, exchanges)}
             = {Other(m) : m \in {Proposer(r.item) : r \in Of(debate_round, revisions')}}
    BY <1>6, ProposersAnswered
  <2>2. \A r, q \in Of(debate_round, revisions') : r.item = q.item => r = q
    BY <1>3, <1>6
  <2>3. application'.round = debate_round /\ application'.material = Material(d)
    BY <1>1 DEF Application
  <2>4. application'.material
          = {r.item : r \in {q \in Of(debate_round, revisions') : q.action # "KEEP"}}
    BY <1>6, <2>3, MaterialRecorded
  <2>5. Of(debate_round, score_records) = {}
    BY DEF AuditInv, StagesRecorded
  <2> QED
    BY <1>1, <1>5, <2>1, <2>2, <2>3, <2>4, <2>5 DEF StagesRecorded, Of
<1>12. ReportFits'
  <2>1. report.round = debate_round - 1
    BY DEF AuditInv, ReportFits
  <2> QED
    BY <1>1, <1>5, <2>1 DEF ReportFits
<1>13. RoundsCounted'
  BY <1>1, <1>5 DEF AuditInv, RoundsCounted, InRound
<1>14. SummariesRight'
  <2> SUFFICES ASSUME NEW s \in rounds PROVE Summarises(s)'
    BY <1>1 DEF SummariesRight
  <2>1. Of(s.round, revisions') = Of(s.round, revisions)
    BY <1>1, <1>3, <1>4 DEF Of
  <2>2. Summarises(s)
    BY DEF AuditInv, SummariesRight
  <2> QED
    BY <1>1, <2>1, <2>2 DEF Summarises
<1> QED
  BY <1>1, <1>7, <1>8, <1>9, <1>10, <1>11, <1>12, <1>13, <1>14 DEF AuditInv

LEMMA ReviseAudited == ASSUME IInv, AuditInv, ReviseProposals PROVE AuditInv'
<1>1. pc = "revise" /\ pc \in InRound
  BY DEF ReviseProposals, InRound
<1>2. GateIsCurrent /\ Proposers # {}
  BY <1>1, RoundUnderWay
<1>3. /\ Of(debate_round, revisions) = {}
      /\ {r.reviewer : r \in Of(debate_round, exchanges)} = Reviewers
  BY <1>1 DEF AuditInv, StagesRecorded
<1>4. CASE Fail("revise", "call")
  BY <1>4, FailAudited
<1>5. CASE \E d \in [Negotiating(pool) -> Action] : CommitRevisions(d)
  BY <1>1, <1>5, DecisionsAudited
<1> QED
  BY <1>2, <1>3, <1>4, <1>5 DEF ReviseProposals

\* Managers are in favour of their own proposals.
OwnFavoured(g) == \A i \in application.rescore : g[i][Proposer(i)] > 0

LEMMA ScoresAccepted ==
  ASSUME IInv, AuditInv, pc = "score",
         NEW g \in [application.rescore -> [Manager -> Score]], OwnFavoured(g)
  PROVE  ValidPool(WithScores(g))
<1> DEFINE q == WithScores(g)
<1>1. pool \in [Items -> AnyItem]
  BY DEF IInv, PoolTyped
<1>2. ASSUME NEW i \in Items
      PROVE  /\ q[i].status = pool[i].status
             /\ i \notin application.rescore => q[i].scores = pool[i].scores
             /\ i \in application.rescore => q[i].scores = g[i]
  <2>1. CASE i \in application.rescore
    <3>1. q[i] = Scored(pool[i], g[i]) /\ pool[i] \in AnyItem
      BY <1>1, <2>1 DEF WithScores
    <3>2. Scored(pool[i], g[i]).status = pool[i].status /\ Scored(pool[i], g[i]).scores = g[i]
      BY <3>1 DEF Scored, AnyItem
    <3> QED
      BY <2>1, <3>1, <3>2
  <2>2. CASE i \notin application.rescore
    BY <2>2 DEF WithScores
  <2> QED
    BY <2>1, <2>2
<1> HIDE DEF q
<1>3. \A i \in Active(q) : q[i].scores[Proposer(i)] > 0
  BY <1>2 DEF AuditInv, OwnSupport, OwnFavoured, Active
<1>4. \A i \in Items : q[i].status = "AGREED" => \A j \in Rivals(i) : q[j].status # "AGREED"
  BY <1>2 DEF IInv, SlotsWon, Rivals
<1> QED
  BY <1>3, <1>4 DEF ValidPool, q

LEMMA ScoresAudited ==
  ASSUME IInv, AuditInv, pc = "score",
         NEW g \in [application.rescore -> [Manager -> Score]], OwnFavoured(g),
         CommitScores(g)
  PROVE  AuditInv'
<1> DEFINE new == {[round |-> debate_round, manager |-> m] : m \in Manager}
<1>1. /\ pool' = WithScores(g)
      /\ score_records' = score_records \cup new
      /\ pc' = "validate"
      /\ UNCHANGED <<debate_round, report, application, validation, exchanges,
                     revisions, rounds, failure>>
  BY ScoresAccepted DEF CommitScores, WithScores, Step
<1>2. Rescores(g)
  BY <1>1, ScoresRescore DEF IInv
<1>3. /\ debate_round \in Nat /\ debate_round >= 1
      /\ \A s \in rounds : s.round \in Nat /\ s.round < debate_round
  BY RoundUnderWay DEF InRound
<1>4. RecordsTyped'
  BY <1>1, <1>3 DEF AuditInv, RecordsTyped
<1>5. PoolExplained' /\ ReasonsFirst'
  BY <1>1, <1>2 DEF AuditInv, PoolExplained, Changes, ReasonsFirst, Rescores
<1>6. OwnSupport'
  <2> SUFFICES ASSUME NEW i \in Items, pool'[i].status \notin Inactive
               PROVE  pool'[i].scores[Proposer(i)] > 0
    BY DEF OwnSupport, Active
  <2>1. CASE i \in application.rescore
    BY <1>2, <2>1 DEF Rescores, OwnFavoured
  <2>2. CASE i \notin application.rescore
    BY <1>2, <2>2 DEF Rescores, AuditInv, OwnSupport, Active
  <2> QED
    BY <2>1, <2>2
<1>7. {r.manager : r \in Of(debate_round, score_records')} = Manager
  <2>1. Of(debate_round, score_records') = new
    <3>1. Of(debate_round, score_records) = {}
      BY DEF AuditInv, StagesRecorded
    <3> QED
      BY <1>1, <3>1 DEF Of
  <2>2. \A r \in new : r.manager \in Manager
    OBVIOUS
  <2>3. ASSUME NEW m \in Manager PROVE \E r \in new : r.manager = m
    <3>1. [round |-> debate_round, manager |-> m] \in new
      OBVIOUS
    <3> QED
      BY <3>1
  <2> HIDE DEF new
  <2>4. {r.manager : r \in new} = Manager
    BY <2>2, <2>3
  <2> QED
    BY <2>1, <2>4
<1>8. StagesRecorded'
  BY <1>1, <1>7 DEF AuditInv, StagesRecorded, Revising, Of
<1>9. ReportFits' /\ RoundsCounted'
  BY <1>1 DEF AuditInv, ReportFits, Revising, RoundsCounted, InRound
<1>10. SummariesRight'
  <2> SUFFICES ASSUME NEW s \in rounds PROVE Summarises(s)'
    BY <1>1 DEF SummariesRight
  <2>1. Of(s.round, score_records') = Of(s.round, score_records)
    BY <1>1, <1>3 DEF Of
  <2>2. Summarises(s)
    BY DEF AuditInv, SummariesRight
  <2>3. Of(s.round, revisions') = Of(s.round, revisions)
    BY <1>1
  <2> QED
    BY <2>1, <2>2, <2>3 DEF Summarises
<1> QED
  BY <1>1, <1>4, <1>5, <1>6, <1>8, <1>9, <1>10 DEF AuditInv

LEMMA ScoreAudited == ASSUME IInv, AuditInv, ScoreRevisions PROVE AuditInv'
<1>1. pc = "score" /\ pc \in InRound /\ pc \in Revising
  BY DEF ScoreRevisions, InRound, Revising
<1>2. /\ application.round = debate_round /\ application.rescore # {}
      /\ Of(debate_round, revisions) # {} /\ Of(debate_round, score_records) = {}
  BY <1>1 DEF AuditInv, StagesRecorded
<1>3. application # NoApplication
  <2>1. debate_round # 0
    BY <1>1, RoundUnderWay
  <2> QED
    BY <1>2, <2>1 DEF NoApplication
<1>4. application.rescore \cap Active(pool) = application.rescore
  BY <1>1 DEF IInv, ScoresCurrent
<1>5. CASE Fail("score", "call")
  BY <1>5, FailAudited
<1>6. ASSUME NEW own \in [application.rescore -> {s \in Score : s > 0}],
             NEW other \in [application.rescore -> Score],
             CommitScores(Drafted(own, other))
      PROVE  AuditInv'
  <2>1. Drafted(own, other) \in [application.rescore -> [Manager -> Score]]
    BY DEF Drafted
  <2>2. OwnFavoured(Drafted(own, other))
    <3> SUFFICES ASSUME NEW i \in application.rescore PROVE Drafted(own, other)[i][Proposer(i)] > 0
      BY DEF OwnFavoured
    <3>1. i \in Items
      BY <1>4 DEF Active
    <3>2. Drafted(own, other)[i][Proposer(i)] = own[i]
      BY <3>1, OtherManager DEF Drafted
    <3> QED
      BY <3>2
  <2> QED
    BY <1>1, <1>6, <2>1, <2>2, ScoresAudited
<1> QED
  BY <1>2, <1>3, <1>4, <1>5, <1>6 DEF ScoreRevisions

LEMMA ValidateAudited == ASSUME IInv, AuditInv, ValidateScores PROVE AuditInv'
<1>1. CASE ~ Exclusive(pool)
  BY <1>1, FailAudited DEF ValidateScores
<1>2. CASE Exclusive(pool)
  <2>1. /\ pc = "validate" /\ pc' = "complete"
        /\ validation'.round = debate_round /\ validation'.valid = Exclusive(pool)
        /\ UNCHANGED <<application, debate_round, pool, report, recordVars, failure>>
    BY <1>2 DEF ValidateScores, Step
  <2>2. debate_round \in Nat
    BY DEF IInv, PoolTyped
  <2>3. RecordsTyped' /\ PoolExplained' /\ ReasonsFirst' /\ SummariesRight'
    BY <2>1, <2>2, RecordsKept
  <2>4. OwnSupport' /\ ReportFits' /\ RoundsCounted'
    BY <2>1 DEF AuditInv, OwnSupport, Active, ReportFits, Revising, RoundsCounted, InRound,
                recordVars
  <2>5. StagesRecorded'
    BY <1>2, <2>1 DEF AuditInv, StagesRecorded, Revising, recordVars, Of
  <2> QED
    BY <2>1, <2>3, <2>4, <2>5 DEF AuditInv
<1> QED
  BY <1>1, <1>2

\* A round changes as many proposals as it has material decisions.
LEMMA ChangesCounted ==
  ASSUME IInv, AuditInv, pc \in Revising
  PROVE  Cardinality(application.material)
           = Cardinality({r \in Of(debate_round, revisions) : r.action # "KEEP"})
<1> DEFINE M == {r \in Of(debate_round, revisions) : r.action # "KEEP"}
           f == [r \in M |-> r.item]
<1>1. /\ application.material = {r.item : r \in M}
      /\ \A r, q \in M : r.item = q.item => r = q
  BY DEF AuditInv, StagesRecorded
<1>2. IsFiniteSet(M)
  <2>1. M \subseteq revisions
    BY DEF Of
  <2> QED
    BY <2>1, FS_Subset DEF AuditInv, RecordsTyped
<1>3. f \in Bijection(M, application.material)
  <2>1. f \in [M -> application.material]
    BY <1>1
  <2>2. \A i \in application.material : \E r \in M : f[r] = i
    BY <1>1
  <2>3. \A r, q \in M : f[r] = f[q] => r = q
    BY <1>1
  <2> HIDE DEF f, M
  <2> QED
    BY <2>1, <2>2, <2>3 DEF Bijection, Injection, Surjection, IsInjective
<1> HIDE DEF f, M
<1>4. Cardinality(application.material) = Cardinality(M)
  BY <1>2, <1>3, FS_Bijection DEF ExistsBijection
<1> QED
  BY <1>4 DEF M

\* A round is over: its summary is written, for the managers that scored in it.
LEMMA CompleteAudited ==
  ASSUME IInv, AuditInv, NEW node \in {"complete", "unscored"}, NEW managers,
         CompleteRound(node, TRUE, managers),
         managers = {r.manager : r \in Of(debate_round, score_records)}
  PROVE  AuditInv'
<1> DEFINE changed == {r \in Of(debate_round, revisions) : r.action # "KEEP"}
           summary ==
             [round |-> debate_round,
              exchanged |-> {r.reviewer : r \in Of(debate_round, exchanges)},
              revised |-> {Proposer(r.item) : r \in Of(debate_round, revisions)},
              scored |-> managers, changes |-> Cardinality(application.material)]
<1>1. pc = node /\ pc \in InRound /\ pc \in Revising
  BY DEF CompleteRound, Step, Fail, InRound, Revising
<1>2. /\ debate_round \in Nat /\ debate_round >= 1
      /\ \A s \in rounds : s.round \in Nat /\ s.round < debate_round
  BY <1>1, RoundUnderWay
<1>3. report.round = debate_round - 1 /\ application.round = debate_round
  BY <1>1 DEF AuditInv, ReportFits, StagesRecorded
<1>4. Of(debate_round, rounds) = {}
  BY <1>2 DEF Of
<1> PICK s : s = summary
  OBVIOUS
<1>5. /\ rounds' = rounds \cup {s}
      /\ pc' = "gate"
      /\ UNCHANGED <<debate_round, pool, report, application, exchanges, revisions,
                     score_records, failure>>
  BY <1>3, <1>4 DEF CompleteRound, Step
<1>6. /\ s.round = debate_round
      /\ s.exchanged = {Other(m) : m \in s.revised}
      /\ s.changes = Cardinality(changed)
      /\ s.scored = {r.manager : r \in Of(debate_round, score_records)}
  BY <1>1, ChangesCounted DEF AuditInv, StagesRecorded
<1>7. s \notin rounds /\ IsFiniteSet(rounds)
  BY <1>2, <1>6 DEF AuditInv, RecordsTyped
<1> HIDE DEF summary
<1>8. /\ IsFiniteSet(rounds') /\ Cardinality(rounds') = Cardinality(rounds) + 1
      /\ Cardinality(rounds) \in Nat
  BY <1>5, <1>7, FS_AddElement, FS_CardinalityType
<1>9. RecordsTyped'
  BY <1>5, <1>8 DEF AuditInv, RecordsTyped
<1>10. PoolExplained' /\ ReasonsFirst' /\ OwnSupport'
  BY <1>5 DEF AuditInv, PoolExplained, Changes, ReasonsFirst, OwnSupport, Active
<1>11. SummariesRight'
  <2>1. Summarises(s)'
    BY <1>5, <1>6 DEF Summarises, Of
  <2>2. \A t \in rounds : Summarises(t)'
    BY <1>5 DEF AuditInv, SummariesRight, Summarises, Of
  <2> QED
    BY <1>5, <2>1, <2>2 DEF SummariesRight
<1>12. RoundsCounted'
  <2>1. Cardinality(rounds) = debate_round - 1 /\ {t.round : t \in rounds} = 1..Cardinality(rounds)
    BY <1>1 DEF AuditInv, RoundsCounted
  <2>2. Cardinality(rounds') = debate_round
    BY <1>2, <1>8, <2>1
  <2>3. {t.round : t \in rounds'} = {t.round : t \in rounds} \cup {debate_round}
    BY <1>5, <1>6
  <2>4. 1..debate_round = 1..(debate_round - 1) \cup {debate_round}
    BY <1>2
  <2> QED
    BY <1>2, <1>5, <2>1, <2>2, <2>3, <2>4 DEF RoundsCounted, InRound
<1>13. StagesRecorded' /\ ReportFits'
  BY <1>3, <1>5 DEF StagesRecorded, ReportFits, Revising
<1> QED
  BY <1>5, <1>9, <1>10, <1>11, <1>12, <1>13 DEF AuditInv

LEMMA CompleteScoredAudited == ASSUME IInv, AuditInv, CompleteScored PROVE AuditInv'
<1>1. pc = "complete"
  BY DEF CompleteScored, CompleteRound, Step, Fail
<1>2. /\ validation.round = debate_round /\ validation.valid
      /\ {r.manager : r \in Of(debate_round, score_records)} = Manager
  BY <1>1 DEF AuditInv, StagesRecorded
<1>3. validation # NoValidation
  <2>1. debate_round # 0
    BY <1>1, RoundUnderWay DEF InRound
  <2> QED
    BY <1>2, <2>1 DEF NoValidation
<1>4. CompleteRound("complete", TRUE, Manager)
  BY <1>2, <1>3 DEF CompleteScored, CompleteRound
<1> QED
  BY <1>2, <1>4, CompleteAudited

LEMMA CompleteUnscoredAudited == ASSUME IInv, AuditInv, CompleteUnscored PROVE AuditInv'
<1>1. pc = "unscored"
  BY DEF CompleteUnscored, CompleteRound, Step, Fail
<1>2. Of(debate_round, score_records) = {}
  BY <1>1 DEF AuditInv, StagesRecorded
<1>3. {} = {r.manager : r \in Of(debate_round, score_records)}
  BY <1>2
<1> QED
  BY <1>3, CompleteAudited DEF CompleteUnscored

LEMMA AssembleAudited == ASSUME IInv, AuditInv, Assemble PROVE AuditInv'
<1>1. /\ pc = "assemble" /\ pc' = "done"
      /\ UNCHANGED <<debate_round, pool, report, recordVars>>
  BY DEF Assemble, Step
<1>2. report.route = "assemble" /\ ReportDescribesPool
  BY <1>1 DEF AuditInv, ReportFits
<1>3. failure' # "refused"
  BY <1>2 DEF Assemble, Recommend, AuditInv
<1>4. debate_round \in Nat
  BY DEF IInv, PoolTyped
<1>5. RecordsTyped' /\ PoolExplained' /\ ReasonsFirst' /\ SummariesRight'
  BY <1>1, <1>4, RecordsKept
<1>6. OwnSupport' /\ RoundsCounted'
  BY <1>1 DEF AuditInv, OwnSupport, Active, RoundsCounted, InRound, recordVars
<1>7. StagesRecorded' /\ ReportFits'
  BY <1>1 DEF StagesRecorded, ReportFits, Revising
<1> QED
  BY <1>3, <1>5, <1>6, <1>7 DEF AuditInv

LEMMA InitAudited == Init => AuditInv
<1> SUFFICES ASSUME Init PROVE AuditInv
  OBVIOUS
<1>1. /\ pc = "gate" /\ debate_round = 0 /\ report = NoReport /\ failure = "none"
      /\ exchanges = {} /\ revisions = {} /\ score_records = {} /\ rounds = {}
      /\ \A i \in Items : pool[i].revision = 1 /\ pool[i].status = "PROPOSED"
  BY DEF Init
<1>2. Cardinality({}) = 0 /\ IsFiniteSet({})
  BY FS_EmptySet
<1>3. RecordsTyped
  BY <1>1, <1>2 DEF RecordsTyped
<1>4. PoolExplained
  <2>1. \A i \in Items : Changes(i) = {}
    BY <1>1 DEF Changes
  <2> SUFFICES ASSUME NEW i \in Items
               PROVE  /\ pool[i].revision = 1 + Cardinality(Changes(i))
                      /\ pool[i].status = "WITHDRAWN"
                           <=> \E r \in Changes(i) : r.action = "WITHDRAW"
    BY DEF PoolExplained
  <2>2. pool[i].revision = 1 /\ pool[i].status = "PROPOSED" /\ Changes(i) = {}
    BY <1>1, <2>1
  <2>3. Cardinality(Changes(i)) = 0
    BY <1>2, <2>2
  <2> QED
    BY <2>2, <2>3
<1>5. ReasonsFirst /\ SummariesRight
  BY <1>1 DEF ReasonsFirst, SummariesRight
<1>6. OwnSupport
  BY DEF Init, ValidPool, OwnSupport
<1>7. StagesRecorded /\ ReportFits
  BY <1>1 DEF StagesRecorded, ReportFits, Revising, NoReport
<1>8. RoundsCounted
  BY <1>1, <1>2 DEF RoundsCounted, InRound
<1> QED
  BY <1>1, <1>3, <1>4, <1>5, <1>6, <1>7, <1>8 DEF AuditInv

LEMMA StepAudited == IInv /\ AuditInv /\ [Next]_vars => AuditInv'
<1> SUFFICES ASSUME IInv, AuditInv, [Next]_vars PROVE AuditInv'
  OBVIOUS
<1>1. CASE UNCHANGED vars
  <2>1. debate_round \in Nat
    BY DEF IInv, PoolTyped
  <2>2. RecordsTyped' /\ PoolExplained' /\ ReasonsFirst' /\ SummariesRight'
    BY <1>1, <2>1, RecordsKept DEF vars, recordVars
  <2>3. OwnSupport' /\ RoundsCounted'
    BY <1>1 DEF AuditInv, OwnSupport, Active, RoundsCounted, InRound, vars
  <2>4. StagesRecorded'
    BY <1>1 DEF AuditInv, StagesRecorded, Of, Revising, Negotiating, Reviewers, Proposers, vars
  <2>5. ReportFits'
    BY <1>1 DEF AuditInv, ReportFits, ReportDescribesPool, Missing, Source, Revising, vars
  <2> QED
    BY <1>1, <2>2, <2>3, <2>4, <2>5 DEF AuditInv, vars
<1> QED
  BY <1>1, GateAudited, BeginAudited, ExchangeAudited, ReviseAudited, ScoreAudited,
     ValidateAudited, CompleteScoredAudited, CompleteUnscoredAudited, AssembleAudited
     DEF Next, Ended

\* What the managers record explains what has become of every proposal, round by round,
\* and no node refuses what another one left it: a negotiation fails of a model, or of
\* scores that contradict each other, never of its own bookkeeping.
THEOREM RecordsExplain == Spec => []AuditExplainsPool
<1>1. IInv /\ AuditInv => AuditExplainsPool
  <2> SUFFICES ASSUME IInv, AuditInv PROVE AuditExplainsPool
    OBVIOUS
  <2>1. Cardinality(rounds) \in Nat /\ debate_round \in Nat
    BY FS_CardinalityType DEF AuditInv, RecordsTyped, IInv, PoolTyped
  <2>2. Least(debate_round, Cardinality(rounds)) = Cardinality(rounds)
    BY <2>1 DEF Least, AuditInv, RoundsCounted
  <2>3. {s.round : s \in rounds} = 1..IF pc \in {"begin", "gate", "assemble", "done"}
                                     THEN debate_round ELSE Least(debate_round, Cardinality(rounds))
    BY <2>2 DEF AuditInv, RoundsCounted
  <2>4. \A i \in Items :
          /\ pool[i].revision = 1 + Cardinality(Changes(i))
          /\ pool[i].status = "WITHDRAWN" <=> \E r \in Changes(i) : r.action = "WITHDRAW"
    BY DEF AuditInv, PoolExplained
  <2>5. \A r \in revisions : \E e \in exchanges :
          e.round = r.round /\ e.reviewer = Other(Proposer(r.item))
    BY DEF AuditInv, ReasonsFirst
  <2>6. \A s \in rounds :
          /\ s.changes = Cardinality({r \in Of(s.round, revisions) : r.action # "KEEP"})
          /\ s.exchanged = {Other(m) : m \in s.revised}
          /\ s.scored = {r.manager : r \in Of(s.round, score_records)}
    BY DEF AuditInv, SummariesRight, Summarises
  <2>7. failure # "refused"
    BY DEF AuditInv
  <2> QED
    BY <2>3, <2>4, <2>5, <2>6, <2>7 DEF AuditExplainsPool, Changes
<1>2. Spec => []AuditInv
  BY InitAudited, StepAudited, Invariance, PTL DEF Spec
<1> QED
  BY <1>1, <1>2, Invariance, PTL
=============================================================================
