------------------------- MODULE EvidenceStagesProofs ------------------------
(***************************************************************************)
(* Theorems of EvidenceStages for all domains, orders of stages, budgets   *)
(* and queues: stages settle their own requests, and a closed request      *)
(* stays as it is.                                                         *)
(***************************************************************************)
EXTENDS EvidenceStages, TLAPS, WellFoundedInduction, FiniteSetTheorems

-----------------------------------------------------------------------------
(* The inductive invariant.                                                *)

\* The routes lead to targeted with a request and budget for it, and to release
\* with the stage done or failed.
RoutesAreRight ==
  /\ pc = "targeted" => Open(queue, Current) # {} /\ count[Current] < MaxPerStage
  /\ pc = "release" => failed \/ Open(queue, Current) = {}

IInv == TypeOK /\ StagesSettled /\ RoutesAreRight

-----------------------------------------------------------------------------
(* Queues.                                                                 *)

\* The next open request of a domain is one of its open requests.
LEMMA NextOpenIsOpen ==
  ASSUME NEW q \in Seq(Request), NEW d, Open(q, d) # {}
  PROVE  NextOpen(q, d) \in Open(q, d)
<1>1. Open(q, d) \subseteq Nat
  BY DEF Open
<1>2. \E r \in Open(q, d) : \A s \in Open(q, d) : ~ <<s, r>> \in OpToRel(<, Nat)
  BY <1>1, NatLessThanWellFounded, WFMin, Zenon
<1>3. PICK r \in Open(q, d) : \A s \in Open(q, d) : ~ <<s, r>> \in OpToRel(<, Nat)
  BY <1>2, Zenon
<1>4. ASSUME NEW s \in Open(q, d) PROVE r <= s
  <2>1. ~ <<s, r>> \in {ss \in Nat \X Nat : ss[1] < ss[2]}
    BY <1>3, <1>4, Zenon DEF OpToRel
  <2>2. s \in Nat /\ r \in Nat
    BY <1>1, <1>3, <1>4
  <2> QED
    BY <2>1, <2>2
<1> QED
  BY <1>4 DEF NextOpen

\* What a step may do to the queue: close open requests of the current stage.
OwnOnly ==
  /\ queue' \in Seq(Request)
  /\ DOMAIN queue' = DOMAIN queue
  /\ \A r \in DOMAIN queue :
       \/ queue'[r] = queue[r]
       \/ /\ r \in Open(queue, Current)
          /\ queue'[r].domain = queue[r].domain
          /\ queue'[r].status \in Terminal

\* Closing some open requests of the current stage is all Targeted and Cancel do.
LEMMA ClosingSome ==
  ASSUME queue \in Seq(Request), NEW R \in SUBSET Open(queue, Current),
         NEW s \in Terminal,
         queue' = [r \in DOMAIN queue |->
                     IF r \in R THEN [queue[r] EXCEPT !.status = s] ELSE queue[r]]
  PROVE  OwnOnly
<1>1. PICK n \in Nat : DOMAIN queue = 1..n
  OBVIOUS
<1>2. ASSUME NEW r \in DOMAIN queue
      PROVE  /\ queue'[r] \in Request
             /\ \/ queue'[r] = queue[r]
                \/ /\ r \in Open(queue, Current)
                   /\ queue'[r].domain = queue[r].domain
                   /\ queue'[r].status \in Terminal
  <2>1. queue[r] \in Request
    OBVIOUS
  <2>2. CASE r \in R
    BY <2>1, <2>2 DEF Request
  <2>3. CASE r \notin R
    BY <2>1, <2>3
  <2> QED
    BY <2>2, <2>3
<1>3. DOMAIN queue' = DOMAIN queue
  OBVIOUS
<1>4. queue' \in [1..n -> Request]
  BY <1>1, <1>2
<1>5. queue' \in Seq(Request)
  BY <1>4
<1> QED
  BY <1>2, <1>3, <1>5 DEF OwnOnly

LEMMA TargetedClosesOne ==
  ASSUME IInv, Targeted
  PROVE  OwnOnly
<1>1. queue \in Seq(Request) /\ Open(queue, Current) # {}
  BY DEF IInv, TypeOK, RoutesAreRight, Targeted
<1>2. PICK ok \in BOOLEAN, run \in Run, status \in Active \cup Terminal \cup {"none"} :
        LET raised == ~ ok \/ run = "raises"
            done   == IF raised THEN [status |-> "FAILED", valid |-> FALSE] ELSE Completion(status)
        IN queue' = Close(NextOpen(queue, Current), done.status)
  BY DEF Targeted
<1> DEFINE done == IF ~ ok \/ run = "raises" THEN [status |-> "FAILED", valid |-> FALSE]
                   ELSE Completion(status)
           next == NextOpen(queue, Current)
<1>3. done.status \in Terminal
  BY DEF Completion, Terminal
<1>4. next \in Open(queue, Current)
  BY <1>1, NextOpenIsOpen
<1>5. queue' = Close(next, done.status)
  BY <1>2
<1> HIDE DEF done, next
<1>6. queue' = [r \in DOMAIN queue |->
                  IF r \in {next} THEN [queue[r] EXCEPT !.status = done.status] ELSE queue[r]]
  BY <1>1, <1>4, <1>5 DEF Close, Open
<1> QED
  BY <1>1, <1>3, <1>4, <1>6, ClosingSome

LEMMA StepClosesOwn ==
  ASSUME IInv, [Next]_vars
  PROVE  OwnOnly
<1>1. queue \in Seq(Request)
  BY DEF IInv, TypeOK
<1>2. CASE UNCHANGED queue
  BY <1>1, <1>2 DEF OwnOnly
<1>3. CASE Targeted
  BY <1>3, TargetedClosesOne
<1>4. CASE Cancel
  <2>1. queue' = [r \in DOMAIN queue |->
                    IF r \in Open(queue, Current)
                    THEN [queue[r] EXCEPT !.status = "CANCELLED_BY_BUDGET"] ELSE queue[r]]
    BY <1>4 DEF Cancel
  <2> QED
    BY <1>1, <2>1, ClosingSome DEF Terminal
<1> QED
  BY <1>2, <1>3, <1>4 DEF Next, vars, Initial, Release, Ended

-----------------------------------------------------------------------------
(* Stages.                                                                 *)

\* The current stage is neither behind the run nor before it.
LEMMA CurrentIsNow ==
  ASSUME TypeOK, pc # "collect"
  PROVE  Current \in Domain /\ Current \notin Past /\ Current \notin Future
<1>1. stage \in 1..Len(Stages) /\ DOMAIN Stages = 1..Len(Stages)
  BY StagesAssumption DEF TypeOK
<1>2. Current \notin Past
  BY <1>1, StagesAssumption DEF Past, Current
<1> QED
  BY <1>1, <1>2, StagesAssumption DEF Future, Current

\* As long as the stage stays the same and evidence is not collected yet, what is
\* settled stays settled.
SettledQueue ==
  \A r \in DOMAIN queue :
    /\ queue[r].domain \in Future => queue[r] = seeded[r]
    /\ queue[r].domain \in Past => queue[r].status \in Terminal

LEMMA QueueStaysSettled ==
  ASSUME TypeOK, SettledQueue, OwnOnly, stage' = stage, seeded' = seeded,
         pc # "collect", pc' # "collect"
  PROVE  SettledQueue'
<1>1. Past' = Past /\ Future' = Future
  BY DEF Past, Future
<1>2. ASSUME NEW r \in DOMAIN queue
      PROVE  /\ queue'[r].domain \in Future => queue'[r] = seeded[r]
             /\ queue'[r].domain \in Past => queue'[r].status \in Terminal
  <2>1. CASE queue'[r] = queue[r]
    BY <2>1 DEF SettledQueue
  <2>2. CASE r \in Open(queue, Current) /\ queue'[r].domain = queue[r].domain
    BY <2>2, CurrentIsNow DEF Open
  <2> QED
    BY <2>1, <2>2 DEF OwnOnly
<1> QED
  BY <1>1, <1>2 DEF SettledQueue, OwnOnly

\* A stage with no open request is settled, and it is the next to be left behind.
LEMMA NothingOpen ==
  ASSUME queue \in Seq(Request), Open(queue, Current) = {}
  PROVE  \A r \in DOMAIN queue : queue[r].domain = Current => queue[r].status \in Terminal
<1>1. ASSUME NEW r \in DOMAIN queue, queue[r].domain = Current
      PROVE  queue[r].status \in Terminal
  <2>1. queue[r] \in Request
    OBVIOUS
  <2>2. queue[r].status \in Active \cup Terminal
    BY <2>1 DEF Request
  <2>3. queue[r].status \notin Active
    BY <1>1 DEF Open
  <2> QED
    BY <2>2, <2>3
<1> QED
  BY <1>1

-----------------------------------------------------------------------------
(* Each node preserves the invariant.                                      *)

\* The three other conjuncts of StagesSettled.
Released ==
  /\ pc = "report" => failed
  /\ pc \in {"report", "collect", "initial"} => resolved = {}
  /\ pc = "collect" => ~ failed

LEMMA SettledParts == StagesSettled <=> SettledQueue /\ Released
  BY DEF StagesSettled, SettledQueue, Released

\* The route fits the state it is taken from.
LEMMA RouteFits ==
  ASSUME Route, count' \in [Domain -> Nat], stage' = stage, Current \in Domain
  PROVE  /\ pc' \in {"targeted", "cancel", "release"}
         /\ RoutesAreRight'
<1>1. Current' = Current
  BY DEF Current
<1>2. count'[Current] \in Nat /\ MaxPerStage \in Nat
  BY StagesAssumption
<1> QED
  BY <1>1, <1>2 DEF Route, RoutesAreRight

LEMMA InitialPreserves ==
  ASSUME IInv, Initial
  PROVE  IInv'
<1>1. TypeOK /\ SettledQueue /\ pc = "initial" /\ OwnOnly
  BY StepClosesOwn, SettledParts DEF IInv, Initial, Next
<1>2. /\ stage' = stage /\ count' = count /\ total' = total /\ seeded' = seeded
      /\ queue' = queue /\ Current' = Current
  BY DEF Initial, Current
<1>3. Current \in Domain /\ count \in [Domain -> Nat]
  BY <1>1, CurrentIsNow, StagesAssumption DEF TypeOK
<1>4. pc' \in {"targeted", "cancel", "release"} /\ RoutesAreRight'
  BY <1>2, <1>3, RouteFits DEF Initial
<1>5. failed' \in BOOLEAN /\ resolved' \subseteq {Current}
  BY <1>1 DEF Initial, Resolve, TypeOK
<1>6. TypeOK'
  BY <1>1, <1>2, <1>4, <1>5 DEF TypeOK
<1>7. SettledQueue'
  BY <1>1, <1>2, <1>4, QueueStaysSettled
<1>8. Released'
  BY <1>4 DEF Released
<1> QED
  BY <1>4, <1>6, <1>7, <1>8, SettledParts DEF IInv, StagesSettled, SettledQueue, Released

LEMMA TargetedPreserves ==
  ASSUME IInv, Targeted
  PROVE  IInv'
<1>1. TypeOK /\ SettledQueue /\ pc = "targeted" /\ OwnOnly
  BY TargetedClosesOne, SettledParts DEF IInv, Targeted
<1>2. /\ stage' = stage /\ total' = total + 1 /\ seeded' = seeded /\ Current' = Current
      /\ count' = [count EXCEPT ![Current] = count[Current] + 1]
  BY DEF Targeted, Current
<1>3. Current \in Domain /\ count \in [Domain -> 0..MaxPerStage] /\ MaxPerStage \in Nat
  BY <1>1, CurrentIsNow, StagesAssumption DEF TypeOK
<1>4. count[Current] < MaxPerStage
  BY <1>1 DEF IInv, RoutesAreRight
<1>5. count' \in [Domain -> 0..MaxPerStage]
  BY <1>2, <1>3, <1>4
<1>6. pc' \in {"targeted", "cancel", "release"} /\ RoutesAreRight'
  BY <1>2, <1>3, <1>5, RouteFits DEF Targeted
<1>7. failed' \in BOOLEAN /\ resolved' \subseteq {Current}
  BY <1>1 DEF Targeted, Resolve, TypeOK
<1>8. TypeOK'
  BY <1>1, <1>2, <1>5, <1>6, <1>7 DEF TypeOK, OwnOnly
<1>9. SettledQueue'
  BY <1>1, <1>2, <1>6, QueueStaysSettled
<1>10. Released'
  BY <1>6 DEF Released
<1> QED
  BY <1>6, <1>8, <1>9, <1>10, SettledParts DEF IInv, StagesSettled, SettledQueue, Released

LEMMA CancelPreserves ==
  ASSUME IInv, Cancel
  PROVE  IInv'
<1>1. TypeOK /\ SettledQueue /\ pc = "cancel" /\ OwnOnly
  BY StepClosesOwn, SettledParts DEF IInv, Cancel, Next
<1>2. /\ stage' = stage /\ count' = count /\ total' = total /\ seeded' = seeded
      /\ resolved' = resolved /\ pc' = "release" /\ Current' = Current
      /\ failed' = (failed \/ Open(queue, Current) # {})
  BY DEF Cancel, Current
<1>3. TypeOK'
  BY <1>1, <1>2 DEF TypeOK, OwnOnly
<1>4. SettledQueue'
  BY <1>1, <1>2, QueueStaysSettled
<1>5. Released'
  BY <1>2 DEF Released
<1>6. ASSUME Open(queue, Current) = {} PROVE Open(queue', Current) = {}
  BY <1>1, <1>6 DEF OwnOnly, Open
<1>7. RoutesAreRight'
  BY <1>1, <1>2, <1>6 DEF RoutesAreRight, TypeOK
<1> QED
  BY <1>3, <1>4, <1>5, <1>7, SettledParts DEF IInv, StagesSettled, SettledQueue, Released

LEMMA ReleasePreserves ==
  ASSUME IInv, Release
  PROVE  IInv'
<1>1. TypeOK /\ SettledQueue /\ pc = "release"
  BY SettledParts DEF IInv, Release
<1>2. /\ queue' = queue /\ count' = count /\ total' = total /\ failed' = failed
      /\ seeded' = seeded /\ resolved' = {}
      /\ pc' = IF failed THEN "report" ELSE IF stage = Len(Stages) THEN "collect" ELSE "initial"
  BY <1>1 DEF Release, TypeOK
<1>3. stage \in 1..Len(Stages) /\ DOMAIN Stages = 1..Len(Stages) /\ Len(Stages) \in Nat
  BY <1>1, StagesAssumption DEF TypeOK
<1>4. stage' = IF ~ failed /\ stage < Len(Stages) THEN stage + 1 ELSE stage
  BY DEF Release
<1>5. /\ stage' \in 1..Len(Stages) /\ stage <= stage' /\ stage \in Int /\ stage' \in Int
      /\ \/ stage' = stage /\ (failed \/ stage = Len(Stages))
         \/ stage' = stage + 1 /\ stage # Len(Stages)
  <2> DEFINE n == Len(Stages)
  <2>1. n \in Nat /\ stage \in 1..n /\ stage' = IF ~ failed /\ stage < n THEN stage + 1 ELSE stage
    BY <1>3, <1>4
  <2> HIDE DEF n
  <2>2. /\ stage' \in 1..n /\ stage <= stage' /\ stage \in Int /\ stage' \in Int
        /\ \/ stage' = stage /\ (failed \/ stage = n)
           \/ stage' = stage + 1 /\ stage # n
    <3>1. CASE ~ failed /\ stage < n
      BY <2>1, <3>1
    <3>2. CASE ~ failed /\ stage = n
      BY <2>1, <3>2
    <3>3. CASE failed
      BY <2>1, <3>3
    <3> QED
      BY <2>1, <3>1, <3>2, <3>3
  <2> QED
    BY <2>2 DEF n
<1>6. TypeOK'
  BY <1>1, <1>2, <1>3, <1>5 DEF TypeOK
<1>7. Released' /\ RoutesAreRight'
  BY <1>2 DEF Released, RoutesAreRight
<1>8. SettledQueue'
  <2>1. Future' \subseteq Future
    <3>1. stage \in Int /\ stage' \in Int /\ stage <= stage'
      BY <1>5
    <3>2. 1..stage \subseteq 1..stage'
      BY <3>1
    <3> QED
      BY <3>2 DEF Future
  <2>2. CASE failed
    <3>1. stage' = stage /\ pc' = "report"
      BY <2>2 DEF Release
    <3>2. Past' = Past
      BY <1>1, <3>1 DEF Past
    <3> QED
      BY <1>1, <1>2, <2>1, <3>2 DEF SettledQueue
  <2>3. CASE ~ failed
    <3>1. Past' \subseteq Past \cup {Current}
      <4>1. ASSUME NEW j \in DOMAIN Stages, j < stage' \/ pc' = "collect"
            PROVE  j < stage \/ j = stage
        <5>1. j \in 1..Len(Stages)
          BY <1>3
        <5>2. CASE stage' = stage /\ stage = Len(Stages)
          BY <1>3, <5>1, <5>2
        <5>3. CASE stage' = stage + 1 /\ stage # Len(Stages)
          <6>1. pc' = "initial"
            BY <2>3, <5>3 DEF Release
          <6>2. j < stage + 1
            BY <4>1, <5>3, <6>1
          <6>3. j \in Int /\ stage \in Int
            BY <1>5, <5>1
          <6> QED
            BY <6>2, <6>3
        <5> QED
          BY <1>5, <2>3, <5>2, <5>3
      <4> QED
        BY <4>1 DEF Past, Current
    <3>2. Open(queue, Current) = {} /\ queue \in Seq(Request)
      BY <1>1, <2>3 DEF IInv, RoutesAreRight, TypeOK
    <3> QED
      BY <1>1, <1>2, <2>1, <3>1, <3>2, NothingOpen DEF SettledQueue
  <2> QED
    BY <2>2, <2>3
<1> QED
  BY <1>6, <1>7, <1>8, SettledParts DEF IInv, StagesSettled, SettledQueue, Released

LEMMA InitInv == Init => IInv
<1> SUFFICES ASSUME Init PROVE IInv
  OBVIOUS
<1>1. queue \in Seq(Request) /\ seeded = queue
  BY DEF Init
<1>2. stage \in DOMAIN Stages /\ stage = 1
  BY StagesAssumption DEF Init
<1>3. count \in [Domain -> 0..MaxPerStage]
  BY StagesAssumption DEF Init
<1>4. TypeOK
  BY <1>1, <1>2, <1>3 DEF Init, TypeOK
<1>5. Past = {}
  <2>1. \A j \in DOMAIN Stages : ~ (j < 1)
    BY StagesAssumption
  <2>2. stage = 1 /\ pc # "collect"
    BY DEF Init
  <2> QED
    BY <2>1, <2>2 DEF Past
<1>6. SettledQueue /\ Released /\ RoutesAreRight
  BY <1>1, <1>5 DEF Init, SettledQueue, Released, RoutesAreRight
<1> QED
  BY <1>4, <1>6, SettledParts DEF IInv

LEMMA StepInv == IInv /\ [Next]_vars => IInv'
<1> SUFFICES ASSUME IInv, [Next]_vars PROVE IInv'
  OBVIOUS
<1>1. CASE UNCHANGED vars
  BY <1>1 DEF vars, IInv, TypeOK, StagesSettled, RoutesAreRight, Past, Future, Current, Open
<1>2. CASE Initial
  BY <1>2, InitialPreserves
<1>3. CASE Targeted
  BY <1>3, TargetedPreserves
<1>4. CASE Cancel
  BY <1>4, CancelPreserves
<1>5. CASE Release
  BY <1>5, ReleasePreserves
<1> QED
  BY <1>1, <1>2, <1>3, <1>4, <1>5 DEF Next, Ended

LEMMA Invariance == Spec => []IInv
  BY InitInv, StepInv, PTL DEF Spec

-----------------------------------------------------------------------------

\* The channels of the evidence stages keep their types and no stage researches more
\* requests than its budget allows.
THEOREM StagesTyped == Spec => []TypeOK
<1>1. IInv => TypeOK
  BY DEF IInv
<1> QED
  BY <1>1, Invariance, PTL

\* Evidence is collected only with every stage settled and its sub-graph released, and
\* no stage touches the requests of a later one.
THEOREM StagesSettle == Spec => []StagesSettled
<1>1. IInv => StagesSettled
  BY DEF IInv
<1> QED
  BY <1>1, Invariance, PTL

\* A request is closed once and for all.
StepClosedForGood ==
  \A r \in DOMAIN queue :
    /\ r \in DOMAIN queue'
    /\ queue[r].status \in Terminal => queue'[r] = queue[r]

THEOREM RequestsStayClosed == Spec => ClosedForGood
<1>1. IInv /\ [Next]_vars => [StepClosedForGood]_vars
  <2> SUFFICES ASSUME IInv, [Next]_vars PROVE StepClosedForGood
    OBVIOUS
  <2>1. OwnOnly
    BY StepClosesOwn
  <2> QED
    BY <2>1 DEF OwnOnly, Open, StepClosedForGood, Active, Terminal
<1>2. Spec => [][StepClosedForGood]_vars
  BY <1>1, Invariance, PTL DEF Spec
<1> QED
  BY <1>2 DEF ClosedForGood, StepClosedForGood


-----------------------------------------------------------------------------
(* The accounts of the stages.                                             *)

\* A request that differs from what the run was started with is closed; a stage works
\* on only as long as none has failed, and cancels with its budget used up.
WorksInOrder ==
  /\ \A r \in DOMAIN queue : queue[r] # seeded[r] => queue[r].status \in Terminal
  /\ pc \in {"initial", "targeted", "cancel"} => ~ failed
  /\ pc = "cancel" => Open(queue, Current) # {} /\ count[Current] >= MaxPerStage

Accounts == WorksInOrder /\ RequestsAccounted /\ IsFiniteSet(Counted)

\* The requests a step closes.
Closing == {r \in DOMAIN queue : queue'[r] # queue[r]}

LEMMA AccountsFinite ==
  ASSUME queue \in Seq(Request)
  PROVE  /\ IsFiniteSet(DOMAIN queue)
         /\ \A d : /\ IsFiniteSet(Closed(d)) /\ Cardinality(Closed(d)) \in Nat
                   /\ IsFiniteSet(Cancelled(d)) /\ Cardinality(Cancelled(d)) \in Nat
<1>1. DOMAIN queue = 1..Len(queue) /\ Len(queue) \in Nat
  OBVIOUS
<1>2. IsFiniteSet(DOMAIN queue)
  BY <1>1, FS_Interval
<1>3. \A d : Closed(d) \subseteq DOMAIN queue /\ Cancelled(d) \subseteq DOMAIN queue
  BY DEF Closed, Cancelled
<1> QED
  BY <1>2, <1>3, FS_Subset, FS_CardinalityType

\* What a step closes is new to the accounts of its stage, and to no other.
LEMMA ClosingIsNew ==
  ASSUME queue \in Seq(Request), WorksInOrder, OwnOnly, seeded' = seeded
  PROVE  /\ \A r \in DOMAIN queue' : queue'[r] # seeded'[r] => queue'[r].status \in Terminal
         /\ Closing \subseteq Open(queue, Current)
         /\ \A d : d # Current => Closed(d)' = Closed(d) /\ Cancelled(d)' = Cancelled(d)
         /\ \A d : d = Current => /\ Closed(d)' = Closed(d) \cup Closing
                                  /\ Closed(d) \cap Closing = {}
<1>1. DOMAIN queue' = DOMAIN queue
  BY DEF OwnOnly
<1>2. Closing \subseteq Open(queue, Current)
  BY DEF Closing, OwnOnly
<1>3. \A r \in Open(queue, Current) :
        /\ queue[r] = seeded[r] /\ queue[r].status \notin Terminal
        /\ queue[r].domain = Current
  BY DEF WorksInOrder, Open, Active, Terminal
<1>4. \A r \in DOMAIN queue \ Closing : queue'[r] = queue[r]
  BY DEF Closing
<1>5. \A r \in Closing : /\ queue'[r].domain = Current /\ queue'[r].status \in Terminal
                         /\ queue'[r] # seeded[r]
  BY <1>2, <1>3 DEF Closing, OwnOnly
<1>6. ASSUME NEW d, d # Current
      PROVE  Closed(d)' = Closed(d) /\ Cancelled(d)' = Cancelled(d)
  <2>1. Closed(d)' = Closed(d)
    BY <1>1, <1>2, <1>3, <1>4, <1>5, <1>6 DEF Closed
  <2>2. \A r \in Closed(d) : r \notin Closing
    BY <1>2, <1>3, <1>6 DEF Closed
  <2> QED
    BY <1>4, <2>1, <2>2 DEF Cancelled, Closed
<1>7. ASSUME NEW d, d = Current
      PROVE  /\ Closed(d)' = Closed(d) \cup Closing
             /\ Closed(d) \cap Closing = {}
  <2>1. Closed(d) \cap Closing = {}
    BY <1>2, <1>3 DEF Closed
  <2>2. Closing \subseteq DOMAIN queue
    BY DEF Closing
  <2>3. Closed(d)' = Closed(d) \cup Closing
    BY <1>1, <1>4, <1>5, <1>7, <2>2 DEF Closed
  <2> QED
    BY <2>1, <2>3
<1>8. \A r \in DOMAIN queue' : queue'[r] # seeded'[r] => queue'[r].status \in Terminal
  BY <1>1, <1>4, <1>5 DEF WorksInOrder
<1> QED
  BY <1>2, <1>6, <1>7, <1>8

\* A step that closes nothing and counts nothing leaves the accounts alone.
LEMMA NothingClosed ==
  ASSUME IInv, Accounts, UNCHANGED <<queue, seeded, count, total>>, failed => failed'
  PROVE  RequestsAccounted' /\ IsFiniteSet(Counted)'
<1>1. Counted' = Counted
  BY DEF Counted
<1>2. \A d : Closed(d)' = Closed(d) /\ Cancelled(d)' = Cancelled(d)
  BY DEF Closed, Cancelled
<1>3. RequestsAccounted'
  BY <1>1, <1>2 DEF Accounts, RequestsAccounted, AccountExact
<1> QED
  BY <1>1, <1>3 DEF Accounts

LEMMA InitAccounts == Init => Accounts
<1> SUFFICES ASSUME Init PROVE Accounts
  OBVIOUS
<1>1. MaxPerStage \in Nat /\ MaxPerStage > 0 /\ count = [d \in Domain |-> 0]
      /\ total = 0 /\ seeded = queue
  BY StagesAssumption DEF Init
<1>2. \A d : Closed(d) = {}
  BY <1>1 DEF Closed
<1>3. Counted = {}
  BY <1>1 DEF Counted
<1>4. RequestsAccounted /\ IsFiniteSet(Counted)
  BY <1>1, <1>2, <1>3, FS_EmptySet DEF RequestsAccounted, AccountExact
<1>5. WorksInOrder
  BY <1>1 DEF Init, WorksInOrder
<1> QED
  BY <1>4, <1>5 DEF Accounts


\* A researched request is counted, and it is the one that was closed.
LEMMA TargetedAccounts ==
  ASSUME IInv, Accounts, Targeted
  PROVE  RequestsAccounted' /\ IsFiniteSet(Counted)'
<1>1. /\ TypeOK /\ queue \in Seq(Request) /\ OwnOnly /\ seeded' = seeded /\ ~ failed
      /\ Open(queue, Current) # {} /\ count[Current] < MaxPerStage
  BY TargetedClosesOne DEF IInv, TypeOK, RoutesAreRight, Accounts, WorksInOrder, Targeted
<1>2. /\ count \in [Domain -> 0..MaxPerStage] /\ Current \in Domain
      /\ MaxPerStage \in Nat /\ total \in Nat
      /\ count' = [count EXCEPT ![Current] = count[Current] + 1] /\ total' = total + 1
  BY <1>1, CurrentIsNow, StagesAssumption DEF TypeOK, Targeted
<1> DEFINE c == Current
           n == count[c]
           next == NextOpen(queue, c)
<1>3. n \in Nat /\ n + 1 \in 1..MaxPerStage
  BY <1>1, <1>2
<1>4. Closing = {next}
  <2>1. PICK s : queue' = Close(next, s)
    BY DEF Targeted
  <2>2. next \in Open(queue, c)
    BY <1>1, NextOpenIsOpen
  <2>3. \A r \in DOMAIN queue : r # next => queue'[r] = queue[r]
    BY <1>1, <2>1 DEF Close
  <2>4. queue'[next] # queue[next]
    <3>1. PICK ok \in BOOLEAN, run \in Run, status \in Active \cup Terminal \cup {"none"} :
            LET raised == ~ ok \/ run = "raises"
                done   == IF raised THEN [status |-> "FAILED", valid |-> FALSE]
                          ELSE Completion(status)
            IN queue' = Close(next, done.status)
      BY DEF Targeted
    <3> DEFINE t == (IF ~ ok \/ run = "raises" THEN [status |-> "FAILED", valid |-> FALSE]
                     ELSE Completion(status)).status
    <3>2. t \in Terminal /\ queue' = Close(next, t)
      BY <3>1 DEF Completion, Terminal
    <3> HIDE DEF t, next
    <3>3. next \in DOMAIN queue /\ queue[next] \in Request /\ queue[next].status \in Active
      BY <1>1, <2>2 DEF Open
    <3>4. queue'[next].status = t
      BY <1>1, <3>2, <3>3 DEF Close, Request
    <3> QED
      BY <3>2, <3>3, <3>4 DEF Active, Terminal
  <2> QED
    BY <2>2, <2>3, <2>4 DEF Closing, Open
<1>5. /\ \A d : d # c => Closed(d)' = Closed(d) /\ Cancelled(d)' = Cancelled(d)
      /\ \A d : d = c => Closed(d)' = Closed(d) \cup Closing /\ Closed(d) \cap Closing = {}
  BY <1>1, ClosingIsNew DEF Accounts
<1>6. n = Cardinality(Closed(c))
  BY <1>1, <1>2 DEF Accounts, RequestsAccounted, AccountExact
<1>7. \A d : d = c => Cardinality(Closed(d))' = n + 1
  <2>1. IsFiniteSet(Closed(c)) /\ next \notin Closed(c)
    BY <1>1, <1>4, <1>5, AccountsFinite
  <2>2. Cardinality(Closed(c) \cup {next}) = Cardinality(Closed(c)) + 1
    BY <2>1, FS_AddElement
  <2> QED
    BY <1>4, <1>5, <1>6, <2>2
<1>8. \A d \in Domain : AccountExact(d)'
  <2> SUFFICES ASSUME NEW d \in Domain PROVE AccountExact(d)'
    OBVIOUS
  <2>1. CASE d = c
    <3>1. count'[d] = n + 1
      BY <1>2, <2>1
    <3>2. Cardinality(Closed(d))' = n + 1
      BY <1>7, <2>1
    <3> QED
      BY <1>3, <3>1, <3>2 DEF AccountExact
  <2>2. CASE d # c
    <3>1. count'[d] = count[d] /\ Closed(d)' = Closed(d)
      BY <1>2, <1>5, <2>2
    <3>2. count[d] = Cardinality(Closed(d))
      BY <1>1 DEF Accounts, RequestsAccounted, AccountExact
    <3>3. count[d] \in Nat
      BY <1>2
    <3> QED
      BY <3>1, <3>2, <3>3 DEF AccountExact
  <2> QED
    BY <2>1, <2>2
<1>9. Counted' = Counted \cup {<<c, n + 1>>} /\ <<c, n + 1>> \notin Counted
  BY <1>2, <1>3 DEF Counted
<1>10. IsFiniteSet(Counted)' /\ total' = Cardinality(Counted)'
  <2>1. IsFiniteSet(Counted) /\ total = Cardinality(Counted)
    BY DEF Accounts, RequestsAccounted
  <2>2. /\ IsFiniteSet(Counted \cup {<<c, n + 1>>})
        /\ Cardinality(Counted \cup {<<c, n + 1>>}) = Cardinality(Counted) + 1
    BY <1>9, <2>1, FS_AddElement
  <2> QED
    BY <1>2, <1>9, <2>1, <2>2
<1> QED
  BY <1>8, <1>10 DEF RequestsAccounted


\* What the budget does not allow is cancelled and not counted.
LEMMA CancelAccounts ==
  ASSUME IInv, Accounts, Cancel
  PROVE  RequestsAccounted' /\ IsFiniteSet(Counted)'
<1>1. /\ TypeOK /\ queue \in Seq(Request) /\ OwnOnly /\ seeded' = seeded /\ ~ failed
      /\ count' = count /\ total' = total /\ pc # "collect"
      /\ Open(queue, Current) # {} /\ count[Current] >= MaxPerStage
      /\ failed' = (failed \/ Open(queue, Current) # {})
      /\ queue' = [r \in DOMAIN queue |->
                     IF r \in Open(queue, Current)
                     THEN [queue[r] EXCEPT !.status = "CANCELLED_BY_BUDGET"] ELSE queue[r]]
  BY StepClosesOwn DEF IInv, TypeOK, Accounts, WorksInOrder, Cancel, Next
<1> DEFINE c == Current
<1>2. /\ count \in [Domain -> 0..MaxPerStage] /\ c \in Domain /\ MaxPerStage \in Nat
      /\ count[c] = MaxPerStage
  BY <1>1, CurrentIsNow, StagesAssumption DEF TypeOK
<1>3. failed'
  BY <1>1
<1>4. Closing = Open(queue, c) /\ \A r \in Closing : queue'[r].status = "CANCELLED_BY_BUDGET"
  <2>1. ASSUME NEW r \in Open(queue, c)
        PROVE  queue'[r] # queue[r] /\ queue'[r].status = "CANCELLED_BY_BUDGET"
    <3>1. r \in DOMAIN queue /\ queue[r] \in Request /\ queue[r].status \in Active
      BY <1>1 DEF Open
    <3>2. queue'[r] = [queue[r] EXCEPT !.status = "CANCELLED_BY_BUDGET"]
      BY <1>1, <3>1
    <3>3. queue'[r].status = "CANCELLED_BY_BUDGET"
      BY <3>1, <3>2 DEF Request
    <3> QED
      BY <3>1, <3>3 DEF Active
  <2>2. Closing \subseteq Open(queue, c)
    BY <1>1 DEF Closing
  <2> QED
    BY <2>1, <2>2 DEF Closing, Open
<1>5. /\ \A d : d # c => Closed(d)' = Closed(d) /\ Cancelled(d)' = Cancelled(d)
      /\ \A d : d = c => Closed(d)' = Closed(d) \cup Closing /\ Closed(d) \cap Closing = {}
  BY <1>1, ClosingIsNew DEF Accounts
<1>6. count[c] = Cardinality(Closed(c))
  BY <1>1, <1>2 DEF Accounts, RequestsAccounted, AccountExact
<1>7. IsFiniteSet(Closed(c)) /\ IsFiniteSet(Closing)
      /\ Cardinality(Closing) \in Nat /\ Cardinality(Closed(c)) \in Nat
  <2>1. Closing \subseteq DOMAIN queue
    BY DEF Closing
  <2> QED
    BY <1>1, <2>1, AccountsFinite, FS_Subset, FS_CardinalityType
<1>8. Cardinality(Closed(c) \cup Closing) = Cardinality(Closed(c)) + Cardinality(Closing)
  <2>1. Closed(c) \cap Closing = {}
    BY <1>5
  <2>2. Cardinality(Closed(c) \cup Closing)
          = Cardinality(Closed(c)) + (Cardinality(Closing) - Cardinality(Closed(c) \cap Closing))
    BY <1>7, FS_Union
  <2>3. Cardinality(Closed(c) \cap Closing) = 0
    BY <2>1, FS_EmptySet
  <2> QED
    BY <1>7, <2>2, <2>3
<1>9. ASSUME NEW d \in Domain, d = c
      PROVE  AccountExact(d)'
  <2>1. Closed(d)' = Closed(d) \cup Closing
    BY <1>5, <1>9
  <2>2. Closing \subseteq Cancelled(d)'
    BY <1>4, <2>1 DEF Cancelled
  <2>3. IsFiniteSet(Cancelled(d)')
    <3>1. IsFiniteSet(Closed(d)')
      BY <1>7, <1>9, <2>1, FS_Union
    <3>2. Cancelled(d)' \subseteq Closed(d)'
      BY DEF Cancelled
    <3> QED
      BY <3>1, <3>2, FS_Subset
  <2>4. Cardinality(Closing) <= Cardinality(Cancelled(d)')
        /\ Cardinality(Cancelled(d)') \in Nat
    BY <2>2, <2>3, FS_Subset, FS_CardinalityType
  <2>5. Cardinality(Closed(d)') = count[d] + Cardinality(Closing)
    BY <1>6, <1>8, <1>9, <2>1
  <2>6. count'[d] = MaxPerStage /\ count[d] = MaxPerStage
    BY <1>1, <1>2, <1>9
  <2> QED
    BY <1>2, <1>3, <1>7, <2>4, <2>5, <2>6 DEF AccountExact
<1>10. ASSUME NEW d \in Domain, d # c
       PROVE  AccountExact(d)'
  <2>1. count'[d] = count[d] /\ Closed(d)' = Closed(d) /\ Cancelled(d)' = Cancelled(d)
    BY <1>1, <1>5, <1>10
  <2>2. AccountExact(d)
    BY DEF Accounts, RequestsAccounted
  <2> QED
    BY <1>3, <2>1, <2>2 DEF AccountExact
<1>11. Counted' = Counted
  BY <1>1 DEF Counted
<1> QED
  BY <1>1, <1>9, <1>10, <1>11 DEF Accounts, RequestsAccounted

LEMMA StepAccounts ==
  ASSUME IInv, Accounts, [Next]_vars
  PROVE  Accounts'
<1>1. queue \in Seq(Request) /\ OwnOnly /\ seeded' = seeded
  BY StepClosesOwn DEF IInv, TypeOK, Next, vars, Initial, Targeted, Cancel, Release, Ended
<1>2. \A r \in DOMAIN queue' : queue'[r] # seeded'[r] => queue'[r].status \in Terminal
  BY <1>1, ClosingIsNew DEF Accounts
<1>3. CASE Initial
  <2>1. UNCHANGED <<queue, seeded, count, total>> /\ (failed => failed')
    BY <1>3 DEF Initial
  <2>2. RequestsAccounted' /\ IsFiniteSet(Counted)'
    BY <2>1, NothingClosed
  <2>3. WorksInOrder'
    BY <1>2, <1>3 DEF Initial, Route, WorksInOrder, Current
  <2> QED
    BY <2>2, <2>3 DEF Accounts
<1>4. CASE Targeted
  <2>1. WorksInOrder'
    BY <1>2, <1>4 DEF Targeted, Route, WorksInOrder, Current
  <2> QED
    BY <1>4, <2>1, TargetedAccounts DEF Accounts
<1>5. CASE Cancel
  <2>1. WorksInOrder'
    BY <1>2, <1>5 DEF Cancel, WorksInOrder
  <2> QED
    BY <1>5, <2>1, CancelAccounts DEF Accounts
<1>6. CASE Release
  <2>1. UNCHANGED <<queue, seeded, count, total, failed>>
    BY <1>6 DEF Release
  <2>2. RequestsAccounted' /\ IsFiniteSet(Counted)'
    BY <2>1, NothingClosed
  <2>3. WorksInOrder'
    BY <1>2, <1>6 DEF Release, WorksInOrder
  <2> QED
    BY <2>2, <2>3 DEF Accounts
<1>7. CASE UNCHANGED vars
  <2>1. UNCHANGED <<queue, seeded, count, total, failed, pc, stage>>
    BY <1>7 DEF vars
  <2>2. RequestsAccounted' /\ IsFiniteSet(Counted)'
    BY <2>1, NothingClosed
  <2>3. WorksInOrder'
    BY <2>1 DEF Accounts, WorksInOrder, Current, Open
  <2> QED
    BY <2>2, <2>3 DEF Accounts
<1> QED
  BY <1>3, <1>4, <1>5, <1>6, <1>7 DEF Next, Ended

\* The counters of the stages are exact, and total is what all of them researched.
THEOREM AccountsAreExact == Spec => []RequestsAccounted
<1>1. Init => IInv /\ Accounts
  BY InitInv, InitAccounts
<1>2. IInv /\ Accounts /\ [Next]_vars => (IInv /\ Accounts)'
  BY StepInv, StepAccounts
<1>3. Accounts => RequestsAccounted
  BY DEF Accounts
<1> QED
  BY <1>1, <1>2, <1>3, PTL DEF Spec
==============================================================================
