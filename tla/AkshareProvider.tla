--------------------------- MODULE AkshareProvider ---------------------------
(***************************************************************************)
(* AkshareNewsProvider of providers/akshare_news.py: asynchronous queries  *)
(* that run blocking functions in a pool of threads.  A thread cannot be   *)
(* stopped, so a query that gives up leaves its thread working, and keeps  *)
(* its execution slot until the thread is done.                            *)
(*                                                                         *)
(*   query   idle -> waiting -> woken -> awaiting -> answered              *)
(*   job                                 queued -> running -> finished     *)
(*                                                         -> delivered    *)
(*                                                                         *)
(* The event loop, the threads, the timers, the canceller of a query and   *)
(* aclose are actors.  asyncio.Semaphore is modelled with its queue, from  *)
(* the moment a waiter is woken to the moment it runs.                     *)
(***************************************************************************)
EXTENDS Integers, Sequences, SequencesExt, FiniteSets

CONSTANTS
  Query,      \* the calls of query
  MaxWorkers  \* max_workers: threads and slots

ASSUME WorkersAssumption ==
  /\ IsFiniteSet(Query)
  /\ MaxWorkers \in Nat \ {0}

VARIABLES
  closed,   \* _closed, and the executor is shut down
  free,     \* value of the semaphore _slots
  queue,    \* who waits for a slot and was not woken yet
  query,    \* where each query is
  job       \* the work it submitted to the executor

newsVars == <<closed, free, queue, query, job>>

NewsInit ==
  /\ closed = FALSE
  /\ free = MaxWorkers
  /\ queue = <<>>
  /\ query = [q \in Query |-> "idle"]
  /\ job = [q \in Query |-> "none"]

In(s)      == {q \in Query : query[q] \in s}
Jobs(s)    == {q \in Query : job[q] \in s}
Settled    == {"answered", "failed", "crashed", "cancelled"}
HoldsSlot  == {"queued", "running", "finished", "dropped"}

-----------------------------------------------------------------------------
(* Queries.                                                                *)

Fewest(a, b) == IF a <= b THEN a ELSE b

\* q goes to state s; of the queries in line, the first n are woken, each with one
\* of the f slots that are free.
Wake(line, n, f, q, s) ==
  LET k == Fewest(n, Len(line))
  IN /\ queue' = SubSeq(line, k + 1, Len(line))
     /\ free' = f - k
     /\ query' = [p \in Query |-> IF p = q THEN s
                                  ELSE IF \E i \in 1..k : line[i] = p THEN "woken" ELSE query[p]]

\* Semaphore.release.
ReleaseTo(q, s) == Wake(queue, 1, free + 1, q, s)

\* Semaphore.acquire ends by waking all it can: some may have got in line behind a
\* woken query while a slot was free.  q gives the slots back.
AcquireEnds(q, s, slots) ==
  Wake(RemoveFirst(queue, q), free + slots, free + slots, q, s)

\* Mutant: the slot of a submission that failed is not released.
MutRefused(q) == AcquireEnds(q, "crashed", 0)

\* run_in_executor raises RuntimeError once the executor is shut down.
Refused(q) == AcquireEnds(q, "crashed", 1)

\* The closed provider refuses; else the query takes a slot or gets in line.
Begin(q) ==
  /\ query[q] = "idle"
  /\ IF closed
     THEN /\ query' = [query EXCEPT ![q] = "failed"]
          /\ UNCHANGED <<free, queue, job>>
     ELSE IF free > 0 /\ In({"waiting", "woken"}) = {}
     THEN /\ free' = free - 1
          /\ query' = [query EXCEPT ![q] = "awaiting"]
          /\ job' = [job EXCEPT ![q] = "queued"]
          /\ UNCHANGED queue
     ELSE /\ queue' = Append(queue, q)
          /\ query' = [query EXCEPT ![q] = "waiting"]
          /\ UNCHANGED <<free, job>>
  /\ UNCHANGED closed

\* A woken query runs.  closed is not read again.
Resume(q) ==
  /\ query[q] = "woken"
  /\ IF closed
     THEN Refused(q) /\ UNCHANGED job
     ELSE /\ AcquireEnds(q, "awaiting", 0)
          /\ job' = [job EXCEPT ![q] = "queued"]
  /\ UNCHANGED closed

\* A query stops waiting for the slot or for the work.  shield: the work goes on.
GiveUp(q, s) ==
  IF query[q] = "awaiting"
  THEN query' = [query EXCEPT ![q] = s] /\ UNCHANGED <<free, queue>>
  ELSE AcquireEnds(q, s, IF query[q] = "woken" THEN 1 ELSE 0)

\* Mutant: only the call itself is timed, not the wait for a slot.
MutTimeout(q) ==
  /\ query[q] = "awaiting"
  /\ GiveUp(q, "failed")
  /\ UNCHANGED <<closed, job>>

\* wait_for runs into timeout_seconds, for the slot or for the work.
Timeout(q) ==
  /\ query[q] \in {"waiting", "woken", "awaiting"}
  /\ GiveUp(q, "failed")
  /\ UNCHANGED <<closed, job>>

CancelQuery(q) ==
  /\ query[q] \in {"waiting", "woken", "awaiting"}
  /\ GiveUp(q, "cancelled")
  /\ UNCHANGED <<closed, job>>

\* The query gets the result or the exception, or learns that its work was dropped.
Answer(q) ==
  /\ query[q] = "awaiting"
  /\ \/ job[q] = "delivered" /\ query' \in {[query EXCEPT ![q] = s] : s \in {"answered", "failed"}}
     \/ job[q] = "withdrawn" /\ query' = [query EXCEPT ![q] = "cancelled"]
  /\ UNCHANGED <<closed, free, queue, job>>

-----------------------------------------------------------------------------
(* Threads, their callback, and aclose.                                    *)

Work(q) ==
  /\ job[q] = "queued"
  /\ Cardinality(Jobs({"running"})) < MaxWorkers
  /\ job' = [job EXCEPT ![q] = "running"]
  /\ UNCHANGED <<closed, free, queue, query>>

EndWork(q) ==
  /\ job[q] = "running"
  /\ job' = [job EXCEPT ![q] = "finished"]
  /\ UNCHANGED <<closed, free, queue, query>>

\* _release_slot, on the loop.
ReleaseSlot(q) ==
  /\ \/ job[q] = "finished" /\ job' = [job EXCEPT ![q] = "delivered"]
     \/ job[q] = "dropped" /\ job' = [job EXCEPT ![q] = "withdrawn"]
  /\ ReleaseTo(q, query[q])
  /\ UNCHANGED closed

\* Mutant: cancel_futures is left out.
MutClose ==
  /\ ~ closed
  /\ closed' = TRUE
  /\ UNCHANGED <<free, queue, query, job>>

\* aclose: what no thread has taken yet is dropped.
Close ==
  /\ ~ closed
  /\ closed' = TRUE
  /\ job' = [q \in Query |-> IF job[q] = "queued" THEN "dropped" ELSE job[q]]
  /\ UNCHANGED <<free, queue, query>>

Finished ==
  /\ \A q \in Query : query[q] \in Settled /\ job[q] \notin HoldsSlot
  /\ UNCHANGED newsVars

NewsNext ==
  \/ \E q \in Query : \/ Begin(q) \/ Resume(q) \/ Timeout(q) \/ CancelQuery(q) \/ Answer(q)
                      \/ Work(q) \/ EndWork(q) \/ ReleaseSlot(q)
  \/ Close
  \/ Finished

\* Timers fire and the loop runs what is ready; a function need never return.
NewsFairness == \A q \in Query : WF_newsVars(Timeout(q))

NewsSpec == NewsInit /\ [][NewsNext]_newsVars /\ NewsFairness

-----------------------------------------------------------------------------

\* No slot is lost or made up: each is free, on its way to a woken query, or held by
\* work that is not over, its query gone or not.  So abandoned threads count against
\* the limit however often queries time out, and work never has to wait for a thread.
\* And no query waits for a slot that is free, unless one that was woken will wake it.
SlotsConserved ==
  /\ free + Cardinality(In({"woken"})) + Cardinality(Jobs(HoldsSlot)) = MaxWorkers
  /\ \A q \in Query : query[q] = "waiting" <=> \E n \in DOMAIN queue : queue[n] = q
  /\ free > 0 /\ queue # <<>> => In({"woken"}) # {}

\* aclose is final: no function is called once the provider is closed, not even for
\* a query that got through the check of closed before.
ClosedStartsNothing ==
  [][closed => Jobs({"running"})' \subseteq Jobs({"running"})]_newsVars

\* Every query ends, even if all threads hang and the provider is never closed.
EveryQueryEnds == \A q \in Query : query[q] # "idle" ~> query[q] \in Settled
=============================================================================
