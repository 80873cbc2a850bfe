--------------------------- MODULE ProviderRouting ---------------------------
(***************************************************************************)
(* The routed market-data provider (providers/router.py, cache.py): a      *)
(* query asks the primary server; only if that fails it looks into the     *)
(* cache of backup answers, and then asks the backup server, one query at  *)
(* a time for each cache key.                                              *)
(*                                                                         *)
(*   primary -> lookup -> acquire -> recheck -> backup -> put              *)
(*                           |                                             *)
(*                        waiting                                          *)
(*                                                                         *)
(* A step is what a task does between two awaits, taking every await of    *)
(* the router for one at which other tasks may run, as it is with any      *)
(* ProviderCache.  A task may be cancelled at each of them: LangGraph      *)
(* cancels the nodes of a superstep when one of them raises.               *)
(*                                                                         *)
(* What a server answers is a matter of the key, so an answer is its       *)
(* source and a cache entry its expiry.                                    *)
(***************************************************************************)
EXTENDS Integers, Sequences, SequencesExt, FiniteSets

CONSTANTS
  Task,     \* concurrent callers
  Key,      \* provider_cache_key of the queries
  TTL,      \* BACKUP_CACHE_TTL_SECONDS
  MaxTime   \* bound of the clock

NoTask == "nobody"

ASSUME RoutingAssumption ==
  /\ IsFiniteSet(Task) /\ NoTask \notin Task
  /\ TTL \in Nat \ {0}
  /\ MaxTime \in Nat

VARIABLES
  state,    \* where each task is in its query
  key,      \* key of its request
  answer,   \* what it got: provider and from_cache
  expires,  \* InMemoryProviderCache: expires_at of the entry of a key
  holder,   \* owner of the key's lock
  waiters,  \* who waits for it
  now       \* time.monotonic

routingVars == <<state, key, answer, expires, holder, waiters, now>>

NoAnswer == [provider |-> "none", from_cache |-> FALSE]
Primary  == [provider |-> "PRIMARY", from_cache |-> FALSE]
Backup   == [provider |-> "BACKUP", from_cache |-> FALSE]
Cached   == [provider |-> "BACKUP", from_cache |-> TRUE]

\* expires_at of a key that has no entry.
Never == 0

\* Some callers may have nothing to ask.
RoutingInit ==
  /\ state \in [Task -> {"idle", "done"}]
  /\ key \in [Task -> {k \in Key : k = CHOOSE j \in Key : TRUE}]
  /\ answer = [t \in Task |-> NoAnswer]
  /\ expires = [k \in Key |-> Never]
  /\ holder = [k \in Key |-> NoTask]
  /\ waiters = [k \in Key |-> <<>>]
  /\ now = 0

-----------------------------------------------------------------------------

Goto(t, s) == state' = [state EXCEPT ![t] = s]
Reply(t, a) == Goto(t, "answered") /\ answer' = [answer EXCEPT ![t] = a]
Live(k) == expires[k] > now

\* InMemoryProviderCache.get drops an entry it finds expired.
Dropped(k) == [expires EXCEPT ![k] = IF Live(k) THEN @ ELSE Never]

\* A task asks for a key.
Ask(t, k) ==
  /\ Goto(t, "primary")
  /\ key' = [key EXCEPT ![t] = k]
  /\ answer' = [answer EXCEPT ![t] = NoAnswer]
  /\ UNCHANGED <<expires, holder, waiters, now>>

\* _query_primary.
PrimaryAnswers(t) ==
  /\ state[t] = "primary"
  /\ Reply(t, Primary)
  /\ UNCHANGED <<key, expires, holder, waiters, now>>

PrimaryFails(t) ==
  /\ state[t] = "primary"
  /\ Goto(t, "lookup")
  /\ UNCHANGED <<key, answer, expires, holder, waiters, now>>

\* _query_backup, before the lock.
Lookup(t) ==
  /\ state[t] = "lookup"
  /\ expires' = Dropped(key[t])
  /\ IF Live(key[t]) THEN Reply(t, Cached) ELSE Goto(t, "acquire") /\ UNCHANGED answer
  /\ UNCHANGED <<key, holder, waiters, now>>

\* asyncio.Lock is granted in the order it was asked for.
Acquire(t) ==
  /\ state[t] = "acquire"
  /\ IF holder[key[t]] = NoTask
     THEN /\ holder' = [holder EXCEPT ![key[t]] = t]
          /\ Goto(t, "recheck")
          /\ UNCHANGED waiters
     ELSE /\ waiters' = [waiters EXCEPT ![key[t]] = Append(@, t)]
          /\ Goto(t, "waiting")
          /\ UNCHANGED holder
  /\ UNCHANGED <<key, answer, expires, now>>

\* Task t leaves the lock in state s; the next one in the queue goes on.
Release(t, s) ==
  LET k == key[t]
  IN IF waiters[k] = <<>>
     THEN /\ holder' = [holder EXCEPT ![k] = NoTask]
          /\ Goto(t, s)
          /\ UNCHANGED waiters
     ELSE /\ holder' = [holder EXCEPT ![k] = Head(waiters[k])]
          /\ waiters' = [waiters EXCEPT ![k] = Tail(@)]
          /\ state' = [state EXCEPT ![t] = s, ![Head(waiters[k])] = "recheck"]

\* Mutant: the cache is not read again under the lock.
MutRecheck(t) ==
  /\ state[t] = "recheck"
  /\ Goto(t, "backup")
  /\ UNCHANGED <<key, answer, expires, holder, waiters, now>>

\* The second lookup, under the lock.
Recheck(t) ==
  /\ state[t] = "recheck"
  /\ expires' = Dropped(key[t])
  /\ IF Live(key[t])
     THEN Release(t, "answered") /\ answer' = [answer EXCEPT ![t] = Cached]
     ELSE Goto(t, "backup") /\ UNCHANGED <<answer, holder, waiters>>
  /\ UNCHANGED <<key, now>>

BackupAnswers(t) ==
  /\ state[t] = "backup"
  /\ Goto(t, "put")
  /\ UNCHANGED <<key, answer, expires, holder, waiters, now>>

\* Mutant: the lock is kept when the backup fails.
MutBackupFails(t) ==
  /\ state[t] = "backup"
  /\ Goto(t, "unavailable")
  /\ UNCHANGED <<key, answer, expires, holder, waiters, now>>

\* Both servers failed: DataSourceUnavailableError.  Nothing is cached.
BackupFails(t) ==
  /\ state[t] = "backup"
  /\ Release(t, "unavailable")
  /\ UNCHANGED <<key, answer, expires, now>>

Put(t) ==
  /\ state[t] = "put"
  /\ expires' = [expires EXCEPT ![key[t]] = now + TTL]
  /\ Release(t, "answered")
  /\ answer' = [answer EXCEPT ![t] = Backup]
  /\ UNCHANGED <<key, now>>

InCriticalSection == {"recheck", "backup", "put"}
Awaiting          == {"primary", "lookup", "acquire", "waiting"} \cup InCriticalSection

\* Mutant: a cancelled task stays in the queue.
MutCancel(t) ==
  /\ state[t] \in Awaiting
  /\ IF state[t] \in InCriticalSection
     THEN Release(t, "cancelled")
     ELSE Goto(t, "cancelled") /\ UNCHANGED <<holder, waiters>>
  /\ UNCHANGED <<key, answer, expires, now>>

\* A waiter takes itself out of the lock's deque.
LeaveQueue(t) ==
  \E n \in DOMAIN waiters[key[t]] :
    /\ waiters[key[t]][n] = t
    /\ waiters' = [waiters EXCEPT ![key[t]] = RemoveAt(@, n)]

\* async with gives the lock back, and a waiter leaves the queue.
Cancel(t) ==
  /\ \/ state[t] \in InCriticalSection /\ Release(t, "cancelled")
     \/ state[t] = "waiting" /\ Goto(t, "cancelled") /\ LeaveQueue(t) /\ UNCHANGED holder
     \/ /\ state[t] \in Awaiting \ (InCriticalSection \cup {"waiting"})
        /\ Goto(t, "cancelled")
        /\ UNCHANGED <<holder, waiters>>
  /\ UNCHANGED <<key, answer, expires, now>>

Tick ==
  /\ now < MaxTime
  /\ now' = now + 1
  /\ UNCHANGED <<state, key, answer, expires, holder, waiters>>

\* The steps a query takes by itself.
Route(t) ==
  \/ PrimaryAnswers(t) \/ PrimaryFails(t) \/ Lookup(t) \/ Acquire(t) \/ Recheck(t)
  \/ BackupAnswers(t) \/ BackupFails(t) \/ Put(t)

-----------------------------------------------------------------------------
\* Backup traffic is paid for once: while a task asks the backup server, no other
\* one asks it for the same key and the cache has no answer to give.  Every task
\* that waited must find the answer the task before it paid for, and a task that
\* was cancelled or failed must not let two of them through.
BackupPaidOnce ==
  \A t \in Task : state[t] = "backup" =>
    /\ holder[key[t]] = t
    /\ ~ Live(key[t])
    /\ \A u \in Task \ {t} : state[u] \in InCriticalSection => key[u] # key[t]

\* No wake-up is lost: exactly the tasks that wait are queued, each once, and only
\* behind a task that holds the lock and still has to give it back.
NoLostWakeup ==
  \A k \in Key :
    /\ \A t \in Task :
         Cardinality({n \in DOMAIN waiters[k] : waiters[k][n] = t})
           = IF state[t] = "waiting" /\ key[t] = k THEN 1 ELSE 0
    /\ holder[k] = NoTask => waiters[k] = <<>>
    /\ holder[k] # NoTask => /\ key[holder[k]] = k
                             /\ state[holder[k]] \in InCriticalSection
=============================================================================
