---------------------------- MODULE TechnicalAgent ---------------------------
(***************************************************************************)
(* The technical agent (agents/technical/subgraph.py).  A task fetches the *)
(* prices of its instrument, perhaps those of a benchmark, into the data   *)
(* store, and has calculators work on the stored contexts.  An instrument  *)
(* is a stock or an index; the market as a whole, and a sector of another  *)
(* classification, are researched through an index that stands for them.   *)
(***************************************************************************)
EXTENDS AgentFrame

CONSTANTS
  Proxies,      \* _A_SHARE_PROXY_TARGETS, a sequence of indices
  Sector,       \* a sector that only an outside classification knows
  SectorIndex   \* the index of the same name

Init == Prepared("technical", Stock \cup {Market, Sector})

Benchmarks == Range(Proxies)  \* _FIXED_BENCHMARK_CODES

\* _resolve_external_sector_proxy: what the run is planned for.
Subject == IF target = Sector THEN SectorIndex ELSE target

\* A context is fetched, perhaps too large to preview or empty, and is in the store
\* unless fetching it failed.
Results(tool) == IF tool = "context" THEN {"answered", "too_large", "empty", "failed"}
                 ELSE {"answered", "failed"}
Stored(o) == o.result # "failed"

Reusable == {"answered", "too_large"}  \* _CONTEXT_REUSABLE_STATUSES
Citable  == {"answered"}               \* _EVIDENCE_CITABLE_STATUSES

-----------------------------------------------------------------------------
(* Requests.                                                               *)

\* _resolve_abstract_market_requests: requests about the market are given the proxies
\* in turn, a market benchmark the first proxy that is not the instrument itself.
Resolve(written) ==
  LET Abstract(i) == written[i].stock = Market
      Turn(i)     == Cardinality({j \in 1..i - 1 : Abstract(j)})
      Priced(i)   == IF Abstract(i) THEN Proxies[(Turn(i) % Len(Proxies)) + 1] ELSE written[i].stock
      Other(i)    == Proxies[Min({n \in DOMAIN Proxies : Proxies[n] # Priced(i)})]
  IN [i \in DOMAIN written |->
        [written[i] EXCEPT !.stock = Priced(i),
                           !.named = @ \/ Abstract(i),
                           !.bench = IF @ = Market THEN Other(i) ELSE @]]

\* _build_tasks: the benchmark has to be permitted as well.  The requests of a review
\* are not resolved.
Permitted(written, allowed) ==
  {r \in Range(written) : {r.stock, r.bench} \subseteq allowed \cup {"none"}}
BuildTasks(allowed) == [w \in Written |-> Build(Resolve(w), Permitted(Resolve(w), allowed))]
FollowUps(allowed)  == [w \in Written |-> Build(w, Permitted(w, allowed))]

\* _task_covers_primary_target compares the name too.
Covers(r) == IF Subject = Market THEN r.stock \in Benchmarks ELSE r.stock = Subject /\ r.named
Covering  == {r \in UNION {Range(Resolve(w)) : w \in Written} : Covers(r)}

\* _follow_up_permissions.
FollowUp == Benchmarks \cup UNION {{r.stock, r.bench} : r \in Range(pending)}

-----------------------------------------------------------------------------
(* Drafts.                                                                 *)

\* A draft cites one or two calls and writes the name of its target itself, which
\* matters for the index of a sector.
Draft == [about: Stock \cup {Market, SectorIndex} \cup Benchmarks, named: {TRUE},
          cites: {{o, p} : o, p \in obs}] \cup
         [about: {SectorIndex}, named: {FALSE}, cites: {{o, p} : o, p \in obs}]

\* _daily_snapshot_permissions.
SnapshotTargets == Listed \cup Benchmarks \cup {target}

\* What finalize reads off the stored contexts of a call: whose data it used.
Subjects(o) ==
  CASE o.tool = "snapshot" -> SnapshotTargets
    [] o.tool = "context"  -> {o.stock}
    [] OTHER               -> {c.stock : c \in o.uses}

\* _filter_drafts, which in a review looks only at whether the calls can be cited.
ReviewDrafts(written) == {d \in written : \A o \in d.cites : o.result \in Citable}

DailyDrafts(written) ==
  {d \in written : /\ \A o \in d.cites : \A p \in obs : o.position >= p.position
                   /\ d.about \in SnapshotTargets}

\* Mutant: a draft is proved if some call it cites is about its target.
MutProved(written) ==
  {d \in ReviewDrafts(written) : \E o \in d.cites : d.about \in Subjects(o)}

\* _materialize_evidence.
Proved(written) == {d \in ReviewDrafts(written) : \A o \in d.cites : d.about \in Subjects(o)}

\* _restore_external_sector_target compares the name too.
Recorded(d) ==
  IF mode = "VERIFICATION" /\ target = Sector /\ d.about = SectorIndex /\ d.named
  THEN [d EXCEPT !.about = Sector] ELSE d

-----------------------------------------------------------------------------
(* The nodes.                                                              *)

Snapshot == AcquireSnapshot({1} \X SnapshotResults)
Analyze  == AnalyzeDaily(DailyDrafts(Draft), Draft, BuildTasks(Listed \cup Benchmarks))

\* plan_targeted; if there is no one index for the sector, nothing is planned.
Plan ==
  \/ PlanTargeted(Plans(TasksOf(BuildTasks({Subject} \cup Benchmarks)), Covering))
  \/ target = Sector /\ PlanTargeted(Plans(TasksOf([w \in Written |-> <<>>]), {}))

\* A resolved request says so in its reason, which may then be too long: analyze_daily
\* and plan_targeted raise.
Overlong ==
  /\ pc \in {"analyze", "plan"}
  /\ \E w \in Written : Resolve(w) # w
  /\ pc' = "raised"
  /\ UNCHANGED <<fixed, pending, seen, obs, cursor, round, count, exhausted, skipped, drafts,
                 errors, evidence, status>>

Cost(r) == 1 + Len(r.checks) + (IF "relative_strength" \in Range(r.checks) THEN 1 ELSE 0)

\* execute_verification up to the first call.
Execute == StartRound(Reserve([r \in Range(pending) |-> Cost(r)]))

\* The calls of a task: its contexts, then the calculations.
Contexts(r) == IF "relative_strength" \in Range(r.checks) THEN <<r.stock, r.bench>> ELSE <<r.stock>>
Calls(r)    == Len(Contexts(r)) + Len(r.checks)

Advance(r, data) ==
  /\ IF cursor.call = Calls(r) THEN NextTask(1)
     ELSE cursor' = [cursor EXCEPT !.call = @ + 1, !.data = data] /\ UNCHANGED pc
  /\ UNCHANGED errors

\* A context is fetched unless a usable one is there.  Without the prices of its
\* instrument the task ends.
Fetch(r) ==
  \E o \in Answers("context", Contexts(r)[cursor.call], {}, Results("context"), Reusable) :
    /\ Ask(o, Reusable)
    /\ IF cursor.call = 1 /\ ~ Stored(o) THEN NextTask(1) /\ errors' = TRUE
       ELSE Advance(r, Append(cursor.data, o))

\* A calculation is asked for; a comparison is left out if its benchmark is not stored.
Calculate(r, check) ==
  LET uses == IF check = "relative_strength" THEN Range(cursor.data) ELSE {cursor.data[1]}
  IN IF \A c \in uses : Stored(c)
     THEN \E o \in Answers(check, r.stock, uses, Results(check), Reusable) :
            Ask(o, Reusable) /\ Advance(r, cursor.data)
     ELSE Advance(r, cursor.data) /\ UNCHANGED <<obs, count>>

\* One call of _execute_task.
Call ==
  /\ pc = "call"
  /\ LET r == pending[cursor.task]
         n == Len(Contexts(r))
     IN IF cursor.call <= n THEN Fetch(r) ELSE Calculate(r, r.checks[cursor.call - n])
  /\ UNCHANGED <<fixed, pending, seen, round, exhausted, skipped, drafts, evidence, status>>

Review   == ReviewRound(ReviewDrafts(Draft), Draft, FollowUps(FollowUp))
Finalize == FinalizeRun(Proved(drafts), [d \in drafts |-> Recorded(d)])

Next ==
  \/ Snapshot \/ Analyze \/ Plan \/ Overlong \/ Execute \/ Call \/ Review \/ Finalize
  \/ Ended

-----------------------------------------------------------------------------

\* What a task has to show when it was worked on: prices that could not be had, or
\* every calculation on the same ones, a comparison unless the benchmark was missing.
Researched(r) ==
  LET Fetched(s) == {o \in obs : o.tool = "context" /\ o.stock = s}
      Did(check, uses) == \E o \in obs : o.tool = check /\ o.uses = uses
  IN \E c \in Fetched(r.stock) :
       ~ Stored(c) \/ \A check \in Range(r.checks) :
         IF check = "relative_strength"
         THEN \E b \in Fetched(r.bench) : ~ Stored(b) \/ Did(check, {c, b})
         ELSE Did(check, {c})
=============================================================================
