------------------------------ MODULE AgentTools -----------------------------
(***************************************************************************)
(* The tools that agents call (tools/*.py), several of them at once, on    *)
(* the contexts and the store of their runs:                               *)
(*                                                                         *)
(*   query --> store --> done        a stored tool or a daily snapshot     *)
(*   query --> done                  a plain tool                          *)
(*   read ---> done                  a calculator                          *)
(*                                                                         *)
(* A tool makes its queries in stages, those of a stage concurrently, and  *)
(* tells the model how complete the answer is.  A cleanup, the end of the  *)
(* runtime and a cancellation may come between any two steps.              *)
(***************************************************************************)
EXTENDS RunResources, ToolPlans, Functions

CONSTANTS
  Tool,            \* calls of tools
  Mixes,           \* the kinds of tool that are called together: of each call its kind, or "none"
  Outcomes,        \* of each query that is modelled how it may end
  MaxConcurrency   \* max_concurrency of the daily snapshots

-----------------------------------------------------------------------------
(* Kinds of tool, cut down to the queries that are modelled.               *)

PlainTools == DOMAIN CommonPlan \cup DOMAIN FundamentalPlan \cup DOMAIN SentimentFlowPlan
                \cup DOMAIN EventPlan

\* The queries of a tool that makes all of them at once.
AllAtOnce(k) ==
  CASE k \in DOMAIN PricePlan         -> PricePlan[k]
    [] k \in DOMAIN CommonPlan        -> CommonPlan[k]
    [] k \in DOMAIN FundamentalPlan   -> FundamentalPlan[k]
    [] k \in DOMAIN SentimentFlowPlan -> SentimentFlowPlan[k]
    [] k \in DOMAIN EventPlan         -> EventPlan[k]

\* The stages of a tool.  Those of one stage need none of their queries.
Plan ==
  [k \in DOMAIN SnapshotPlan \cup DOMAIN PricePlan \cup PlainTools |->
     IF k \in DOMAIN SnapshotPlan THEN SnapshotPlan[k] ELSE <<Optional(AllAtOnce(k), {})>>]

Modelled(stage) == Range(stage.queries) \cap DOMAIN Outcomes

\* _core_series_labels, _series_from_bundle: what every calculation needs of each kind.
CoreLabels ==
  LET core == [stock_price_daily  |-> {"price_bars", "adjustment_factors"},
               stock_price_weekly |-> {"price_bars", "adjustment_factors"},
               index_market       |-> {"index_price_bars"},
               industry_market    |-> {"index_price_bars"},
               fund_market        |-> {"fund_price_bars", "fund_adjustment_factors"},
               fund_market_raw    |-> {"fund_price_bars"}]
  IN [k \in DOMAIN core |-> core[k] \cap DOMAIN Outcomes]

\* Of each calculator the further queries its results depend on.
ExtraLabels ==
  [calculate_return_and_trend     |-> {},
   calculate_momentum             |-> {},
   calculate_relative_strength    |-> {},
   calculate_risk_and_tradability |-> {"price_limits", "suspensions", "trade_calendar"},
   calculate_volume_and_liquidity |-> {"daily_valuation_and_turnover"}]

Frequency(kind) == IF kind = "stock_price_weekly" THEN "weekly" ELSE "daily"

Ending == {"rows", "empty", "failed", "cancelled"}

ASSUME ToolAssumption ==
  /\ IsFiniteSet(Tool) /\ "none" \notin Tool /\ MaxConcurrency \in Nat \ {0}
  /\ \A q \in DOMAIN Outcomes : Outcomes[q] \subseteq Ending
  /\ \A mix \in Mixes :
       DOMAIN mix = Tool /\ Range(mix) \subseteq DOMAIN Plan \cup DOMAIN ExtraLabels \cup {"none"}
  /\ \A mix \in Mixes : \A t \in Tool : mix[t] \in DOMAIN Plan => Modelled(Plan[mix[t]][1]) # {}

VARIABLE call  \* each call: where it is, its queries, what it read, its result

vars == <<resourceVars, call>>

NoResult == [status |-> "none", ref |-> "none"]
Idle(kind) == [at |-> "idle", kind |-> kind, context |-> NoContext, stage |-> 0,
               query |-> <<>>, refs |-> <<>>, read |-> {}, result |-> NoResult]

Init ==
  /\ ResourcesInit
  /\ \E mix \in Mixes : call = [t \in Tool |-> Idle(mix[t])]

-----------------------------------------------------------------------------
(* Queries.                                                                *)

Stage(c)     == Plan[c.kind][c.stage]
With(c, how) == {q \in DOMAIN c.query : c.query[q] \in how}
Asked(c)     == With(c, {"asked"})
Answered(c)  == With(c, {"rows", "empty"})
Failed(c)    == With(c, {"failed"})

\* A stage is begun: its queries are asked, in their order as the semaphore allows.
Asking(c, n) ==
  LET asked == Modelled(Plan[c.kind][n])
  IN [c EXCEPT !.stage = n,
               !.query = [q \in DOMAIN @ \cup asked |-> IF q \in asked THEN "asked" ELSE @[q]]]

\* Only the daily snapshots have a semaphore: of the queries that wait the first go on.
Running(c) ==
  LET queries  == Stage(c).queries
      Before(n) == {k \in 1..(n - 1) : queries[k] \in Asked(c)}
  IN {queries[n] : n \in {k \in DOMAIN queries :
        /\ queries[k] \in Asked(c)
        /\ c.kind \in DOMAIN SnapshotPlan => Cardinality(Before(k)) < MaxConcurrency}}

\* A call, on a context that some agent holds, given up or not.
Start(t) ==
  /\ call[t].at = "idle" /\ call[t].kind \in DOMAIN Plan
  /\ \E context \in DOMAIN made :
       call' = [call EXCEPT ![t] = Asking([@ EXCEPT !.at = "query", !.context = context], 1)]
  /\ UNCHANGED resourceVars

\* Mutant: a stage is over with its first answer.
MutStageEnds(c) == Answered(c) # {} /\ With(c, {"cancelled"}) = {}

\* gather returns all.
StageEnds(c) == With(c, {"asked", "cancelled"}) = {}

\* Where queries are needed, the first that fails ends the call, and the others of its
\* stage are left to themselves.
StageFails(c) ==
  /\ Stage(c).needed
  /\ \/ Failed(c) # {}
     \/ StageEnds(c) /\ Stage(c).rows \cap With(c, {"empty"}) # {}

\* A cancelled query is never taken for an answer.  gather hands it on at once, but the
\* tools that ask for exceptions as results wait for the others.
StageCancelled(c) ==
  /\ With(c, {"cancelled"}) # {}
  /\ c.kind \notin DOMAIN SnapshotPlan => Asked(c) = {}

\* Queries go on when the call they belong to is over.  What gather hands on is settled
\* before another one ends.
EndQuery(t) ==
  /\ call[t].stage > 0
  /\ call[t].at = "query" => ~ StageFails(call[t]) /\ ~ StageCancelled(call[t])
  /\ \E q \in Running(call[t]) : \E how \in Outcomes[q] :
       call' = [call EXCEPT ![t].query[q] = how]
  /\ UNCHANGED resourceVars

End(t, at, status, ref) ==
  call' = [call EXCEPT ![t].at = at, ![t].result = [status |-> status, ref |-> ref]]

-----------------------------------------------------------------------------
(* What comes of the queries.                                              *)

\* execute_tool_queries, _build_result: a result that is too large is replaced.
PlainStatus(c, fits) ==
  IF Answered(c) = {} THEN "error"
  ELSE IF ~ fits THEN "too_large"
  ELSE IF Failed(c) # {} THEN "partial"
  ELSE IF With(c, {"rows"}) = {} THEN "empty" ELSE "ok"

\* What is said of the data that were put.
PriceStatus(c, fits) ==
  IF ~ fits THEN "too_large"
  ELSE IF Failed(c) # {} THEN "partial"
  ELSE IF With(c, {"rows"}) = {} THEN "empty" ELSE "ok"

\* The queries of which a model may be shown rows.  The catalogue of a snapshot of events
\* only names the stocks of its news.
Shown(c) ==
  With(c, {"rows"}) \ (IF c.kind = "get_daily_event_snapshot" THEN {"stock_catalog"} ELSE {})

\* Rows that lack what a candidate needs are not selected, perhaps none of them is: the
\* snapshot of the events may have nothing to show, the others may not.
Selections(c) == IF Shown(c) # {} THEN BOOLEAN ELSE {FALSE}
EventStatus(c, selected, fits) ==
  IF ~ fits THEN "too_large"
  ELSE IF Failed(c) # {} THEN "partial"
  ELSE IF selected THEN "ok" ELSE "empty"

SnapshotStatus(c, fits) ==
  IF ~ fits THEN "too_large" ELSE IF Failed(c) # {} THEN "partial" ELSE "ok"

\* The data without which a tool has no answer to store.
EventEnough(c)  == c.kind = "get_daily_event_snapshot" => Answered(c) # {}
PriceEnough(c)  == c.kind \in DOMAIN PricePlan => Answered(c) # {}
SomeRows(c)     == Stage(c).rows \cap With(c, {"rows"}) # {}
FundamentalEnough(c)   == c.kind = "get_daily_fundamental_snapshot" => SomeRows(c)
SentimentFlowEnough(c) == c.kind = "get_daily_sentiment_flow_snapshot" => SomeRows(c)

Enough(c) == EventEnough(c) /\ PriceEnough(c) /\ FundamentalEnough(c) /\ SentimentFlowEnough(c)

Gather(t) ==
  LET c == call[t]
  IN /\ c.at = "query"
     /\ \/ StageCancelled(c) /\ End(t, "cancelled", "none", "none")
        \/ StageFails(c) /\ End(t, "done", "error", "none")
        \/ /\ ~ StageFails(c) /\ StageEnds(c)
           /\ IF c.stage < Len(Plan[c.kind])
              THEN call' = [call EXCEPT ![t] = Asking(c, c.stage + 1)]
              ELSE IF c.kind \in PlainTools
              THEN \E fits \in BOOLEAN : End(t, "done", PlainStatus(c, fits), "none")
              ELSE IF Enough(c) THEN call' = [call EXCEPT ![t].at = "store"]
              ELSE End(t, "done", "error", "none")
     /\ UNCHANGED resourceVars

\* The full data are stored before they are cut down to what a model may see; `status`
\* says how that ends, by whether they fit.
StoreWith(t, status) ==
  LET c == call[t]
  IN /\ c.at = "store"
     /\ \/ /\ Put(t, c.context, Answered(c))
           /\ \E fits \in BOOLEAN : End(t, "done", status[fits], t)
        \/ End(t, "done", "error", "none") /\ UNCHANGED entries
     /\ UNCHANGED <<made, current, cleaning, runtime, released, closing>>

StorePrices(t)   == /\ call[t].kind \in DOMAIN PricePlan
                    /\ StoreWith(t, [fits \in BOOLEAN |-> PriceStatus(call[t], fits)])
StoreEvents(t)   == /\ call[t].kind = "get_daily_event_snapshot"
                    /\ \E selected \in Selections(call[t]) :
                         StoreWith(t, [fits \in BOOLEAN |-> EventStatus(call[t], selected, fits)])
StoreSnapshot(t) == /\ call[t].kind \in DOMAIN SnapshotPlan \ {"get_daily_event_snapshot"}
                    /\ StoreWith(t, [fits \in BOOLEAN |-> SnapshotStatus(call[t], fits)])

Store(t) == StorePrices(t) \/ StoreEvents(t) \/ StoreSnapshot(t)

-----------------------------------------------------------------------------
(* Calculators.                                                            *)

\* A calculator is given references that were handed out, the relative one two of them.
Given == {call[t].result.ref : t \in Tool} \ {"none"}

StartCalculator(t) ==
  /\ call[t].at = "idle" /\ call[t].kind \in DOMAIN ExtraLabels
  /\ \E context \in DOMAIN made, x, y \in Given :
       call' = [call EXCEPT ![t] =
         [@ EXCEPT !.at = "read", !.context = context,
                   !.refs = IF call[t].kind = "calculate_relative_strength" THEN <<x, y>> ELSE <<x>>]]
  /\ UNCHANGED resourceVars

KindOf(e) == call[e.ref].kind

\* _series_from_bundle, _required_dataset_rows.
Computable(e) == KindOf(e) \in DOMAIN PricePlan /\ CoreLabels[KindOf(e)] \subseteq e.data

\* _require_daily_bundle.
Daily(c, e) ==
  c.kind \in {"calculate_risk_and_tradability", "calculate_volume_and_liquidity"} =>
    Frequency(KindOf(e)) = "daily"

\* _validate_relative_bundles: of one cut-off and one frequency, and not the same data.
Comparable(c, read) ==
  c.kind = "calculate_relative_strength" =>
    /\ Cardinality({e.ref : e \in read}) = 2
    /\ \A e, f \in read : e.as_of = f.as_of /\ Frequency(KindOf(e)) = Frequency(KindOf(f))

\* _source_bundle_issues: what failed when the data were queried is not forgotten.
SourceIssues(c, read) ==
  \E e \in read : Failed(call[e.ref]) \cap (CoreLabels[KindOf(e)] \cup ExtraLabels[c.kind]) # {}

\* The next reference is read; with the last one the calculation is made, which may
\* lack history or fail.
Read(t) ==
  LET c    == call[t]
      got  == Got(c.context, Head(c.refs))
      read == c.read \cup got
      last == Len(c.refs) = 1
  IN /\ c.at = "read"
     /\ \/ /\ got # {} /\ ~ last
           /\ call' = [call EXCEPT ![t].refs = Tail(@), ![t].read = read]
        \/ /\ got # {} /\ last /\ Comparable(c, read)
           /\ \A e \in read : Computable(e) /\ Daily(c, e)
           /\ \E status \in IF SourceIssues(c, read) THEN {"partial"} ELSE {"ok", "partial"} :
                call' = [call EXCEPT ![t].at = "done", ![t].read = read,
                                     ![t].result = [status |-> status, ref |-> "none"]]
        \/ (got = {} \/ last) /\ End(t, "done", "error", "none")
     /\ UNCHANGED resourceVars

-----------------------------------------------------------------------------

\* The task of a call is cancelled, and with it the queries it waits for.  Nothing more is
\* known of them.
Cancel(t) ==
  /\ call[t].at \in {"query", "store", "read"}
  /\ call' = [call EXCEPT ![t] = [Idle(@.kind) EXCEPT !.at = "cancelled"]]
  /\ UNCHANGED resourceVars

Work(t) == EndQuery(t) \/ Gather(t) \/ Store(t) \/ Read(t)

Next ==
  \/ (Requested \/ GoesOn) /\ UNCHANGED call
  \/ \E t \in Tool : Start(t) \/ StartCalculator(t) \/ Work(t) \/ Cancel(t)

\* The event loop runs what can run of a cleanup and of the end of the runtime.  Nobody
\* has to call a tool, to clean up or to close, and no provider has to answer.
Fairness == WF_vars(GoesOn /\ UNCHANGED call)

Spec == Init /\ [][Next]_vars /\ Fairness

-----------------------------------------------------------------------------

Over(c)    == c.at \in {"done", "cancelled"}
Planned(c) == UNION {Modelled(Plan[c.kind][n]) : n \in DOMAIN Plan[c.kind]}

\* Snapshots that are not read without rows they need.
NeverEmpty == DOMAIN SnapshotPlan \ {"get_daily_event_snapshot"}

\* A model is told no more than the queries brought.  An answer without a reservation
\* rests on every planned query, and is good only if it has something to show.  An empty
\* one leaves nothing unsaid, unless it is a snapshot of events that hands out what it
\* could not select from.  An error has no reference.  When a call is over its queries
\* are, except those of a stage that another query of the stage ended.
AnswersAreTrue(c) ==
  /\ c.result.status \in {"ok", "empty"} => Answered(c) = Planned(c)
  /\ c.result.status = "ok" /\ c.kind \notin NeverEmpty => Shown(c) # {}
  /\ c.result.status = "empty" =>
       \/ With(c, {"rows"}) = {}
       \/ c.kind = "get_daily_event_snapshot" /\ c.result.ref # "none"
  /\ c.result.status = "partial" => Failed(c) # {} /\ Answered(c) # {}
  /\ c.result.ref # "none" => c.result.status # "error"
  /\ Over(c) /\ Asked(c) # {} => With(c, {"failed", "cancelled"}) # {}

\* A calculation is made on all the prices it needs, of one cut-off and of its own run,
\* and it says so when data it could use failed.  The cut-off is that of its context too,
\* unless somebody went on with a context that had been given up.
CalculationsAreTrue(c) ==
  c.result.status \in {"ok", "partial"} =>
       /\ \A e, f \in c.read : e.as_of = f.as_of
       /\ \A e \in c.read :
            /\ e.run = made[c.context].run
            /\ e.late \/ e.as_of = made[c.context].as_of
            /\ CoreLabels[KindOf(e)] \subseteq e.data
            /\ c.result.status = "ok" =>
                 ExtraLabels[c.kind] \cap Planned(call[e.ref]) \subseteq e.data

ResultTellsTheTruth ==
  \A t \in Tool :
    /\ call[t].kind \in DOMAIN Plan => AnswersAreTrue(call[t])
    /\ call[t].kind \in DOMAIN ExtraLabels => CalculationsAreTrue(call[t])

\* A reference that was handed out leads to the full data as long as the context it was
\* made with is kept, however little of it the model was shown.  Data that were put in
\* time never outlive their context: what is left for a cleanup that is under way is
\* all there is.
StoreKeepsItsPromise ==
  /\ \A t \in Tool : LET c == call[t] IN
       c.result.ref # "none" /\ current[made[c.context].run] = c.context =>
         \E e \in Got(c.context, c.result.ref) :
           e.data = Answered(c) /\ e.as_of = made[c.context].as_of
  /\ \A e \in entries : e.late \/ current[e.run] = e.context \/ e.run \in closing \cup {cleaning}

\* Once somebody closes the runtime all connections are closed in the end, and of the
\* data only those are left that calls put on contexts given up before.
ClosedReleasesAll == runtime # "open" ~> runtime = "closed" /\ \A e \in entries : e.late
=============================================================================
