--------------------------- MODULE AgentToolsProofs ---------------------------
(***************************************************************************)
(* Proofs about AgentTools and RunResources, for every value of their      *)
(* constants: what the model is told is true, and the store keeps what it  *)
(* promised.                                                               *)
(*                                                                         *)
(* A call changes by itself, so most of the invariant is about one call    *)
(* alone (CallFits) and its steps are lemmas about one record.  What calls *)
(* share goes through the store: Ledger and ReadsFit say that an entry,    *)
(* there or read once, is what a call left that can change no more.        *)
(***************************************************************************)
EXTENDS AgentTools, TLAPS, FiniteSetTheorems, SequenceTheorems

-----------------------------------------------------------------------------
(* The inductive invariant.                                                *)

Context == [run: Run, as_of: UNION {AsOf[r] : r \in Run}]
Entry   == [ref: Tool, context: Nat, run: Run, as_of: UNION {AsOf[r] : r \in Run},
            data: SUBSET DOMAIN Outcomes, late: BOOLEAN]

\* Contexts are given up for good, and what was stored in time goes with them.
ResourcesFit ==
  /\ made \in Seq(Context)
  /\ current \in [Run -> 0..Len(made)]
  /\ cleaning \in Run \cup {NoRun}
  /\ cleaning # NoRun => current[cleaning] = NoContext
  /\ released \in BOOLEAN
  /\ released => \A r \in Run : current[r] = NoContext
  /\ closing \subseteq Run
  /\ closing # {} => released
  /\ entries \subseteq Entry
  /\ \A e \in entries : e.late \/ current[e.run] = e.context \/ e.run \in closing \cup {cleaning}

Fields    == {"at", "kind", "context", "stage", "query", "refs", "read", "result"}
Shaped(c) == c = [x \in Fields |-> c[x]]

\* A kind is a tool or a calculator, and a tool has something to ask first.
KindFits(c) ==
  /\ c.kind \in DOMAIN Plan \cup DOMAIN ExtraLabels \cup {"none"}
  /\ c.kind \in DOMAIN Plan => Modelled(Plan[c.kind][1]) # {}

\* The queries of the stages that were begun.
Begun(c) == UNION {Modelled(Plan[c.kind][n]) : n \in 1..c.stage}

\* All there was to ask was asked and has ended.
Settled(c) == DOMAIN c.query = Planned(c) /\ With(c, {"asked", "cancelled"}) = {}

QueriesFit(c) ==
  /\ c.kind \notin DOMAIN Plan => c.stage = 0
  /\ c.kind \in DOMAIN Plan => c.stage \in 0..Len(Plan[c.kind])
  /\ c.at \in {"query", "store"} => c.kind \in DOMAIN Plan /\ c.stage # 0
  /\ c.at \in {"idle", "read"} => c.stage = 0
  /\ DOMAIN c.query = Begun(c)
  /\ \A q \in DOMAIN c.query : c.query[q] \in {"asked"} \cup Ending
  /\ c.stage > 1 => \A q \in Modelled(Plan[c.kind][1]) : c.query[q] \in {"rows", "empty"}

OutcomeFits(c) ==
  /\ c.at \in {"idle", "query", "store", "read", "done", "cancelled"}
  /\ c.at # "done" => c.result = NoResult
  /\ c.at \in {"idle", "query", "store", "cancelled"} => c.read = {}
  /\ c.at = "read" => c.kind \in DOMAIN ExtraLabels
  /\ c.at = "store" => Settled(c) /\ Answered(c) # {} /\ c.kind \notin PlainTools
  /\ c.kind \in DOMAIN Plan =>
       /\ c.read = {}
       /\ AnswersAreTrue(c)
       /\ c.result.status \in {"ok", "empty", "partial"} \/ c.result.ref # "none" => Settled(c)
  /\ c.kind \notin DOMAIN Plan => c.result.ref = "none"

CallFits(c) == Shaped(c) /\ KindFits(c) /\ QueriesFit(c) /\ OutcomeFits(c)

\* Calls are made on contexts.
ContextsFit ==
  /\ call = [t \in Tool |-> call[t]]
  /\ \A t \in Tool : call[t].at \in {"query", "store", "read", "done"} => call[t].context \in DOMAIN made

\* A tool that has had its answer, with or without a reference.
Answers(c) == c.at = "done" /\ c.kind \in DOMAIN Plan /\ Settled(c)

\* An entry is what a call left that has its answer.
Backed(e) ==
  /\ e \in Entry
  /\ LET c == call[e.ref]
     IN Answers(c) /\ e.context = c.context /\ e.data = Answered(c)
  /\ e.context \in DOMAIN made
  /\ e.run = made[e.context].run /\ e.as_of = made[e.context].as_of

Ledger ==
  /\ \A e \in entries : Backed(e)
  /\ \A e, f \in entries : e.ref = f.ref => e = f
  /\ \A t \in Tool : LET c == call[t] IN
       c.result.ref # "none" =>
         /\ c.result.ref = t
         /\ current[made[c.context].run] = c.context => \E e \in entries : e.ref = t

\* What a calculator has read.
ReadFits(c) ==
  /\ \A e \in c.read :
       /\ Backed(e)
       /\ e.run = made[c.context].run
       /\ e.late \/ e.as_of = made[c.context].as_of
  /\ c.at = "read" /\ c.kind # "calculate_relative_strength" => Len(c.refs) = 1 /\ c.read = {}
  /\ c.kind \in DOMAIN ExtraLabels => CalculationsAreTrue(c)

ReadsFit == \A t \in Tool : ReadFits(call[t])

IInv ==
  /\ ResourcesFit
  /\ \A t \in Tool : CallFits(call[t])
  /\ ContextsFit
  /\ Ledger
  /\ ReadsFit

-----------------------------------------------------------------------------
(* The plans of the tools.                                                 *)

LEMMA SnapshotKinds ==
  DOMAIN SnapshotPlan = {"get_daily_technical_market_snapshot", "get_daily_sentiment_flow_snapshot",
                         "get_daily_fundamental_snapshot", "get_daily_event_snapshot"}
BY DEF SnapshotPlan

LEMMA PriceKinds ==
  DOMAIN PricePlan = {"stock_price_daily", "stock_price_weekly", "index_market", "industry_market",
                      "fund_market", "fund_market_raw"}
BY DEF PricePlan

LEMMA CalculatorKinds ==
  DOMAIN ExtraLabels = {"calculate_return_and_trend", "calculate_momentum",
                        "calculate_relative_strength", "calculate_risk_and_tradability",
                        "calculate_volume_and_liquidity"}
BY DEF ExtraLabels

LEMMA PlainKinds ==
  PlainTools =
    {"resolve_stock_identity", "get_trade_calendar",
     "get_financial_statements", "get_financial_quality", "get_earnings_and_disclosure",
     "get_dividend_and_ownership_context", "get_pledge_risk_context", "get_valuation_context",
     "get_china_macro_context", "get_interest_rate_context",
     "get_capital_flow_context", "get_unusual_trading_activity",
     "get_stock_active_money_flow_context",
     "search_market_news", "get_targeted_news_and_disclosures", "get_corporate_action_events",
     "get_sell_side_research_context", "get_economic_calendar"}
<1>1. DOMAIN CommonPlan = {"resolve_stock_identity", "get_trade_calendar"}
  BY DEF CommonPlan
<1>2. DOMAIN FundamentalPlan =
        {"get_financial_statements", "get_financial_quality", "get_earnings_and_disclosure",
         "get_dividend_and_ownership_context", "get_pledge_risk_context", "get_valuation_context",
         "get_china_macro_context", "get_interest_rate_context"}
  BY DEF FundamentalPlan
<1>3. DOMAIN SentimentFlowPlan =
        {"get_capital_flow_context", "get_unusual_trading_activity",
         "get_stock_active_money_flow_context"}
  BY DEF SentimentFlowPlan
<1>4. DOMAIN EventPlan =
        {"search_market_news", "get_targeted_news_and_disclosures", "get_corporate_action_events",
         "get_sell_side_research_context", "get_economic_calendar"}
  BY DEF EventPlan
<1> QED
  BY <1>1, <1>2, <1>3, <1>4 DEF PlainTools

\* A kind is one sort of tool.
LEMMA KindsApart ==
  /\ DOMAIN Plan = DOMAIN SnapshotPlan \cup DOMAIN PricePlan \cup PlainTools
  /\ DOMAIN Plan \cap (DOMAIN ExtraLabels \cup {"none"}) = {}
  /\ PlainTools \cap (DOMAIN SnapshotPlan \cup DOMAIN PricePlan) = {}
  /\ DOMAIN SnapshotPlan \cap DOMAIN PricePlan = {}
<1>1. DOMAIN Plan = DOMAIN SnapshotPlan \cup DOMAIN PricePlan \cup PlainTools
  BY DEF Plan
<1>2. DOMAIN Plan \cap (DOMAIN ExtraLabels \cup {"none"}) = {}
  BY <1>1, SnapshotKinds, PriceKinds, PlainKinds, CalculatorKinds
<1>3. PlainTools \cap (DOMAIN SnapshotPlan \cup DOMAIN PricePlan) = {}
  BY SnapshotKinds, PriceKinds, PlainKinds
<1>4. DOMAIN SnapshotPlan \cap DOMAIN PricePlan = {}
  BY SnapshotKinds, PriceKinds
<1> QED
  BY <1>1, <1>2, <1>3, <1>4

\* Where a stage follows, the queries of the first one are needed, and none of them is
\* asked again.
Staged(stages) ==
  /\ Len(stages) \in Nat \ {0}
  /\ DOMAIN stages = 1..Len(stages)
  /\ Len(stages) > 1 => stages[1].needed
  /\ \A n \in 2..Len(stages) : Range(stages[n].queries) \cap Range(stages[1].queries) = {}

LEMMA TechnicalStaged ==
  /\ Staged(TechnicalStages)
  /\ TechnicalStages \in Seq({TechnicalStages[n] : n \in 1..4}) /\ Len(TechnicalStages) = 4
  /\ \A n \in 2..4 : "trade_calendar" \notin Range(TechnicalStages[n].queries)
  /\ Range(TechnicalStages[1].queries) = {"trade_calendar"}
  /\ TechnicalStages[1].needed
<1>1. Len(TechnicalStages) = 4 /\ DOMAIN TechnicalStages = 1..4
  BY DEF TechnicalStages
<1>2. /\ TechnicalStages[1].queries = <<"trade_calendar">> /\ TechnicalStages[1].needed
      /\ TechnicalStages[2].queries = <<"stock_basic", "daily_bars", "daily_valuation",
             "daily_limits", "daily_suspensions", "st_stocks", "sw_l1_classifications">>
      /\ TechnicalStages[3].queries = <<"sw_members", "market_index", "benchmark_weight">>
      /\ TechnicalStages[4].queries = <<"sw_daily">>
  BY DEF TechnicalStages, Needed, Optional
<1>3. Range(TechnicalStages[1].queries) = {"trade_calendar"}
  BY <1>2 DEF Range
<1>4. \A n \in 2..4 : "trade_calendar" \notin Range(TechnicalStages[n].queries)
  <2>1. "trade_calendar" \notin Range(TechnicalStages[2].queries)
    BY <1>2 DEF Range
  <2>2. "trade_calendar" \notin Range(TechnicalStages[3].queries)
    BY <1>2 DEF Range
  <2>3. "trade_calendar" \notin Range(TechnicalStages[4].queries)
    BY <1>2 DEF Range
  <2> QED
    BY <2>1, <2>2, <2>3
<1>5. TechnicalStages \in Seq({TechnicalStages[n] : n \in 1..4})
  BY DEF TechnicalStages
<1> QED
  BY <1>1, <1>2, <1>3, <1>4, <1>5 DEF Staged

LEMMA SentimentFlowStaged == Staged(SentimentFlowStages)
<1> DEFINE last == Optional(<<"stock_flow_ths", "stock_flow_dc", "industry_flow_ths", "market_flow_dc",
                              "hsgt_flow", "limit_list", "margin_sse", "margin_szse">>,
                            {"stock_flow_ths", "stock_flow_dc", "industry_flow_ths", "market_flow_dc",
                             "hsgt_flow", "limit_list"})
<1>1. SentimentFlowStages = Append(TechnicalStages, last)
  BY DEF SentimentFlowStages
<1>2. "trade_calendar" \notin Range(last.queries)
  BY DEF Range, Optional
<1> HIDE DEF last
<1>3. /\ Len(SentimentFlowStages) = 5
      /\ DOMAIN SentimentFlowStages = 1..5
      /\ \A n \in 1..4 : SentimentFlowStages[n] = TechnicalStages[n]
      /\ SentimentFlowStages[5] = last
  <2> DEFINE S == {TechnicalStages[n] : n \in 1..4} \cup {last}
  <2>1. TechnicalStages \in Seq(S) /\ last \in S
    BY TechnicalStaged
  <2>2. /\ SentimentFlowStages \in Seq(S)
        /\ Len(SentimentFlowStages) = Len(TechnicalStages) + 1
        /\ \A n \in 1..Len(TechnicalStages) : SentimentFlowStages[n] = TechnicalStages[n]
        /\ SentimentFlowStages[Len(TechnicalStages) + 1] = last
    BY <1>1, <2>1, AppendProperties
  <2>3. Len(TechnicalStages) = 4
    BY TechnicalStaged
  <2>4. Len(SentimentFlowStages) = 5 /\ Len(TechnicalStages) + 1 = 5
    BY <2>2, <2>3
  <2>5. DOMAIN SentimentFlowStages = 1..5
    BY <2>2, <2>4, LenProperties
  <2>6. \A n \in 1..4 : SentimentFlowStages[n] = TechnicalStages[n]
    BY <2>2, <2>3
  <2>7. SentimentFlowStages[5] = last
    BY <2>2, <2>4
  <2> QED
    BY <2>4, <2>5, <2>6, <2>7
<1>4. \A n \in 2..5 : "trade_calendar" \notin Range(SentimentFlowStages[n].queries)
  BY <1>2, <1>3, TechnicalStaged
<1> QED
  BY <1>3, <1>4, TechnicalStaged DEF Staged

LEMMA FundamentalStaged == Staged(FundamentalStages)
<1>1. /\ Len(FundamentalStages) = 2 /\ DOMAIN FundamentalStages = 1..2
      /\ FundamentalStages[1].queries = <<"trade_calendar">> /\ FundamentalStages[1].needed
      /\ FundamentalStages[2].queries =
           <<"stock_basic">> \o <<"daily_valuation", "earnings_forecast", "earnings_express",
                 "financial_indicators_current", "financial_indicators_comparison",
                 "macro_gdp", "macro_monthly", "rate_shibor", "rate_lpr", "rate_us_treasury">>
  BY DEF FundamentalStages, Needed, Optional
<1>2. "trade_calendar" \notin Range(FundamentalStages[2].queries)
  BY <1>1 DEF Range
<1>3. Range(FundamentalStages[1].queries) = {"trade_calendar"}
  BY <1>1 DEF Range
<1>4. ASSUME NEW n \in 2..Len(FundamentalStages)
      PROVE  Range(FundamentalStages[n].queries) \cap Range(FundamentalStages[1].queries) = {}
  <2>1. n = 2
    BY <1>1
  <2> QED
    BY <1>2, <1>3, <2>1
<1> QED
  BY <1>1, <1>4 DEF Staged

LEMMA OneStageStaged == \A stage : Staged(<<stage>>) /\ Len(<<stage>>) = 1
BY DEF Staged

LEMMA PlansStaged ==
  /\ \A k \in DOMAIN Plan : Staged(Plan[k])
  /\ \A k \in DOMAIN Plan \ DOMAIN SnapshotPlan : Len(Plan[k]) = 1
  /\ Len(Plan["get_daily_event_snapshot"]) = 1
<1>1. \A k \in DOMAIN SnapshotPlan : k \in DOMAIN Plan /\ Plan[k] = SnapshotPlan[k]
  BY DEF Plan
<1>2. /\ SnapshotPlan["get_daily_technical_market_snapshot"] = TechnicalStages
      /\ SnapshotPlan["get_daily_sentiment_flow_snapshot"] = SentimentFlowStages
      /\ SnapshotPlan["get_daily_fundamental_snapshot"] = FundamentalStages
      /\ SnapshotPlan["get_daily_event_snapshot"] = EventStages
  BY DEF SnapshotPlan
<1>3. Staged(EventStages) /\ Len(EventStages) = 1
  BY OneStageStaged DEF EventStages
<1>4. \A k \in DOMAIN SnapshotPlan : Staged(SnapshotPlan[k])
  BY <1>2, <1>3, SnapshotKinds, TechnicalStaged, SentimentFlowStaged, FundamentalStaged
<1>5. ASSUME NEW k \in DOMAIN Plan \ DOMAIN SnapshotPlan
      PROVE  Staged(Plan[k]) /\ Len(Plan[k]) = 1
  <2>1. Plan[k] = <<Optional(AllAtOnce(k), {})>>
    BY <1>5 DEF Plan
  <2> QED
    BY <2>1, OneStageStaged
<1> QED
  BY <1>1, <1>2, <1>3, <1>4, <1>5, SnapshotKinds

-----------------------------------------------------------------------------
(* One call.                                                               *)

\* What of a call does not depend on its answer.
LEMMA NoAnswer ==
  ASSUME NEW c, c.result.ref = "none", c.result.status \in {"none", "error"},
         Over(c) => Asked(c) = {} \/ With(c, {"failed", "cancelled"}) # {}
  PROVE  AnswersAreTrue(c)
BY DEF AnswersAreTrue

LEMMA AskingShape ==
  ASSUME NEW c, Shaped(c), NEW n
  PROVE  LET asked == Modelled(Plan[c.kind][n])
             d     == Asking(c, n)
         IN /\ Shaped(d)
            /\ d.at = c.at /\ d.kind = c.kind /\ d.context = c.context /\ d.stage = n
            /\ d.query = [q \in DOMAIN c.query \cup asked |-> IF q \in asked THEN "asked" ELSE c.query[q]]
            /\ d.refs = c.refs /\ d.read = c.read /\ d.result = c.result
BY DEF Asking, Shaped, Fields

\* Another stage.
LEMMA NextBegun ==
  ASSUME NEW c, NEW d, c.stage \in Nat, d.stage = c.stage + 1, d.kind = c.kind
  PROVE  Begun(d) = Begun(c) \cup Modelled(Plan[c.kind][d.stage])
<1>1. 1..d.stage = (1..c.stage) \cup {d.stage}
  OBVIOUS
<1> QED
  BY <1>1 DEF Begun

LEMMA BegunModelled ==
  ASSUME NEW c
  PROVE  Begun(c) \subseteq DOMAIN Outcomes
BY DEF Begun, Modelled

LEMMA StartFits ==
  ASSUME NEW c, CallFits(c), c.at = "idle", c.kind \in DOMAIN Plan, NEW context
  PROVE  LET d == Asking([c EXCEPT !.at = "query", !.context = context], 1)
         IN /\ CallFits(d)
            /\ d.kind = c.kind /\ d.at = "query" /\ d.context = context
            /\ d.result = NoResult /\ d.read = {}
<1> DEFINE b == [c EXCEPT !.at = "query", !.context = context]
           d == Asking(b, 1)
           asked == Modelled(Plan[c.kind][1])
<1>1. /\ Shaped(b) /\ b.at = "query" /\ b.kind = c.kind /\ b.context = context /\ b.stage = c.stage
      /\ b.query = c.query /\ b.refs = c.refs /\ b.read = c.read /\ b.result = c.result
  BY DEF CallFits, Shaped, Fields
<1> HIDE DEF b
<1>2. /\ Shaped(d)
      /\ d.at = "query" /\ d.kind = c.kind /\ d.context = context /\ d.stage = 1
      /\ d.query = [q \in DOMAIN c.query \cup asked |-> IF q \in asked THEN "asked" ELSE c.query[q]]
      /\ d.refs = c.refs /\ d.read = c.read /\ d.result = c.result
  BY <1>1, AskingShape
<1> HIDE DEF d
<1>3. c.stage = 0 /\ c.result = NoResult /\ c.read = {} /\ DOMAIN c.query = Begun(c) /\ KindFits(c)
  BY DEF CallFits, QueriesFit, OutcomeFits
<1>4. Begun(d) = Begun(c) \cup asked
  BY <1>2, <1>3, NextBegun
<1>5. KindFits(d)
  BY <1>2, <1>3 DEF KindFits
<1>6. QueriesFit(d)
  <2>1. 1 \in 0..Len(Plan[c.kind])
    BY PlansStaged DEF Staged
  <2>2. \A q \in DOMAIN d.query : d.query[q] \in {"asked"} \cup Ending
    BY <1>2, <1>3 DEF CallFits, QueriesFit
  <2>3. DOMAIN d.query = Begun(d)
    BY <1>2, <1>3, <1>4
  <2>4. ~ d.stage > 1
    BY <1>2
  <2> HIDE DEF asked
  <2> QED
    <3>1. d.kind \in DOMAIN Plan /\ d.at = "query" /\ d.stage = 1
      BY <1>2
    <3>2. d.stage \in 0..Len(Plan[d.kind])
      BY <1>2, <2>1
    <3> QED
      BY <2>2, <2>3, <2>4, <3>1, <3>2 DEF QueriesFit
<1>7. OutcomeFits(d)
  <2>1. AnswersAreTrue(d)
    BY <1>2, <1>3, NoAnswer DEF NoResult, Over
  <2> QED
    BY <1>2, <1>3, <2>1 DEF OutcomeFits, NoResult
<1> QED
  BY <1>1, <1>2, <1>3, <1>5, <1>6, <1>7 DEF CallFits, d, b

\* What holds of queries of which none is asked, none failed and none was cancelled.
LEMMA Unasked ==
  ASSUME NEW c, StageEnds(c), \A q \in DOMAIN c.query : c.query[q] \in {"asked"} \cup Ending
  PROVE  \A q \in DOMAIN c.query : c.query[q] \in {"rows", "empty", "failed"}
BY DEF StageEnds, With, Ending

\* At its end the first stage of several has brought answers only.
LEMMA FirstStageAnswers ==
  ASSUME NEW c, CallFits(c), c.at = "query", StageEnds(c), ~ StageFails(c),
         Len(Plan[c.kind]) > 1
  PROVE  \A q \in Modelled(Plan[c.kind][1]) : q \in DOMAIN c.query /\ c.query[q] \in {"rows", "empty"}
<1>1. /\ c.kind \in DOMAIN Plan /\ c.stage \in Nat \ {0} /\ DOMAIN c.query = Begun(c)
      /\ \A q \in DOMAIN c.query : c.query[q] \in {"asked"} \cup Ending
      /\ c.stage > 1 => \A q \in Modelled(Plan[c.kind][1]) : c.query[q] \in {"rows", "empty"}
  BY DEF CallFits, QueriesFit
<1>2. \A q \in DOMAIN c.query : c.query[q] \in {"rows", "empty", "failed"}
  BY <1>1, Unasked
<1>3. Modelled(Plan[c.kind][1]) \subseteq DOMAIN c.query
  <2>1. 1 \in 1..c.stage
    BY <1>1
  <2> QED
    BY <1>1, <2>1 DEF Begun
<1>4. CASE c.stage > 1
  BY <1>1, <1>3, <1>4
<1>5. CASE c.stage = 1
  <2>1. Plan[c.kind][1].needed
    BY <1>1, PlansStaged DEF Staged
  <2>2. Failed(c) = {}
    BY <1>5, <2>1 DEF StageFails, Stage
  <2> QED
    BY <1>2, <1>3, <2>2 DEF Failed, With
<1> QED
  BY <1>1, <1>4, <1>5

LEMMA NextStageFits ==
  ASSUME NEW c, CallFits(c), c.at = "query", StageEnds(c), ~ StageFails(c),
         c.stage < Len(Plan[c.kind])
  PROVE  LET d == Asking(c, c.stage + 1)
         IN /\ CallFits(d)
            /\ d.kind = c.kind /\ d.at = "query" /\ d.context = c.context
            /\ d.result = NoResult /\ d.read = {}
<1> DEFINE d == Asking(c, c.stage + 1)
           asked == Modelled(Plan[c.kind][c.stage + 1])
           first == Modelled(Plan[c.kind][1])
<1>1. /\ Shaped(d)
      /\ d.at = "query" /\ d.kind = c.kind /\ d.context = c.context /\ d.stage = c.stage + 1
      /\ d.query = [q \in DOMAIN c.query \cup asked |-> IF q \in asked THEN "asked" ELSE c.query[q]]
      /\ d.refs = c.refs /\ d.read = c.read /\ d.result = c.result
  <2>1. Shaped(c)
    BY DEF CallFits
  <2>2. \A n : n = c.stage + 1 =>
          LET e == Asking(c, n)
              more == Modelled(Plan[c.kind][n])
          IN /\ Shaped(e)
             /\ e.at = c.at /\ e.kind = c.kind /\ e.context = c.context /\ e.stage = n
             /\ e.query = [q \in DOMAIN c.query \cup more |-> IF q \in more THEN "asked" ELSE c.query[q]]
             /\ e.refs = c.refs /\ e.read = c.read /\ e.result = c.result
    BY <2>1, AskingShape
  <2> QED
    BY <2>2
<1> HIDE DEF d
<1>2. /\ c.kind \in DOMAIN Plan /\ c.stage \in Nat \ {0} /\ DOMAIN c.query = Begun(c) /\ KindFits(c)
      /\ Len(Plan[c.kind]) \in Nat
      /\ \A q \in DOMAIN c.query : c.query[q] \in {"asked"} \cup Ending
  BY PlansStaged DEF CallFits, QueriesFit, Staged
<1>3. c.result = NoResult /\ c.read = {}
  BY DEF CallFits, OutcomeFits
<1>4. Begun(d) = Begun(c) \cup asked
  BY <1>1, <1>2, NextBegun
<1>5. DOMAIN d.query = Begun(d)
  BY <1>1, <1>2, <1>4
<1>6. \A q \in DOMAIN d.query : d.query[q] \in {"asked"} \cup Ending
  BY <1>1, <1>2
<1>7. \A q \in first : d.query[q] \in {"rows", "empty"}
  <2>1. Len(Plan[c.kind]) > 1 /\ c.stage + 1 \in 2..Len(Plan[c.kind])
    BY <1>2
  <2>2. \A q \in first : q \in DOMAIN c.query /\ c.query[q] \in {"rows", "empty"}
    BY <2>1, FirstStageAnswers
  <2>3. asked \cap first = {}
    BY <1>2, <2>1, PlansStaged DEF Staged, Modelled
  <2> HIDE DEF asked, first
  <2> QED
    BY <1>1, <2>2, <2>3
<1>8. QueriesFit(d)
  <2>1. d.stage \in 0..Len(Plan[d.kind]) /\ d.stage # 0
    BY <1>1, <1>2
  <2>2. d.kind \in DOMAIN Plan /\ d.at = "query"
    BY <1>1, <1>2
  <2>3. \A q \in Modelled(Plan[d.kind][1]) : d.query[q] \in {"rows", "empty"}
    BY <1>1, <1>7
  <2> QED
    BY <1>5, <1>6, <2>1, <2>2, <2>3 DEF QueriesFit
<1>9. OutcomeFits(d)
  <2>1. AnswersAreTrue(d)
    BY <1>1, <1>3, NoAnswer DEF NoResult, Over
  <2> QED
    BY <1>1, <1>2, <1>3, <2>1 DEF OutcomeFits, NoResult
<1> QED
  BY <1>1, <1>2, <1>3, <1>8, <1>9 DEF CallFits, KindFits, d

\* A query comes to its end.
LEMMA RunningAsked ==
  ASSUME NEW c
  PROVE  Running(c) \subseteq Asked(c)
BY DEF Running

LEMMA EndQueryFits ==
  ASSUME NEW c, CallFits(c), NEW q \in Asked(c), NEW how \in Outcomes[q]
  PROVE  LET d == [c EXCEPT !.query[q] = how]
         IN /\ CallFits(d) /\ ~ Settled(c)
            /\ d.kind = c.kind /\ d.at = c.at /\ d.context = c.context
            /\ d.result = c.result /\ d.read = c.read /\ d.refs = c.refs
            /\ c.result.ref = "none"
<1> DEFINE d == [c EXCEPT !.query[q] = how]
<1>1. /\ Shaped(d)
      /\ d.at = c.at /\ d.kind = c.kind /\ d.context = c.context /\ d.stage = c.stage
      /\ d.query = [c.query EXCEPT ![q] = how]
      /\ d.refs = c.refs /\ d.read = c.read /\ d.result = c.result
  BY DEF CallFits, Shaped, Fields
<1> HIDE DEF d
<1>2. q \in DOMAIN c.query /\ c.query[q] = "asked"
  BY DEF Asked, With
<1>3. how \in Ending
  BY <1>2, BegunModelled, ToolAssumption DEF CallFits, QueriesFit
<1>4. ~ Settled(c)
  BY <1>2 DEF Settled, With
<1>5. DOMAIN d.query = DOMAIN c.query /\ d.query[q] = how
      /\ \A p \in DOMAIN c.query \ {q} : d.query[p] = c.query[p]
  BY <1>1, <1>2
<1>6. Begun(d) = Begun(c)
  BY <1>1 DEF Begun
<1>7. QueriesFit(d)
  <2>1. c.stage > 1 => q \notin Modelled(Plan[c.kind][1])
    BY <1>2 DEF CallFits, QueriesFit
  <2>2. \A p \in DOMAIN d.query : d.query[p] \in {"asked"} \cup Ending
    BY <1>3, <1>5 DEF CallFits, QueriesFit
  <2>3. c.stage > 1 => \A p \in Modelled(Plan[c.kind][1]) : d.query[p] \in {"rows", "empty"}
    <3>1. ASSUME c.stage > 1, NEW p \in Modelled(Plan[c.kind][1])
          PROVE  p \in DOMAIN c.query /\ p # q /\ c.query[p] \in {"rows", "empty"}
      <4>1. c.stage \in Nat /\ 1 \in 1..c.stage /\ DOMAIN c.query = Begun(c)
        <5>1. c.stage \in Nat /\ DOMAIN c.query = Begun(c)
          BY PlansStaged DEF CallFits, QueriesFit, Staged
        <5> QED
          BY <3>1, <5>1
      <4> QED
        BY <2>1, <3>1, <4>1 DEF CallFits, QueriesFit, Begun
    <3> QED
      BY <1>5, <3>1
  <2>4. DOMAIN d.query = Begun(d)
    BY <1>5, <1>6 DEF CallFits, QueriesFit
  <2> QED
    BY <1>1, <2>2, <2>3, <2>4 DEF CallFits, QueriesFit
<1>8. OutcomeFits(d)
  <2>1. OutcomeFits(c) /\ KindFits(c) /\ QueriesFit(c)
    BY DEF CallFits
  <2>2. c.at # "store"
    BY <1>4, <2>1 DEF OutcomeFits
  <2>3. c.kind \in DOMAIN Plan
    BY <1>2, <2>1 DEF QueriesFit, Begun
  <2>4. c.result.status \notin {"ok", "empty", "partial"} /\ c.result.ref = "none"
    BY <1>4, <2>1, <2>3 DEF OutcomeFits
  <2>5. ASSUME Over(d), Asked(d) # {}
        PROVE  With(d, {"failed", "cancelled"}) # {}
    <3>1. Over(c) /\ Asked(c) # {}
      BY <1>1, <1>2, <2>5 DEF Over, Asked, With
    <3>2. PICK p \in DOMAIN c.query : c.query[p] \in {"failed", "cancelled"}
      BY <2>1, <2>3, <3>1 DEF OutcomeFits, AnswersAreTrue, With
    <3> QED
      BY <1>2, <1>5, <3>2 DEF With
  <2>6. AnswersAreTrue(d)
    BY <1>1, <2>4, <2>5 DEF AnswersAreTrue
  <2> QED
    BY <1>1, <2>1, <2>2, <2>3, <2>4, <2>6 DEF OutcomeFits
<1>9. c.result.ref = "none"
  <2>1. OutcomeFits(c)
    BY DEF CallFits
  <2> QED
    BY <1>4, <2>1 DEF OutcomeFits
<1> QED
  BY <1>1, <1>4, <1>7, <1>8, <1>9 DEF CallFits, KindFits, d

\* A call that ends.
EndOf(c, at, status, ref) == [c EXCEPT !.at = at, !.result = [status |-> status, ref |-> ref]]

LEMMA EndShape ==
  ASSUME NEW c, Shaped(c), NEW at, NEW status, NEW ref
  PROVE  LET d == EndOf(c, at, status, ref)
         IN /\ Shaped(d)
            /\ d.at = at /\ d.kind = c.kind /\ d.context = c.context /\ d.stage = c.stage
            /\ d.query = c.query /\ d.refs = c.refs /\ d.read = c.read
            /\ d.result = [status |-> status, ref |-> ref]
            /\ d.result.status = status /\ d.result.ref = ref
BY DEF EndOf, Shaped, Fields

LEMMA SameQueries ==
  ASSUME NEW c, NEW d, d.query = c.query, d.kind = c.kind
  PROVE  /\ \A how : With(d, how) = With(c, how)
         /\ Asked(d) = Asked(c) /\ Answered(d) = Answered(c) /\ Failed(d) = Failed(c)
         /\ Planned(d) = Planned(c) /\ Settled(d) = Settled(c)
BY DEF With, Asked, Answered, Failed, Planned, Settled

\* What is common to the ways in which a call ends.
LEMMA EndFits ==
  ASSUME NEW c, CallFits(c), c.at \in {"query", "store"},
         NEW at \in {"done", "cancelled"}, NEW status, NEW ref,
         at = "cancelled" => status = "none" /\ ref = "none",
         AnswersAreTrue(EndOf(c, at, status, ref)),
         status \in {"ok", "empty", "partial"} \/ ref # "none" => Settled(c)
  PROVE  CallFits(EndOf(c, at, status, ref))
<1> DEFINE d == EndOf(c, at, status, ref)
<1>1. /\ Shaped(d)
      /\ d.at = at /\ d.kind = c.kind /\ d.context = c.context /\ d.stage = c.stage
      /\ d.query = c.query /\ d.refs = c.refs /\ d.read = c.read
      /\ d.result = [status |-> status, ref |-> ref]
      /\ d.result.status = status /\ d.result.ref = ref
  BY EndShape DEF CallFits
<1>2. AnswersAreTrue(d)
  OBVIOUS
<1> HIDE DEF d
<1>3. KindFits(d) /\ Begun(d) = Begun(c)
  BY <1>1 DEF CallFits, KindFits, Begun
<1>4. QueriesFit(d)
  BY <1>1, <1>3 DEF CallFits, QueriesFit
<1>5. OutcomeFits(d)
  <2>1. d.at = "cancelled" => d.result = NoResult
    BY <1>1 DEF NoResult
  <2>2. c.kind \in DOMAIN Plan /\ c.read = {}
    BY DEF CallFits, QueriesFit, OutcomeFits
  <2>3. Settled(d) = Settled(c)
    BY <1>1, SameQueries
  <2> QED
    BY <1>1, <1>2, <2>1, <2>2, <2>3 DEF OutcomeFits
<1> QED
  BY <1>1, <1>3, <1>4, <1>5 DEF CallFits, d

\* A query that is cancelled, or that fails where it is needed, ends the call.
LEMMA CancelledFits ==
  ASSUME NEW c, CallFits(c), c.at = "query", StageCancelled(c)
  PROVE  CallFits(EndOf(c, "cancelled", "none", "none"))
<1> DEFINE d == EndOf(c, "cancelled", "none", "none")
<1>1. d.query = c.query /\ d.kind = c.kind /\ d.result.status = "none" /\ d.result.ref = "none"
  <2>1. Shaped(c)
    BY DEF CallFits
  <2> QED
    BY <2>1 DEF EndOf, Shaped, Fields
<1> HIDE DEF d
<1>2. With(d, {"failed", "cancelled"}) # {}
  BY <1>1 DEF StageCancelled, With
<1>3. AnswersAreTrue(d)
  BY <1>1, <1>2, NoAnswer
<1> QED
  BY <1>3, EndFits DEF d

LEMMA FailedFits ==
  ASSUME NEW c, CallFits(c), c.at = "query", StageFails(c)
  PROVE  CallFits(EndOf(c, "done", "error", "none"))
<1> DEFINE d == EndOf(c, "done", "error", "none")
<1>1. d.query = c.query /\ d.kind = c.kind /\ d.result.status = "error" /\ d.result.ref = "none"
  <2>1. Shaped(c)
    BY DEF CallFits
  <2> QED
    BY <2>1 DEF EndOf, Shaped, Fields
<1> HIDE DEF d
<1>2. Asked(d) = {} \/ With(d, {"failed", "cancelled"}) # {}
  BY <1>1 DEF StageFails, StageEnds, With, Asked, Failed
<1>3. AnswersAreTrue(d)
  BY <1>1, <1>2, NoAnswer
<1> QED
  BY <1>3, EndFits DEF d

\* After the last stage nothing is left to ask.
LEMMA LastStageSettles ==
  ASSUME NEW c, CallFits(c), c.at = "query", StageEnds(c), ~ (c.stage < Len(Plan[c.kind]))
  PROVE  Settled(c) /\ \A q \in DOMAIN c.query : c.query[q] \in {"rows", "empty", "failed"}
<1>1. /\ c.kind \in DOMAIN Plan /\ c.stage \in 0..Len(Plan[c.kind]) /\ DOMAIN c.query = Begun(c)
      /\ \A q \in DOMAIN c.query : c.query[q] \in {"asked"} \cup Ending
  BY DEF CallFits, QueriesFit
<1>2. Len(Plan[c.kind]) \in Nat /\ DOMAIN Plan[c.kind] = 1..Len(Plan[c.kind])
  BY <1>1, PlansStaged DEF Staged
<1>3. c.stage = Len(Plan[c.kind])
  BY <1>1, <1>2
<1>4. DOMAIN c.query = Planned(c)
  BY <1>1, <1>2, <1>3 DEF Begun, Planned
<1> QED
  BY <1>1, <1>4, Unasked DEF Settled, StageEnds

\* An answer as it is told.
LEMMA AnswerTold ==
  ASSUME NEW c, Settled(c), \A q \in DOMAIN c.query : c.query[q] \in {"rows", "empty", "failed"},
         NEW d, d.query = c.query, d.kind = c.kind,
         d.result.status \in {"ok", "empty"} => Failed(c) = {},
         d.result.status = "ok" /\ c.kind \notin NeverEmpty => Shown(c) # {},
         d.result.status = "empty" =>
           \/ With(c, {"rows"}) = {}
           \/ c.kind = "get_daily_event_snapshot" /\ d.result.ref # "none",
         d.result.status = "partial" => Failed(c) # {} /\ Answered(c) # {},
         d.result.status = "error" => d.result.ref = "none"
  PROVE  AnswersAreTrue(d)
<1>1. /\ Asked(d) = Asked(c) /\ Answered(d) = Answered(c) /\ Failed(d) = Failed(c)
      /\ Planned(d) = Planned(c) /\ With(d, {"rows"}) = With(c, {"rows"}) /\ Shown(d) = Shown(c)
  BY SameQueries DEF Shown
<1>2. Asked(c) = {}
  BY DEF Settled, With, Asked
<1>3. Failed(c) = {} => Answered(c) = Planned(c)
  BY DEF Settled, With, Failed, Answered
<1> QED
  BY <1>1, <1>2, <1>3 DEF AnswersAreTrue

\* A plain tool.
LEMMA PlainFits ==
  ASSUME NEW c, CallFits(c), c.at = "query", StageEnds(c), ~ (c.stage < Len(Plan[c.kind])),
         c.kind \in PlainTools, NEW fits \in BOOLEAN
  PROVE  CallFits(EndOf(c, "done", PlainStatus(c, fits), "none"))
<1> DEFINE status == PlainStatus(c, fits)
           d == EndOf(c, "done", status, "none")
<1>1. d.query = c.query /\ d.kind = c.kind /\ d.result.status = status /\ d.result.ref = "none"
  <2>1. Shaped(c)
    BY DEF CallFits
  <2> QED
    BY <2>1 DEF EndOf, Shaped, Fields
<1>2. /\ status \in {"ok", "empty"} => Failed(c) = {}
      /\ status = "ok" => With(c, {"rows"}) # {}
      /\ status = "empty" => With(c, {"rows"}) = {}
      /\ status = "partial" => Failed(c) # {} /\ Answered(c) # {}
  BY DEF PlainStatus
<1>3. Shown(c) = With(c, {"rows"})
  BY KindsApart, SnapshotKinds DEF Shown
<1> HIDE DEF d, status
<1>4. AnswersAreTrue(d)
  BY <1>1, <1>2, <1>3, LastStageSettles, AnswerTold
<1>5. Settled(c)
  BY LastStageSettles
<1> QED
  BY <1>4, <1>5, EndFits DEF d, status

\* The technical and the other snapshots of more than one stage begin with the calendar.
LEMMA EnoughAnswered ==
  ASSUME NEW c, CallFits(c), c.at = "query", StageEnds(c), ~ StageFails(c),
         Enough(c), c.kind \notin PlainTools
  PROVE  Answered(c) # {}
<1>1. c.kind \in DOMAIN SnapshotPlan \cup DOMAIN PricePlan
  BY KindsApart DEF CallFits, QueriesFit
<1>2. CASE c.kind \in DOMAIN PricePlan \cup {"get_daily_event_snapshot"}
  BY <1>2 DEF Enough, PriceEnough, EventEnough
<1>3. CASE c.kind \in {"get_daily_fundamental_snapshot", "get_daily_sentiment_flow_snapshot"}
  BY <1>3 DEF Enough, FundamentalEnough, SentimentFlowEnough, SomeRows, With, Answered
<1>4. CASE c.kind = "get_daily_technical_market_snapshot"
  <2>1. Plan[c.kind] = TechnicalStages
    BY <1>4, SnapshotKinds DEF Plan, SnapshotPlan
  <2>2. Len(Plan[c.kind]) > 1
    BY <2>1, TechnicalStaged
  <2>3. Modelled(Plan[c.kind][1]) # {}
    BY <1>1, KindsApart DEF CallFits, KindFits
  <2> QED
    BY <2>2, <2>3, FirstStageAnswers DEF Answered, With
<1> QED
  BY <1>1, <1>2, <1>3, <1>4, SnapshotKinds

\* The answer is there, but not yet stored.
LEMMA ToStoreFits ==
  ASSUME NEW c, CallFits(c), c.at = "query", StageEnds(c), ~ StageFails(c),
         ~ (c.stage < Len(Plan[c.kind])), c.kind \notin PlainTools, Enough(c)
  PROVE  LET d == [c EXCEPT !.at = "store"]
         IN /\ CallFits(d)
            /\ d.kind = c.kind /\ d.at = "store" /\ d.context = c.context
            /\ d.result = NoResult /\ d.read = {}
<1> DEFINE d == [c EXCEPT !.at = "store"]
<1>1. /\ Shaped(d)
      /\ d.at = "store" /\ d.kind = c.kind /\ d.context = c.context /\ d.stage = c.stage
      /\ d.query = c.query /\ d.refs = c.refs /\ d.read = c.read /\ d.result = c.result
  BY DEF CallFits, Shaped, Fields
<1> HIDE DEF d
<1>2. c.result = NoResult /\ c.read = {} /\ c.kind \in DOMAIN Plan
  BY DEF CallFits, OutcomeFits, QueriesFit
<1>3. Settled(d) /\ Answered(d) # {}
  BY <1>1, LastStageSettles, EnoughAnswered, SameQueries
<1>4. KindFits(d) /\ Begun(d) = Begun(c)
  BY <1>1 DEF CallFits, KindFits, Begun
<1>5. QueriesFit(d)
  BY <1>1, <1>4 DEF CallFits, QueriesFit
<1>6. AnswersAreTrue(d)
  BY <1>1, <1>2, NoAnswer DEF NoResult, Over
<1>7. OutcomeFits(d)
  BY <1>1, <1>2, <1>3, <1>6 DEF OutcomeFits, NoResult
<1> QED
  BY <1>1, <1>2, <1>4, <1>5, <1>7 DEF CallFits, d

\* What is said of an answer that is stored.
SaidOf(c, status) ==
  /\ status \in {"ok", "empty"} => Failed(c) = {}
  /\ status = "ok" /\ c.kind \notin NeverEmpty => Shown(c) # {}
  /\ status = "empty" => With(c, {"rows"}) = {} \/ c.kind = "get_daily_event_snapshot"
  /\ status = "partial" => Failed(c) # {}
  /\ status # "error"

LEMMA PricesSaid ==
  ASSUME NEW c, c.kind \in DOMAIN PricePlan, NEW fits \in BOOLEAN
  PROVE  SaidOf(c, PriceStatus(c, fits))
<1>1. Shown(c) = With(c, {"rows"})
  BY KindsApart, SnapshotKinds DEF Shown
<1> QED
  BY <1>1 DEF SaidOf, PriceStatus

LEMMA EventsSaid ==
  ASSUME NEW c, c.kind = "get_daily_event_snapshot", NEW selected \in Selections(c),
         NEW fits \in BOOLEAN
  PROVE  SaidOf(c, EventStatus(c, selected, fits))
<1>1. selected => Shown(c) # {}
  BY DEF Selections
<1> QED
  BY <1>1 DEF SaidOf, EventStatus

LEMMA SnapshotsSaid ==
  ASSUME NEW c, c.kind \in NeverEmpty, NEW fits \in BOOLEAN
  PROVE  SaidOf(c, SnapshotStatus(c, fits))
BY DEF SaidOf, SnapshotStatus

\* An answer that is stored, and one that could not be.
LEMMA StoredFits ==
  ASSUME NEW c, CallFits(c), c.at = "store", NEW ref, ref # "none", NEW status, SaidOf(c, status)
  PROVE  CallFits(EndOf(c, "done", status, ref))
<1> DEFINE d == EndOf(c, "done", status, ref)
<1>1. d.query = c.query /\ d.kind = c.kind /\ d.result.status = status /\ d.result.ref = ref
  BY DEF CallFits, EndOf, Shaped, Fields
<1>2. /\ Settled(c) /\ Answered(c) # {}
      /\ \A q \in DOMAIN c.query : c.query[q] \in {"asked"} \cup Ending
  BY DEF CallFits, OutcomeFits, QueriesFit
<1>3. \A q \in DOMAIN c.query : c.query[q] \in {"rows", "empty", "failed"}
  BY <1>2, Unasked DEF Settled, StageEnds
<1> HIDE DEF d
<1>4. AnswersAreTrue(d)
  BY <1>1, <1>2, <1>3, AnswerTold DEF SaidOf
<1> QED
  BY <1>2, <1>4, EndFits DEF d

LEMMA UnstoredFits ==
  ASSUME NEW c, CallFits(c), c.at \in {"query", "store"}, Asked(c) = {}
  PROVE  CallFits(EndOf(c, "done", "error", "none"))
<1> DEFINE d == EndOf(c, "done", "error", "none")
<1>1. d.query = c.query /\ d.kind = c.kind /\ d.result.status = "error" /\ d.result.ref = "none"
  BY DEF CallFits, EndOf, Shaped, Fields
<1> HIDE DEF d
<1>2. Asked(d) = {}
  BY <1>1, SameQueries
<1>3. AnswersAreTrue(d)
  BY <1>1, <1>2, NoAnswer
<1> QED
  BY <1>3, EndFits DEF d

\* A calculator, which has no queries.
LEMMA CalculatorFits ==
  ASSUME NEW c, CallFits(c), c.kind \in DOMAIN ExtraLabels,
         NEW d, Shaped(d), d.kind = c.kind, d.stage = c.stage, d.query = c.query,
         d.at \in {"read", "done"}, d.at = "read" => d.result = NoResult, d.result.ref = "none"
  PROVE  CallFits(d)
<1>1. c.kind \notin DOMAIN Plan
  BY KindsApart
<1>2. KindFits(d) /\ Begun(d) = Begun(c)
  BY DEF CallFits, KindFits, Begun
<1>3. QueriesFit(d)
  BY <1>1, <1>2 DEF CallFits, QueriesFit
<1>4. OutcomeFits(d)
  BY <1>1 DEF OutcomeFits
<1> QED
  BY <1>2, <1>3, <1>4 DEF CallFits

\* A call that is cancelled, and one that was not made yet.
LEMMA EmptyFits ==
  ASSUME NEW d, KindFits(d), Shaped(d), d.stage = 0, d.query = <<>>, d.read = {},
         d.result = NoResult, d.at \in {"idle", "cancelled"}
  PROVE  CallFits(d)
<1>1. DOMAIN d.query = {} /\ Begun(d) = {}
  BY DEF Begun
<1>2. QueriesFit(d)
  <2>1. d.kind \in DOMAIN Plan => 0 \in 0..Len(Plan[d.kind])
    BY PlansStaged DEF Staged
  <2> QED
    BY <1>1, <2>1 DEF QueriesFit
<1>3. AnswersAreTrue(d)
  <2>1. Asked(d) = {}
    BY <1>1 DEF Asked, With
  <2> QED
    BY <2>1, NoAnswer DEF NoResult
<1>4. OutcomeFits(d)
  BY <1>3 DEF OutcomeFits, NoResult
<1> QED
  BY <1>2, <1>4 DEF CallFits

-----------------------------------------------------------------------------
(* What a step leaves as it is.                                            *)

\* An answer that was given and a context that was made stay what they are.
Keeps ==
  /\ \A u \in Tool : Answers(call[u]) => call'[u] = call[u]
  /\ \A k \in DOMAIN made : k \in DOMAIN made' /\ made'[k] = made[k]

LEMMA Primed ==
  /\ \A x \in Tool : CallFits(call[x])' <=> CallFits(call'[x])
  /\ \A x \in Tool : Answers(call[x])' <=> Answers(call'[x])
BY DEF CallFits, Answers

LEMMA BackedStays ==
  ASSUME Keeps, NEW e, Backed(e)
  PROVE  Backed(e)' /\ call'[e.ref] = call[e.ref] /\ made'[e.context] = made[e.context]
<1>1. e.ref \in Tool
  BY DEF Backed, Entry
<1>2. call'[e.ref] = call[e.ref]
  BY <1>1 DEF Keeps, Backed
<1>3. e.context \in DOMAIN made' /\ made'[e.context] = made[e.context]
  BY DEF Keeps, Backed
<1> QED
  BY <1>2, <1>3 DEF Backed, Answers, Settled, Answered, With, Planned

\* What was read is as true as it was.
LEMMA ReadStays ==
  ASSUME Keeps, NEW d, ReadFits(d), CallFits(d),
         d.at \in {"read", "done"} => d.context \in DOMAIN made
  PROVE  ReadFits(d)'
<1>1. \A e \in d.read : /\ Backed(e)' /\ call'[e.ref] = call[e.ref]
                        /\ made'[e.context] = made[e.context]
  BY BackedStays DEF ReadFits
<1>2. d.read # {} => d.at \in {"read", "done"}
  BY DEF CallFits, OutcomeFits
<1>3. d.read # {} => made'[d.context] = made[d.context]
  BY <1>2 DEF Keeps
<1>4. \A e \in d.read : KindOf(e)' = KindOf(e) /\ Planned(call[e.ref])' = Planned(call[e.ref])
  BY <1>1 DEF KindOf, Planned
<1>5. CalculationsAreTrue(d) => CalculationsAreTrue(d)'
  BY <1>3, <1>4 DEF CalculationsAreTrue
<1> QED
  BY <1>1, <1>3, <1>5 DEF ReadFits

LEMMA ReadsFollow ==
  ASSUME \A u \in Tool : \E d : d = call'[u] /\ ReadFits(d)'
  PROVE  ReadsFit'
BY DEF ReadsFit, ReadFits, Backed, Entry, CalculationsAreTrue, KindOf

-----------------------------------------------------------------------------
(* A step of one call.                                                     *)

LEMMA OneChanges ==
  ASSUME ContextsFit, NEW t \in Tool, NEW d, call' = [call EXCEPT ![t] = d]
  PROVE  /\ call' = [u \in Tool |-> call'[u]]
         /\ call'[t] = d
         /\ \A u \in Tool \ {t} : call'[u] = call[u]
BY DEF ContextsFit

\* The other calls, and all that is kept for the calls, do not notice it.
LEMMA CallMoves ==
  ASSUME IInv, NEW t \in Tool, NEW d, call' = [call EXCEPT ![t] = d], UNCHANGED resourceVars,
         CallFits(d), d.at \in {"query", "store", "read", "done"} => d.context \in DOMAIN made,
         ~ Answers(call[t]), d.result.ref = "none", ReadFits(d)
  PROVE  IInv'
<1>1. /\ call' = [u \in Tool |-> call'[u]] /\ call'[t] = d
      /\ \A u \in Tool \ {t} : call'[u] = call[u]
  BY OneChanges DEF IInv
<1>2. /\ made' = made /\ current' = current /\ cleaning' = cleaning /\ runtime' = runtime
      /\ released' = released /\ closing' = closing /\ entries' = entries
  BY DEF resourceVars
<1>3. Keeps
  BY <1>1, <1>2 DEF Keeps
<1>4. ResourcesFit'
  BY <1>2 DEF IInv, ResourcesFit
<1>5. (\A u \in Tool : CallFits(call[u]))'
  BY <1>1, Primed DEF IInv
<1>6. ContextsFit'
  BY <1>1, <1>2 DEF IInv, ContextsFit
<1>7. Ledger'
  <2>1. \A e \in entries : Backed(e)'
    BY <1>3, BackedStays DEF IInv, Ledger
  <2>2. ASSUME NEW u \in Tool, call'[u].result.ref # "none"
        PROVE  call'[u] = call[u]
    BY <1>1, <2>2
  <2> QED
    BY <1>2, <2>1, <2>2 DEF IInv, Ledger
<1>8. ReadsFit'
  <2>1. ASSUME NEW u \in Tool
        PROVE  \E x : x = call'[u] /\ ReadFits(x)'
    <3>1. PICK x : x = call'[u]
      OBVIOUS
    <3>2. ReadFits(x)
      BY <1>1, <3>1 DEF IInv, ReadsFit
    <3>3. CallFits(x) /\ (x.at \in {"read", "done"} => x.context \in DOMAIN made)
      BY <1>1, <3>1 DEF IInv, ContextsFit
    <3> QED
      BY <1>3, <3>1, <3>2, <3>3, ReadStays
  <2> QED
    BY <2>1, ReadsFollow
<1> QED
  BY <1>4, <1>5, <1>6, <1>7, <1>8 DEF IInv

-----------------------------------------------------------------------------
(* The steps of the manager and of the runtime.                            *)

\* No context comes back, and no data are lost whose context is kept.
LEMMA ResourcesMove ==
  ASSUME IInv, UNCHANGED call, ResourcesFit',
         \A k \in DOMAIN made : k \in DOMAIN made' /\ made'[k] = made[k],
         \A k \in DOMAIN made, r \in Run : current'[r] = k => current[r] = k,
         entries' \subseteq entries,
         \A e \in entries : current'[e.run] = e.context => e \in entries'
  PROVE  IInv'
<1>1. Keeps
  BY DEF Keeps
<1>2. (\A u \in Tool : CallFits(call[u]))'
  BY Primed DEF IInv
<1>3. ContextsFit'
  BY DEF IInv, ContextsFit
<1>4. Ledger'
  <2>1. \A e \in entries : Backed(e)' /\ Backed(e)
    BY <1>1, BackedStays DEF IInv, Ledger
  <2>2. ASSUME NEW u \in Tool, call[u].result.ref # "none",
               current'[made'[call[u].context].run] = call[u].context
        PROVE  \E e \in entries' : e.ref = u
    <3> DEFINE k == call[u].context
    <3>1. k \in DOMAIN made
      BY <2>2 DEF IInv, ContextsFit, CallFits, OutcomeFits, NoResult
    <3>2. made'[k] = made[k] /\ made[k].run \in Run
      <4>1. made[k] \in Context
        BY <3>1 DEF IInv, ResourcesFit
      <4> QED
        BY <3>1, <4>1 DEF Context
    <3>3. current[made[k].run] = k
      BY <2>2, <3>1, <3>2
    <3>4. PICK e \in entries : e.ref = u
      BY <2>2, <3>3 DEF IInv, Ledger
    <3>5. e.context = k /\ e.run = made[k].run
      BY <2>1, <3>4 DEF Backed
    <3> QED
      BY <2>2, <3>2, <3>4, <3>5
  <2> QED
    BY <2>1, <2>2 DEF IInv, Ledger
<1>5. ReadsFit'
  <2>1. ASSUME NEW u \in Tool
        PROVE  \E x : x = call'[u] /\ ReadFits(x)'
    <3>1. PICK x : x = call'[u]
      OBVIOUS
    <3>2. ReadFits(x)
      BY <3>1 DEF IInv, ReadsFit
    <3>3. CallFits(x) /\ (x.at \in {"read", "done"} => x.context \in DOMAIN made)
      BY <3>1 DEF IInv, ContextsFit
    <3> QED
      BY <1>1, <3>1, <3>2, <3>3, ReadStays
  <2> QED
    BY <2>1, ReadsFollow
<1> QED
  BY <1>2, <1>3, <1>4, <1>5 DEF IInv

\* What the steps need of the data: an entry names a run and a context.
LEMMA EntriesNameRuns ==
  ASSUME ResourcesFit
  PROVE  \A e \in entries : e.run \in Run /\ e.context \in Nat /\ e.late \in BOOLEAN
BY DEF ResourcesFit, Entry

LEMMA ContextPlaces ==
  ASSUME ResourcesFit
  PROVE  /\ Len(made) \in Nat /\ DOMAIN made = 1..Len(made)
         /\ \A r \in Run : current[r] \in 0..Len(made)
BY DEF ResourcesFit

LEMMA ResolveKeeps ==
  ASSUME IInv, NEW r \in Run, NEW a \in AsOf[r], Resolve(r, a), UNCHANGED call
  PROVE  IInv'
<1> DEFINE new == [run |-> r, as_of |-> a]
<1>1. new \in Context
  BY DEF Context
<1>2. made \in Seq(Context) /\ made' = Append(made, new)
  BY DEF IInv, ResourcesFit, Resolve
<1>3. /\ made' \in Seq(Context) /\ Len(made') = Len(made) + 1
      /\ \A k \in 1..Len(made) : made'[k] = made[k]
  BY <1>1, <1>2, AppendProperties
<1>4. /\ Len(made) \in Nat /\ DOMAIN made = 1..Len(made) /\ DOMAIN made' = 1..Len(made')
      /\ \A s \in Run : current[s] \in 0..Len(made)
  BY <1>2, <1>3, ContextPlaces DEF IInv
<1>5. \A k \in DOMAIN made : k \in DOMAIN made' /\ made'[k] = made[k]
  BY <1>3, <1>4
<1>6. /\ current' = [current EXCEPT ![r] = Len(made) + 1] /\ current[r] = NoContext
      /\ current \in [Run -> 0..Len(made)]
  BY DEF IInv, ResourcesFit, Resolve
<1>7. current' \in [Run -> 0..Len(made')]
  BY <1>3, <1>4, <1>6
<1>8. \A k \in DOMAIN made, s \in Run : current'[s] = k => current[s] = k
  BY <1>4, <1>6
<1>9. \A e \in entries : current[e.run] = e.context => current'[e.run] = e.context \/ e.context = NoContext
  BY <1>6, EntriesNameRuns DEF IInv
<1>10. ResourcesFit'
  <2>1. \A e \in entries : e.context # NoContext
    BY <1>4 DEF IInv, Ledger, Backed, NoContext
  <2>2. /\ cleaning = NoRun /\ ~ released /\ NoRun \notin Run
        /\ cleaning' = cleaning /\ released' = released /\ closing' = closing /\ entries' = entries
    BY RunAssumption DEF Resolve
  <2>3. \A e \in entries' : e.late \/ current'[e.run] = e.context \/ e.run \in closing' \cup {cleaning'}
    BY <1>9, <2>1, <2>2 DEF IInv, ResourcesFit
  <2> QED
    BY <1>3, <1>7, <2>2, <2>3 DEF IInv, ResourcesFit
<1>11. entries' = entries
  BY DEF Resolve
<1> QED
  BY <1>5, <1>8, <1>10, <1>11, ResourcesMove

LEMMA BeginCleanupKeeps ==
  ASSUME IInv, NEW r \in Run, BeginCleanup(r), UNCHANGED call
  PROVE  IInv'
<1>1. /\ current' = [current EXCEPT ![r] = NoContext] /\ cleaning' = r /\ cleaning = NoRun
      /\ made' = made /\ released' = released /\ closing' = closing /\ entries' = entries
  BY DEF BeginCleanup
<1>2. ResourcesFit /\ NoContext \in 0..Len(made) /\ current \in [Run -> 0..Len(made)]
  BY ContextPlaces DEF IInv, ResourcesFit, NoContext
<1>3. current' \in [Run -> 0..Len(made)] /\ current'[r] = NoContext
      /\ \A s \in Run \ {r} : current'[s] = current[s]
  BY <1>1, <1>2
<1>4. \A k \in DOMAIN made, s \in Run : current'[s] = k => current[s] = k
  BY <1>2, <1>3, ContextPlaces DEF NoContext
<1>5. \A e \in entries : e.late \/ current'[e.run] = e.context \/ e.run \in closing \cup {r}
  <2>1. NoRun \notin Run
    BY RunAssumption
  <2> QED
    BY <1>1, <1>2, <1>3, <2>1, EntriesNameRuns DEF ResourcesFit
<1>6. ResourcesFit'
  BY <1>1, <1>2, <1>3, <1>5 DEF ResourcesFit
<1> QED
  BY <1>1, <1>4, <1>6, ResourcesMove

\* The data of a run go when no context of it is left.
LEMMA RunCleaned ==
  ASSUME IInv, NEW r \in Run, current[r] = NoContext, entries' = entries \ Stored(r),
         UNCHANGED <<made, current, call>>
  PROVE  /\ entries' \subseteq entries
         /\ \A e \in entries' : e.run # r
         /\ \A e \in entries : current'[e.run] = e.context => e \in entries'
<1>1. entries' = {e \in entries : e.run # r}
  BY DEF Stored
<1>2. \A e \in entries : e.context # NoContext
  <2>1. \A k \in DOMAIN made : k # NoContext
    BY ContextPlaces DEF IInv, NoContext
  <2> QED
    BY <2>1 DEF IInv, Ledger, Backed
<1> QED
  BY <1>1, <1>2

LEMMA EndCleanupKeeps ==
  ASSUME IInv, EndCleanup, UNCHANGED call
  PROVE  IInv'
<1>1. /\ entries' = entries \ Stored(cleaning) /\ cleaning # NoRun /\ cleaning' = NoRun
      /\ made' = made /\ current' = current /\ released' = released /\ closing' = closing
  BY DEF EndCleanup
<1>2. cleaning \in Run /\ current[cleaning] = NoContext
  BY <1>1 DEF IInv, ResourcesFit
<1>3. /\ entries' \subseteq entries
      /\ \A e \in entries' : e.run # cleaning
      /\ \A e \in entries : current'[e.run] = e.context => e \in entries'
  BY <1>1, <1>2, RunCleaned
<1>4. ResourcesFit'
  BY <1>1, <1>3 DEF IInv, ResourcesFit
<1> QED
  BY <1>1, <1>3, <1>4, ResourcesMove

LEMMA CleanNextKeeps ==
  ASSUME IInv, CleanNext, UNCHANGED call
  PROVE  IInv'
<1>1. PICK r \in closing : closing' = closing \ {r} /\ entries' = entries \ Stored(r)
  BY DEF CleanNext
<1>2. /\ made' = made /\ current' = current /\ released' = released /\ cleaning' = cleaning
  BY DEF CleanNext
<1>3. r \in Run /\ current[r] = NoContext
  BY DEF IInv, ResourcesFit
<1>4. /\ entries' \subseteq entries
      /\ \A e \in entries' : e.run # r
      /\ \A e \in entries : current'[e.run] = e.context => e \in entries'
  BY <1>1, <1>2, <1>3, RunCleaned
<1>5. ResourcesFit'
  BY <1>1, <1>2, <1>4 DEF IInv, ResourcesFit
<1> QED
  BY <1>2, <1>4, <1>5, ResourcesMove

LEMMA ReleaseKeeps ==
  ASSUME IInv, Release, UNCHANGED call
  PROVE  IInv'
<1>1. /\ released' = TRUE /\ ~ released /\ cleaning = NoRun /\ cleaning' = cleaning
      /\ closing' = {r \in Run : current[r] # NoContext}
      /\ current' = [r \in Run |-> NoContext]
      /\ made' = made /\ entries' = entries
  BY DEF Release
<1>2. NoContext \in 0..Len(made) /\ \A k \in DOMAIN made : k # NoContext
  BY ContextPlaces DEF IInv, NoContext
<1>3. \A k \in DOMAIN made, s \in Run : current'[s] = k => current[s] = k
  BY <1>1, <1>2
<1>4. \A e \in entries : e.run \in Run /\ e.context \in DOMAIN made /\ e.context # NoContext
  BY <1>2, EntriesNameRuns DEF IInv, Ledger, Backed
<1>5. \A e \in entries : e.late \/ e.run \in closing'
  <2>1. closing = {} /\ NoRun \notin Run
    BY <1>1, RunAssumption DEF IInv, ResourcesFit
  <2> QED
    BY <1>1, <1>4, <2>1 DEF IInv, ResourcesFit
<1>6. ResourcesFit'
  BY <1>1, <1>2, <1>5 DEF IInv, ResourcesFit
<1> QED
  BY <1>1, <1>3, <1>6, ResourcesMove

LEMMA ConnectionsKeep ==
  ASSUME IInv, Close \/ CloseConnections, UNCHANGED call
  PROVE  IInv'
<1>1. /\ made' = made /\ current' = current /\ cleaning' = cleaning
      /\ released' = released /\ closing' = closing /\ entries' = entries
  BY DEF Close, CloseConnections
<1>2. ResourcesFit'
  BY <1>1 DEF IInv, ResourcesFit
<1> QED
  BY <1>1, <1>2, ResourcesMove

-----------------------------------------------------------------------------
(* The steps of the calls.                                                 *)

\* What is true of a tool's call that has read nothing, or of no call at all.
LEMMA NothingRead ==
  ASSUME NEW d, d.read = {}, d.at # "read", d.result = NoResult
  PROVE  ReadFits(d)
BY DEF ReadFits, CalculationsAreTrue, NoResult

LEMMA ToolReadsNothing ==
  ASSUME NEW d, d.read = {}, d.at # "read", d.kind \in DOMAIN Plan
  PROVE  ReadFits(d)
<1>1. d.kind \notin DOMAIN ExtraLabels
  BY KindsApart
<1> QED
  BY <1>1 DEF ReadFits

LEMMA EndMoves ==
  ASSUME ContextsFit, NEW t \in Tool, Shaped(call[t]), NEW at, NEW status, NEW ref,
         End(t, at, status, ref)
  PROVE  call' = [call EXCEPT ![t] = EndOf(call[t], at, status, ref)]
BY DEF ContextsFit, End, EndOf, Shaped, Fields

LEMMA StartKeeps ==
  ASSUME IInv, NEW t \in Tool, Start(t)
  PROVE  IInv'
<1>1. PICK context \in DOMAIN made :
        call' = [call EXCEPT ![t] = Asking([call[t] EXCEPT !.at = "query", !.context = context], 1)]
  BY DEF Start
<1> DEFINE d == Asking([call[t] EXCEPT !.at = "query", !.context = context], 1)
<1>2. CallFits(call[t]) /\ call[t].at = "idle" /\ call[t].kind \in DOMAIN Plan
  BY DEF IInv, Start
<1>3. /\ CallFits(d)
      /\ d.kind = call[t].kind /\ d.at = "query" /\ d.context = context
      /\ d.result = NoResult /\ d.read = {}
  BY <1>2, StartFits
<1> HIDE DEF d
<1>4. ReadFits(d) /\ d.result.ref = "none"
  BY <1>3, NothingRead DEF NoResult
<1>5. UNCHANGED resourceVars
  BY DEF Start
<1>6. call' = [call EXCEPT ![t] = d]
  BY <1>1 DEF d
<1> QED
  BY <1>2, <1>3, <1>4, <1>5, <1>6, CallMoves DEF Answers

LEMMA CancelKeeps ==
  ASSUME IInv, NEW t \in Tool, Cancel(t)
  PROVE  IInv'
<1> DEFINE d == [Idle(call[t].kind) EXCEPT !.at = "cancelled"]
<1>1. CallFits(call[t]) /\ call[t].at \in {"query", "store", "read"}
  BY DEF IInv, Cancel
<1>2. call' = [call EXCEPT ![t] = d] /\ UNCHANGED resourceVars
  BY DEF Cancel
<1>3. /\ Shaped(d) /\ d.kind = call[t].kind /\ d.stage = 0 /\ d.query = <<>> /\ d.read = {}
      /\ d.result = NoResult /\ d.at = "cancelled"
  BY DEF Idle, Shaped, Fields
<1> HIDE DEF d
<1>4. KindFits(d)
  BY <1>1, <1>3 DEF CallFits, KindFits
<1>5. CallFits(d)
  BY <1>3, <1>4, EmptyFits
<1>6. ReadFits(d) /\ d.result.ref = "none"
  BY <1>3, NothingRead DEF NoResult
<1> QED
  BY <1>1, <1>2, <1>3, <1>5, <1>6, CallMoves DEF Answers

LEMMA EndQueryKeeps ==
  ASSUME IInv, NEW t \in Tool, EndQuery(t)
  PROVE  IInv'
<1>0. PICK q \in Running(call[t]) : \E how \in Outcomes[q] :
        call' = [call EXCEPT ![t] = [call[t] EXCEPT !.query[q] = how]]
  BY DEF EndQuery
<1>1. PICK how \in Outcomes[q] : call' = [call EXCEPT ![t] = [call[t] EXCEPT !.query[q] = how]]
  BY <1>0
<1> DEFINE c == call[t]
           d == [c EXCEPT !.query[q] = how]
<1>2. CallFits(c) /\ q \in Asked(c)
  BY <1>1, RunningAsked DEF IInv
<1>3. UNCHANGED resourceVars
  BY DEF EndQuery
<1>4. call' = [call EXCEPT ![t] = d]
  BY <1>1
<1> HIDE DEF c
<1>5. /\ CallFits(d) /\ ~ Settled(c)
      /\ d.kind = c.kind /\ d.at = c.at /\ d.context = c.context
      /\ d.result = c.result /\ d.read = c.read /\ d.refs = c.refs
      /\ c.result.ref = "none"
  BY <1>1, <1>2, EndQueryFits
<1> HIDE DEF d
<1>6. c.kind \in DOMAIN Plan
  BY <1>2 DEF CallFits, QueriesFit, Begun, Asked, With
<1>7. c.read = {} /\ c.at # "read"
  BY <1>2, <1>6, KindsApart DEF CallFits, OutcomeFits
<1>8. ReadFits(d)
  BY <1>5, <1>6, <1>7, ToolReadsNothing
<1>9. c.at \in {"query", "store", "read", "done"} => c.context \in DOMAIN made
  BY DEF IInv, ContextsFit, c
<1>10. ~ Answers(call[t])
  BY <1>5 DEF Answers, c
<1> QED
  BY <1>3, <1>4, <1>5, <1>8, <1>9, <1>10, CallMoves

\* The end of a call that stores nothing.
LEMMA EndKeeps ==
  ASSUME IInv, NEW t \in Tool, NEW at \in {"done", "cancelled"}, NEW status,
         End(t, at, status, "none"), UNCHANGED resourceVars,
         call[t].at \in {"query", "store"}, CallFits(EndOf(call[t], at, status, "none"))
  PROVE  IInv'
<1> DEFINE c == call[t]
           d == EndOf(c, at, status, "none")
<1>1. CallFits(c) /\ Shaped(c) /\ c.context \in DOMAIN made /\ c.kind \in DOMAIN Plan
  BY DEF IInv, ContextsFit, CallFits, QueriesFit
<1>2. call' = [call EXCEPT ![t] = d]
  BY <1>1, EndMoves DEF IInv
<1>3. ~ Answers(call[t])
  BY DEF Answers
<1> HIDE DEF c
<1>4. d.at = at /\ d.kind = c.kind /\ d.context = c.context /\ d.read = c.read /\ d.result.ref = "none"
  BY <1>1 DEF EndOf, Shaped, Fields
<1>5. CallFits(d)
  BY DEF c
<1> HIDE DEF d
<1>6. ReadFits(d)
  BY <1>1, <1>4, ToolReadsNothing DEF CallFits, OutcomeFits
<1> QED
  BY <1>1, <1>2, <1>3, <1>4, <1>5, <1>6, CallMoves

LEMMA GatherKeeps ==
  ASSUME IInv, NEW t \in Tool, Gather(t)
  PROVE  IInv'
<1> DEFINE c == call[t]
<1>1. CallFits(c) /\ c.at = "query" /\ UNCHANGED resourceVars /\ c.context \in DOMAIN made
  BY DEF IInv, ContextsFit, Gather
<1>2. \/ StageCancelled(c) /\ End(t, "cancelled", "none", "none")
      \/ StageFails(c) /\ End(t, "done", "error", "none")
      \/ /\ ~ StageFails(c) /\ StageEnds(c)
         /\ IF c.stage < Len(Plan[c.kind])
            THEN call' = [call EXCEPT ![t] = Asking(c, c.stage + 1)]
            ELSE IF c.kind \in PlainTools
            THEN \E fits \in BOOLEAN : End(t, "done", PlainStatus(c, fits), "none")
            ELSE IF Enough(c) THEN call' = [call EXCEPT ![t].at = "store"]
            ELSE End(t, "done", "error", "none")
  BY DEF Gather
<1>3. CASE StageCancelled(c) /\ End(t, "cancelled", "none", "none")
  BY <1>1, <1>3, CancelledFits, EndKeeps
<1>4. CASE StageFails(c) /\ End(t, "done", "error", "none")
  BY <1>1, <1>4, FailedFits, EndKeeps
<1>5. CASE /\ ~ StageFails(c) /\ StageEnds(c) /\ c.stage < Len(Plan[c.kind])
           /\ call' = [call EXCEPT ![t] = Asking(c, c.stage + 1)]
  <2> DEFINE d == Asking(c, c.stage + 1)
  <2>1. /\ CallFits(d)
        /\ d.kind = c.kind /\ d.at = "query" /\ d.context = c.context
        /\ d.result = NoResult /\ d.read = {}
    BY <1>1, <1>5, NextStageFits
  <2>2. call' = [call EXCEPT ![t] = d] /\ ~ Answers(call[t])
    BY <1>1, <1>5 DEF Answers
  <2> HIDE DEF c, d
  <2>3. ReadFits(d) /\ d.result.ref = "none"
    BY <2>1, NothingRead DEF NoResult
  <2> QED
    BY <1>1, <2>1, <2>2, <2>3, CallMoves DEF c
<1>6. CASE /\ ~ StageFails(c) /\ StageEnds(c) /\ ~ (c.stage < Len(Plan[c.kind]))
           /\ c.kind \in PlainTools
           /\ \E fits \in BOOLEAN : End(t, "done", PlainStatus(c, fits), "none")
  <2>1. PICK fits \in BOOLEAN : End(t, "done", PlainStatus(c, fits), "none")
    BY <1>6
  <2>2. CallFits(EndOf(c, "done", PlainStatus(c, fits), "none"))
    BY <1>1, <1>6, PlainFits
  <2> QED
    BY <1>1, <2>1, <2>2, EndKeeps
<1>7. CASE /\ ~ StageFails(c) /\ StageEnds(c) /\ ~ (c.stage < Len(Plan[c.kind]))
           /\ c.kind \notin PlainTools /\ Enough(c) /\ call' = [call EXCEPT ![t].at = "store"]
  <2> DEFINE d == [c EXCEPT !.at = "store"]
  <2>1. /\ CallFits(d)
        /\ d.kind = c.kind /\ d.at = "store" /\ d.context = c.context
        /\ d.result = NoResult /\ d.read = {}
    BY <1>1, <1>7, ToStoreFits
  <2>2. call' = [call EXCEPT ![t] = d] /\ ~ Answers(call[t])
    BY <1>1, <1>7 DEF Answers
  <2> HIDE DEF c, d
  <2>3. ReadFits(d) /\ d.result.ref = "none"
    BY <2>1, NothingRead DEF NoResult
  <2> QED
    BY <1>1, <2>1, <2>2, <2>3, CallMoves DEF c
<1>8. CASE /\ ~ StageFails(c) /\ StageEnds(c) /\ End(t, "done", "error", "none")
  <2>1. Asked(c) = {}
    BY <1>8 DEF StageEnds, With, Asked
  <2>2. CallFits(EndOf(c, "done", "error", "none"))
    BY <1>1, <2>1, UnstoredFits
  <2> QED
    BY <1>1, <1>8, <2>2, EndKeeps
<1> QED
  BY <1>2, <1>3, <1>4, <1>5, <1>6, <1>7, <1>8

\* A step of a calculator.
LEMMA CalculatorStepKeeps ==
  ASSUME IInv, NEW t \in Tool, NEW d, call' = [call EXCEPT ![t] = d], UNCHANGED resourceVars,
         call[t].at \in {"idle", "read"}, call[t].kind \in DOMAIN ExtraLabels,
         Shaped(d), d.kind = call[t].kind, d.stage = call[t].stage, d.query = call[t].query,
         d.context \in DOMAIN made,
         d.at \in {"read", "done"}, d.at = "read" => d.result = NoResult, d.result.ref = "none",
         ReadFits(d)
  PROVE  IInv'
<1>1. CallFits(call[t]) /\ ~ Answers(call[t])
  BY DEF IInv, Answers
<1>2. CallFits(d)
  BY <1>1, CalculatorFits
<1> QED
  BY <1>1, <1>2, CallMoves

LEMMA StartCalculatorKeeps ==
  ASSUME IInv, NEW t \in Tool, StartCalculator(t)
  PROVE  IInv'
<1> DEFINE c == call[t]
<1>1. PICK context \in DOMAIN made, x \in Given, y \in Given :
        call' = [call EXCEPT ![t] =
          [c EXCEPT !.at = "read", !.context = context,
                    !.refs = IF c.kind = "calculate_relative_strength" THEN <<x, y>> ELSE <<x>>]]
  BY DEF StartCalculator
<1> DEFINE refs == IF c.kind = "calculate_relative_strength" THEN <<x, y>> ELSE <<x>>
           d == [c EXCEPT !.at = "read", !.context = context, !.refs = refs]
<1>2. c.at = "idle" /\ c.kind \in DOMAIN ExtraLabels /\ CallFits(c) /\ UNCHANGED resourceVars
  BY DEF IInv, StartCalculator
<1>3. c.kind # "calculate_relative_strength" => Len(refs) = 1
  OBVIOUS
<1>4. call' = [call EXCEPT ![t] = d]
  BY <1>1
<1> HIDE DEF c, refs
<1>5. Shaped(c) /\ c.result = NoResult /\ c.read = {}
  BY <1>2 DEF CallFits, OutcomeFits
<1>6. /\ Shaped(d) /\ d.at = "read" /\ d.context = context /\ d.kind = c.kind /\ d.stage = c.stage
      /\ d.query = c.query /\ d.refs = refs /\ d.read = c.read /\ d.result = c.result
  BY <1>5 DEF Shaped, Fields
<1> HIDE DEF d
<1>7. ReadFits(d) /\ d.result.ref = "none"
  BY <1>3, <1>5, <1>6 DEF ReadFits, CalculationsAreTrue, NoResult
<1> QED
  BY <1>2, <1>4, <1>5, <1>6, <1>7, CalculatorStepKeeps DEF c

\* What is got by a reference is what a call left, of the run that asks for it, and of
\* its cut-off as well if it is not late.
LEMMA GotFits ==
  ASSUME IInv, NEW context \in DOMAIN made, NEW ref, NEW e \in Got(context, ref)
  PROVE  /\ Backed(e) /\ e.ref = ref /\ e.run = made[context].run
         /\ e.late \/ e.as_of = made[context].as_of
<1>1. PICK f \in entries :
        /\ f.ref = ref /\ f.run = made[context].run
        /\ e = [f EXCEPT !.late = f.late \/ current[f.run] # context]
  BY DEF Got
<1>2. f \in Entry /\ Backed(f)
  BY DEF IInv, Ledger, Backed
<1>3. /\ e \in Entry /\ e.ref = f.ref /\ e.context = f.context /\ e.run = f.run
      /\ e.as_of = f.as_of /\ e.data = f.data
      /\ e.late = (f.late \/ current[f.run] # context)
  BY <1>1, <1>2 DEF Entry
<1>4. Backed(e)
  BY <1>2, <1>3 DEF Backed
<1>5. ASSUME ~ e.late
      PROVE  e.as_of = made[context].as_of
  <2>1. ~ f.late /\ current[f.run] = context
    BY <1>3, <1>5
  <2>2. context # NoContext
    BY ContextPlaces DEF IInv, NoContext
  <2>3. f.run \in Run /\ f.run \notin closing \cup {cleaning}
    BY <1>2, <2>1, <2>2, RunAssumption DEF IInv, ResourcesFit, Entry
  <2>4. f.context = context
    BY <2>1, <2>3 DEF IInv, ResourcesFit
  <2> QED
    BY <1>2, <1>3, <2>4 DEF Backed
<1> QED
  BY <1>1, <1>3, <1>4, <1>5

LEMMA GotOne ==
  ASSUME IInv, NEW context, NEW ref
  PROVE  \A e, f \in Got(context, ref) : e = f
BY DEF Got, IInv, Ledger

\* Of data that are there the query did not fail.
LEMMA NothingMissing ==
  ASSUME IInv, NEW e, Backed(e), NEW labels, Failed(call[e.ref]) \cap labels = {}
  PROVE  labels \cap Planned(call[e.ref]) \subseteq e.data
<1>1. e.ref \in Tool /\ Settled(call[e.ref]) /\ e.data = Answered(call[e.ref])
  BY DEF Backed, Entry, Answers
<1>2. \A q \in DOMAIN call[e.ref].query : call[e.ref].query[q] \in {"asked"} \cup Ending
  BY <1>1 DEF IInv, CallFits, QueriesFit
<1>3. \A q \in Planned(call[e.ref]) \ Failed(call[e.ref]) : q \in Answered(call[e.ref])
  BY <1>1, <1>2 DEF Settled, With, Failed, Answered, Ending
<1> QED
  BY <1>1, <1>3

\* A calculation that is made.
LEMMA CalculationTrue ==
  ASSUME IInv, NEW c, NEW read, NEW d,
         d.kind = c.kind, d.context = c.context, d.read = read,
         \A e \in read : /\ Backed(e) /\ e.run = made[c.context].run
                         /\ e.late \/ e.as_of = made[c.context].as_of,
         c.kind # "calculate_relative_strength" => \A e, f \in read : e = f,
         Comparable(c, read), \A e \in read : Computable(e),
         d.result.status = "ok" => ~ SourceIssues(c, read)
  PROVE  CalculationsAreTrue(d)
<1>1. \A e, f \in read : e.as_of = f.as_of
  BY DEF Comparable
<1>2. ASSUME NEW e \in read, ~ SourceIssues(c, read)
      PROVE  ExtraLabels[c.kind] \cap Planned(call[e.ref]) \subseteq e.data
  <2>1. Failed(call[e.ref]) \cap ExtraLabels[c.kind] = {}
    BY <1>2 DEF SourceIssues
  <2> QED
    BY <2>1, NothingMissing
<1>3. \A e \in read : CoreLabels[KindOf(e)] \subseteq e.data
  BY DEF Computable
<1> QED
  BY <1>1, <1>2, <1>3 DEF CalculationsAreTrue

LEMMA ReadKeeps ==
  ASSUME IInv, NEW t \in Tool, Read(t)
  PROVE  IInv'
<1> DEFINE c    == call[t]
           got  == Got(c.context, Head(c.refs))
           read == c.read \cup got
           last == Len(c.refs) = 1
<1>1. c.at = "read" /\ UNCHANGED resourceVars
  BY DEF Read
<1>2. \/ /\ got # {} /\ ~ last
         /\ call' = [call EXCEPT ![t] = [c EXCEPT !.refs = Tail(@), !.read = read]]
      \/ /\ got # {} /\ last /\ Comparable(c, read)
         /\ \A e \in read : Computable(e) /\ Daily(c, e)
         /\ \E status \in IF SourceIssues(c, read) THEN {"partial"} ELSE {"ok", "partial"} :
              call' = [call EXCEPT ![t].at = "done", ![t].read = read,
                                   ![t].result = [status |-> status, ref |-> "none"]]
      \/ (got = {} \/ last) /\ End(t, "done", "error", "none")
  BY DEF Read
<1>3. /\ CallFits(c) /\ Shaped(c) /\ c.kind \in DOMAIN ExtraLabels /\ c.result = NoResult
      /\ c.context \in DOMAIN made
      /\ c.kind # "calculate_relative_strength" => last /\ c.read = {}
  BY <1>1 DEF IInv, ContextsFit, ReadsFit, ReadFits, CallFits, OutcomeFits
<1>4. \A e \in c.read : /\ Backed(e) /\ e.run = made[c.context].run
                        /\ e.late \/ e.as_of = made[c.context].as_of
  BY DEF IInv, ReadsFit, ReadFits
<1>5. \A e \in read : /\ Backed(e) /\ e.run = made[c.context].run
                      /\ e.late \/ e.as_of = made[c.context].as_of
  BY <1>3, <1>4, GotFits
<1>6. c.kind # "calculate_relative_strength" => \A e, f \in read : e = f
  BY <1>3, GotOne
<1>7. call = [u \in Tool |-> call[u]]
  BY DEF IInv, ContextsFit
<1> HIDE DEF read, got
<1>8. CASE /\ ~ last /\ call' = [call EXCEPT ![t] = [c EXCEPT !.refs = Tail(@), !.read = read]]
  <2> DEFINE d == [c EXCEPT !.refs = Tail(@), !.read = read]
  <2>1. call' = [call EXCEPT ![t] = d]
    BY <1>8
  <2> HIDE DEF c
  <2>2. /\ Shaped(d) /\ d.at = c.at /\ d.kind = c.kind /\ d.context = c.context
        /\ d.stage = c.stage /\ d.query = c.query /\ d.read = read /\ d.result = c.result
    BY <1>3 DEF Shaped, Fields
  <2> HIDE DEF d
  <2>3. CalculationsAreTrue(d) /\ d.result.ref = "none"
    BY <1>3, <2>2 DEF CalculationsAreTrue, NoResult
  <2>4. ReadFits(d)
    BY <1>3, <1>5, <1>8, <2>2, <2>3 DEF ReadFits
  <2> QED
    BY <1>1, <1>3, <2>1, <2>2, <2>3, <2>4, CalculatorStepKeeps DEF c
<1>9. ASSUME NEW status \in IF SourceIssues(c, read) THEN {"partial"} ELSE {"ok", "partial"},
             Comparable(c, read), \A e \in read : Computable(e),
             call' = [call EXCEPT ![t].at = "done", ![t].read = read,
                                  ![t].result = [status |-> status, ref |-> "none"]]
      PROVE  IInv'
  <2> DEFINE d == [c EXCEPT !.at = "done", !.read = read,
                            !.result = [status |-> status, ref |-> "none"]]
  <2>1. call' = [call EXCEPT ![t] = d]
    BY <1>3, <1>7, <1>9 DEF Shaped, Fields
  <2> HIDE DEF c
  <2>2. /\ Shaped(d) /\ d.at = "done" /\ d.kind = c.kind /\ d.context = c.context
        /\ d.stage = c.stage /\ d.query = c.query /\ d.read = read
        /\ d.result.status = status /\ d.result.ref = "none"
    BY <1>3 DEF Shaped, Fields
  <2> HIDE DEF d
  <2>3. d.result.status = "ok" => ~ SourceIssues(c, read)
    BY <1>9, <2>2
  <2>4. CalculationsAreTrue(d)
    BY <1>5, <1>6, <1>9, <2>2, <2>3, CalculationTrue
  <2>5. ReadFits(d)
    BY <1>5, <2>2, <2>4 DEF ReadFits
  <2> QED
    BY <1>1, <1>3, <2>1, <2>2, <2>5, CalculatorStepKeeps DEF c
<1>10. CASE End(t, "done", "error", "none")
  <2> DEFINE d == EndOf(c, "done", "error", "none")
  <2>1. call' = [call EXCEPT ![t] = d]
    BY <1>3, <1>10, EndMoves DEF IInv
  <2> HIDE DEF c
  <2>2. /\ Shaped(d) /\ d.at = "done" /\ d.kind = c.kind /\ d.context = c.context
        /\ d.stage = c.stage /\ d.query = c.query /\ d.read = c.read
        /\ d.result.status = "error" /\ d.result.ref = "none"
    BY <1>3 DEF EndOf, Shaped, Fields
  <2> HIDE DEF d
  <2>3. ReadFits(d)
    BY <1>4, <2>2 DEF ReadFits, CalculationsAreTrue
  <2> QED
    BY <1>1, <1>3, <2>1, <2>2, <2>3, CalculatorStepKeeps DEF c
<1> QED
  BY <1>2, <1>8, <1>9, <1>10

\* Data are put, and their reference is handed out.
LEMMA PutKeeps ==
  ASSUME IInv, NEW t \in Tool, call[t].at = "store", NEW status,
         Put(t, call[t].context, Answered(call[t])), End(t, "done", status, t),
         UNCHANGED <<made, current, cleaning, runtime, released, closing>>,
         CallFits(EndOf(call[t], "done", status, t))
  PROVE  IInv'
<1> DEFINE c   == call[t]
           k   == c.context
           d   == EndOf(c, "done", status, t)
<1>0. PICK new : new = [ref |-> t, context |-> k, run |-> made[k].run, as_of |-> made[k].as_of,
                        data |-> Answered(c), late |-> current[made[k].run] # k]
  OBVIOUS
<1>1. entries' = entries \cup {new}
  BY <1>0 DEF Put
<1>2. /\ CallFits(c) /\ Shaped(c) /\ k \in DOMAIN made /\ Settled(c) /\ c.kind \in DOMAIN Plan
      /\ c.read = {} /\ ~ Answers(c)
  BY DEF IInv, ContextsFit, CallFits, OutcomeFits, QueriesFit, Answers
<1>3. call' = [call EXCEPT ![t] = d]
  BY <1>2, EndMoves DEF IInv
<1>4. /\ call' = [u \in Tool |-> call'[u]] /\ call'[t] = d
      /\ \A u \in Tool \ {t} : call'[u] = call[u]
  BY <1>3, OneChanges DEF IInv
<1>5. CallFits(d)
  OBVIOUS
<1>6. made[k] \in Context /\ k \in Nat
  BY <1>2, ContextPlaces DEF IInv, ResourcesFit
<1>7. Answered(c) \subseteq DOMAIN Outcomes
  BY <1>2, BegunModelled DEF CallFits, QueriesFit, Answered, With
<1>8. /\ new.ref = t /\ new.context = k /\ new.run = made[k].run /\ new.as_of = made[k].as_of
      /\ new.data = Answered(c) /\ new.late = (current[made[k].run] # k)
  BY <1>0
<1>9. new \in Entry
  BY <1>0, <1>6, <1>7 DEF Entry, Context
<1>10. /\ d.at = "done" /\ d.kind = c.kind /\ d.context = k /\ d.read = c.read /\ d.query = c.query
       /\ d.result.ref = t
  BY <1>2 DEF EndOf, Shaped, Fields
<1> HIDE DEF d
<1>11. Keeps
  BY <1>2, <1>4 DEF Keeps
<1>12. Settled(d) /\ Answered(d) = Answered(c)
  BY <1>2, <1>10, SameQueries
<1>13. Backed(new)'
  <2>1. Answers(call'[t]) /\ call'[t].context = k /\ Answered(call'[t]) = Answered(c)
    BY <1>2, <1>4, <1>10, <1>12 DEF Answers
  <2>2. \A e : Answers(call[e.ref])' <=> Answers(call'[e.ref])
    BY DEF Answers
  <2>3. \A e : Answered(call[e.ref])' = Answered(call'[e.ref])
    BY DEF Answered, With
  <2> HIDE DEF c, k
  <2> QED
    BY <1>2, <1>8, <1>9, <2>1, <2>2, <2>3 DEF Backed, Entry
<1>14. ResourcesFit'
  BY <1>1, <1>8, <1>9 DEF IInv, ResourcesFit
<1>15. (\A u \in Tool : CallFits(call[u]))'
  BY <1>4, <1>5, Primed DEF IInv
<1>16. ContextsFit'
  BY <1>2, <1>4, <1>10 DEF IInv, ContextsFit
<1>17. Ledger'
  <2>1. \A e \in entries : Backed(e)' /\ e.ref # t
    BY <1>2, <1>11, BackedStays DEF IInv, Ledger, Backed
  <2>2. \A e \in entries' : Backed(e)'
    BY <1>1, <1>13, <2>1
  <2>3. \A e, f \in entries' : e.ref = f.ref => e = f
    BY <1>1, <1>8, <2>1 DEF IInv, Ledger
  <2>4. ASSUME NEW u \in Tool, call'[u].result.ref # "none"
        PROVE  /\ call'[u].result.ref = u
               /\ current'[made'[call'[u].context].run] = call'[u].context =>
                    \E e \in entries' : e.ref = u
    <3>1. CASE u = t
      BY <1>1, <1>4, <1>8, <1>10, <3>1
    <3>2. CASE u # t
      BY <1>1, <1>4, <2>4, <3>2 DEF IInv, Ledger
    <3> QED
      BY <3>1, <3>2
  <2> QED
    BY <2>2, <2>3, <2>4 DEF Ledger
<1>18. ReadsFit'
  <2>1. ASSUME NEW u \in Tool
        PROVE  \E x : x = call'[u] /\ ReadFits(x)'
    <3>1. PICK x : x = call'[u]
      OBVIOUS
    <3>2. ReadFits(x)
      <4>1. CASE u = t
        BY <1>2, <1>4, <1>10, <3>1, <4>1, ToolReadsNothing
      <4>2. CASE u # t
        BY <1>4, <3>1, <4>2 DEF IInv, ReadsFit
      <4> QED
        BY <4>1, <4>2
    <3>3. CallFits(x) /\ (x.at \in {"read", "done"} => x.context \in DOMAIN made)
      BY <1>2, <1>4, <1>5, <1>10, <3>1 DEF IInv, ContextsFit
    <3> QED
      BY <1>11, <3>1, <3>2, <3>3, ReadStays
  <2> QED
    BY <2>1, ReadsFollow
<1> QED
  BY <1>14, <1>15, <1>16, <1>17, <1>18 DEF IInv

LEMMA StoreKeeps ==
  ASSUME IInv, NEW t \in Tool, Store(t)
  PROVE  IInv'
<1> DEFINE c == call[t]
<1>1. PICK status : StoreWith(t, status) /\ \A fits \in BOOLEAN : SaidOf(c, status[fits])
  <2>1. CASE StorePrices(t)
    BY <2>1, PricesSaid DEF StorePrices
  <2>2. CASE StoreEvents(t)
    <3>1. PICK selected \in Selections(c) :
            StoreWith(t, [fits \in BOOLEAN |-> EventStatus(c, selected, fits)])
      BY <2>2 DEF StoreEvents
    <3>2. \A fits \in BOOLEAN : SaidOf(c, EventStatus(c, selected, fits))
      BY <2>2, EventsSaid DEF StoreEvents
    <3> QED
      BY <3>1, <3>2
  <2>3. CASE StoreSnapshot(t)
    BY <2>3, SnapshotsSaid DEF StoreSnapshot, NeverEmpty
  <2> QED
    BY <2>1, <2>2, <2>3 DEF Store
<1>2. /\ c.at = "store"
      /\ \/ /\ Put(t, c.context, Answered(c))
            /\ \E fits \in BOOLEAN : End(t, "done", status[fits], t)
         \/ End(t, "done", "error", "none") /\ UNCHANGED entries
      /\ UNCHANGED <<made, current, cleaning, runtime, released, closing>>
  BY <1>1 DEF StoreWith
<1>3. CallFits(c)
  BY DEF IInv
<1>4. ASSUME NEW fits \in BOOLEAN, Put(t, c.context, Answered(c)), End(t, "done", status[fits], t)
      PROVE  IInv'
  <2>1. SaidOf(c, status[fits]) /\ t # "none"
    BY <1>1, ToolAssumption
  <2>2. CallFits(EndOf(c, "done", status[fits], t))
    BY <1>2, <1>3, <2>1, StoredFits
  <2> QED
    BY <1>2, <1>4, <2>2, PutKeeps
<1>5. CASE End(t, "done", "error", "none") /\ UNCHANGED entries
  <2>1. Asked(c) = {}
    BY <1>2, <1>3 DEF CallFits, OutcomeFits, Settled, Asked, With
  <2>2. CallFits(EndOf(c, "done", "error", "none"))
    BY <1>2, <1>3, <2>1, UnstoredFits
  <2>3. UNCHANGED resourceVars
    BY <1>2, <1>5 DEF resourceVars
  <2> QED
    BY <1>2, <1>5, <2>2, <2>3, EndKeeps
<1> QED
  BY <1>2, <1>4, <1>5

-----------------------------------------------------------------------------
(* The theorems.                                                           *)

LEMMA InitFits == Init => IInv
<1> SUFFICES ASSUME Init
             PROVE  IInv
  OBVIOUS
<1>1. PICK mix \in Mixes : call = [t \in Tool |-> Idle(mix[t])]
  BY DEF Init
<1>2. /\ made = <<>> /\ current = [r \in Run |-> NoContext] /\ cleaning = NoRun
      /\ released = FALSE /\ closing = {} /\ entries = {}
  BY DEF Init, ResourcesInit
<1>3. ResourcesFit
  <2>1. made \in Seq(Context) /\ Len(made) = 0
    BY <1>2
  <2>2. current \in [Run -> 0..Len(made)]
    BY <1>2, <2>1 DEF NoContext
  <2> QED
    BY <1>2, <2>1, <2>2 DEF ResourcesFit
<1>4. ASSUME NEW t \in Tool
      PROVE  /\ CallFits(call[t]) /\ ReadFits(call[t])
             /\ call[t].at = "idle" /\ call[t].result.ref = "none"
  <2> DEFINE d == call[t]
  <2>1. d = Idle(mix[t])
    BY <1>1
  <2>2. DOMAIN mix = Tool /\ Range(mix) \subseteq DOMAIN Plan \cup DOMAIN ExtraLabels \cup {"none"}
        /\ (mix[t] \in DOMAIN Plan => Modelled(Plan[mix[t]][1]) # {})
    BY ToolAssumption
  <2>3. mix[t] \in Range(mix)
    BY <2>2 DEF Range
  <2> HIDE DEF d
  <2>4. /\ Shaped(d) /\ d.kind = mix[t] /\ d.stage = 0 /\ d.query = <<>> /\ d.read = {}
        /\ d.result = NoResult /\ d.at = "idle"
    BY <2>1 DEF Idle, Shaped, Fields
  <2>5. KindFits(d)
    BY <2>2, <2>3, <2>4 DEF KindFits
  <2>6. CallFits(d)
    BY <2>4, <2>5, EmptyFits
  <2>7. ReadFits(d)
    BY <2>4, NothingRead
  <2> QED
    BY <2>4, <2>6, <2>7 DEF d, NoResult
<1>5. ContextsFit
  <2>1. call = [t \in Tool |-> call[t]]
    BY <1>1
  <2> QED
    BY <1>4, <2>1 DEF ContextsFit
<1>6. Ledger
  BY <1>2, <1>4 DEF Ledger
<1> QED
  BY <1>3, <1>4, <1>5, <1>6 DEF IInv, ReadsFit

LEMMA NextFits == IInv /\ [Next]_vars => IInv'
<1> SUFFICES ASSUME IInv, [Next]_vars
             PROVE  IInv'
  OBVIOUS
<1>1. CASE Requested /\ UNCHANGED call
  BY <1>1, BeginCleanupKeeps, ResolveKeeps, ConnectionsKeep DEF Requested
<1>2. CASE GoesOn /\ UNCHANGED call
  BY <1>2, EndCleanupKeeps, ReleaseKeeps, CleanNextKeeps, ConnectionsKeep DEF GoesOn
<1>3. ASSUME NEW t \in Tool, Start(t) \/ StartCalculator(t) \/ Work(t) \/ Cancel(t)
      PROVE  IInv'
  BY <1>3, StartKeeps, StartCalculatorKeeps, EndQueryKeeps, GatherKeeps, StoreKeeps, ReadKeeps,
     CancelKeeps DEF Work
<1>4. CASE UNCHANGED vars
  <2>1. UNCHANGED <<made, current, cleaning, runtime, released, closing, entries, call>>
    BY <1>4 DEF vars, resourceVars
  <2>2. ResourcesFit'
    BY <2>1 DEF IInv, ResourcesFit
  <2> QED
    BY <2>1, <2>2, ResourcesMove
<1> QED
  BY <1>1, <1>2, <1>3, <1>4 DEF Next

THEOREM Invariance == Spec => []IInv
BY InitFits, NextFits, PTL DEF Spec

\* A model is told no more than the queries of its call brought, and no calculation is
\* made on less than it needs, on another run's data or on data of two cut-offs
\* (tools/execution.py, tools/technical.py).
THEOREM ToolsTellTheTruth == Spec => []ResultTellsTheTruth
<1>1. IInv => ResultTellsTheTruth
  BY DEF IInv, CallFits, OutcomeFits, ReadsFit, ReadFits, ResultTellsTheTruth
<1> QED
  BY <1>1, Invariance, PTL

\* A reference that was handed out leads to the full data for as long as its context is
\* kept, and data that were put in time do not outlive it (research_data/store.py,
\* runtime/application.py).
THEOREM ReferencesHold == Spec => []StoreKeepsItsPromise
<1>1. ASSUME IInv, NEW t \in Tool, call[t].result.ref # "none",
             current[made[call[t].context].run] = call[t].context
      PROVE  \E e \in Got(call[t].context, call[t].result.ref) :
               e.data = Answered(call[t]) /\ e.as_of = made[call[t].context].as_of
  <2> DEFINE c == call[t]
  <2>1. c.result.ref = t
    BY <1>1 DEF IInv, Ledger
  <2>2. PICK f \in entries : f.ref = t
    BY <1>1 DEF IInv, Ledger
  <2>3. Backed(f) /\ f \in Entry
    BY <1>1 DEF IInv, Ledger, Backed
  <2>4. f.run = made[c.context].run /\ f.as_of = made[c.context].as_of /\ f.data = Answered(c)
    BY <2>2, <2>3 DEF Backed
  <2> DEFINE e == [f EXCEPT !.late = f.late \/ current[f.run] # c.context]
  <2>5. e \in Got(c.context, c.result.ref)
    BY <2>1, <2>2, <2>4 DEF Got
  <2>6. e.data = f.data /\ e.as_of = f.as_of
    BY <2>3 DEF Entry
  <2> HIDE DEF e
  <2> QED
    BY <2>4, <2>5, <2>6
<1>2. IInv => StoreKeepsItsPromise
  BY <1>1 DEF IInv, ResourcesFit, StoreKeepsItsPromise
<1> QED
  BY <1>2, Invariance, PTL
===============================================================================
