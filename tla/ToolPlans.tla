------------------------------ MODULE ToolPlans ------------------------------
(***************************************************************************)
(* The queries that the tools of the agents make (tools/*.py), and those   *)
(* of the daily snapshots (services/daily_*_snapshot.py), in their stages. *)
(* Queries of one sort, such as one for each industry, are one query here. *)
(***************************************************************************)
EXTENDS Sequences

\* Without the queries of a stage that are needed there is no answer, and rows names
\* those which must bring rows.  With the others it is enough that one of rows does.
Needed(queries, rows)   == [queries |-> queries, needed |-> TRUE, rows |-> rows]
Optional(queries, rows) == [queries |-> queries, needed |-> FALSE, rows |-> rows]

-----------------------------------------------------------------------------
(* Daily snapshots.                                                        *)

TechnicalStages ==
  <<Needed(<<"trade_calendar">>, {"trade_calendar"}),
    Needed(<<"stock_basic", "daily_bars", "daily_valuation", "daily_limits",
             "daily_suspensions", "st_stocks", "sw_l1_classifications">>,
           {"stock_basic", "daily_bars", "sw_l1_classifications"}),
    Needed(<<"sw_members", "market_index", "benchmark_weight">>, {}),
    Optional(<<"sw_daily">>, {})>>

\* The technical snapshot comes first.
SentimentFlowStages ==
  Append(TechnicalStages,
         Optional(<<"stock_flow_ths", "stock_flow_dc", "industry_flow_ths", "market_flow_dc",
                    "hsgt_flow", "limit_list", "margin_sse", "margin_szse">>,
                  {"stock_flow_ths", "stock_flow_dc", "industry_flow_ths", "market_flow_dc",
                   "hsgt_flow", "limit_list"}))

FundamentalStages ==
  LET analytic == <<"daily_valuation", "earnings_forecast", "earnings_express",
                    "financial_indicators_current", "financial_indicators_comparison",
                    "macro_gdp", "macro_monthly", "rate_shibor", "rate_lpr", "rate_us_treasury">>
  IN <<Needed(<<"trade_calendar">>, {"trade_calendar"}),
       Optional(<<"stock_basic">> \o analytic, {analytic[n] : n \in DOMAIN analytic})>>

EventStages ==
  <<Optional(<<"market_news", "stock_catalog", "announcements", "sell_side_reports",
               "broker_recommendations">>, {})>>

SnapshotPlan ==
  [get_daily_technical_market_snapshot |-> TechnicalStages,
   get_daily_sentiment_flow_snapshot   |-> SentimentFlowStages,
   get_daily_fundamental_snapshot      |-> FundamentalStages,
   get_daily_event_snapshot            |-> EventStages]

-----------------------------------------------------------------------------
(* Tools which store what they get, by the variants their arguments make.  *)

PricePlan ==
  [stock_price_daily  |-> <<"price_bars", "adjustment_factors", "daily_valuation_and_turnover",
                            "price_limits", "suspensions", "trade_calendar">>,
   stock_price_weekly |-> <<"price_bars", "adjustment_factors">>,
   index_market       |-> <<"index_price_bars", "index_daily_metrics">>,
   industry_market    |-> <<"index_price_bars">>,
   fund_market        |-> <<"fund_price_bars", "fund_adjustment_factors", "etf_share_history">>,
   fund_market_raw    |-> <<"fund_price_bars">>]

-----------------------------------------------------------------------------
(* Plain tools.                                                            *)

CommonPlan ==
  [resolve_stock_identity |-> <<"stock_basic", "name_history">>,
   get_trade_calendar     |-> <<"trade_calendar">>]

FundamentalPlan ==
  [get_financial_statements    |-> <<"income_statement", "balance_sheet", "cash_flow_statement">>,
   get_financial_quality       |-> <<"financial_indicators", "business_composition", "audit_opinion">>,
   get_earnings_and_disclosure |-> <<"earnings_forecast", "earnings_express", "disclosure_schedule">>,
   get_dividend_and_ownership_context |->
     <<"dividends", "top_holders", "top_floating_holders", "holder_counts">>,
   get_pledge_risk_context     |-> <<"pledge_statistics", "pledge_details">>,
   get_valuation_context       |-> <<"daily_valuation">>,
   get_china_macro_context     |-> <<"gdp", "cn_cpi", "cn_m", "cn_pmi", "cn_ppi", "sf_month">>,
   get_interest_rate_context   |-> <<"interest_rate_series">>]

SentimentFlowPlan ==
  [get_capital_flow_context |->
     <<"northbound_holdings", "stock_margin_detail", "margin_eligibility", "market_margin_summary">>,
   get_unusual_trading_activity |-> <<"block_trades", "top_list", "top_institutions">>,
   get_stock_active_money_flow_context |-> <<"moneyflow_ths", "moneyflow_dc">>]

EventPlan ==
  [search_market_news |->
     <<"market_news_eastmoney", "market_news_ths", "market_news_cls">>,
   get_targeted_news_and_disclosures |-> <<"stock_news", "stock_announcements">>,
   get_corporate_action_events       |-> <<"repurchase_events", "unlock_events", "holder_trades", "dividends">>,
   get_sell_side_research_context    |-> <<"sell_side_reports", "broker_recommendations">>,
   get_economic_calendar             |-> <<"economic_calendar">>]
=============================================================================
