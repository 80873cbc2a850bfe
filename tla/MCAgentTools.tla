----------------------------- MODULE MCAgentTools ----------------------------
(***************************************************************************)
(* Instance of AgentTools for TLC: either two calls that store one query,  *)
(* and a calculator which compares them, or a call of one of the kinds and *)
(* a calculator.  Each way a query may end is there for some query of each *)
(* sort of stage.                                                          *)
(***************************************************************************)
EXTENDS AgentTools, TLC

CONSTANTS t1, t2, t3

MCOutcomes ==
  [trade_calendar |-> {"rows", "empty"}, daily_bars |-> {"rows", "empty", "failed"},
   daily_limits   |-> {"rows", "cancelled"}, sw_daily |-> {"rows", "failed"},
   limit_list     |-> {"rows", "empty"}, margin_sse |-> {"rows"},
   macro_gdp      |-> {"rows", "empty", "failed"},
   market_news    |-> {"rows", "empty", "failed"}, announcements |-> {"empty", "cancelled"},
   stock_catalog  |-> {"rows", "empty"},
   moneyflow_ths  |-> {"rows", "empty", "failed"}, moneyflow_dc |-> {"empty", "cancelled"},
   price_bars     |-> {"rows", "failed"}, price_limits |-> {"empty", "failed"},
   index_price_bars |-> {"rows", "failed"}]

MCMixes ==
  {(t1 :> "industry_market") @@ (t2 :> "industry_market") @@ (t3 :> "calculate_relative_strength")} \cup
  {(t1 :> k) @@ (t2 :> "none") @@ (t3 :> "calculate_risk_and_tradability") :
     k \in DOMAIN SnapshotPlan \cup
           {"stock_price_daily", "stock_price_weekly", "get_stock_active_money_flow_context"}}

MCAsOf == [r1 |-> {"monday", "tuesday"}, r2 |-> {"monday"}]
=============================================================================
