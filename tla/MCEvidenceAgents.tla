--------------------------- MODULE MCEvidenceAgents --------------------------
(* Two stocks and two queries for each agent; tasks share calls.           *)
EXTENDS EvidenceAgents

CONSTANTS s1, s2, i1, i2

Queries(a, b) ==
  {[stock |-> s1, checks |-> <<a>>], [stock |-> s1, checks |-> <<a, b>>],
   [stock |-> s2, checks |-> <<b>>]}

Traded(stock, checks, day_allowed, exchange) ==
  [stock |-> stock, checks |-> checks, day_allowed |-> day_allowed, exchange |-> exchange]

Prices(stock, checks, bench, named) ==
  [stock |-> stock, checks |-> checks, bench |-> bench, named |-> named]

MCRequest ==
  [fundamental |-> Queries("valuation", "pledge"),
   event |-> Queries("news", "reports"),
   sentiment_flow |->
     {Traded(s1, <<"positioning">>, TRUE, TRUE),
      Traded(s1, <<"positioning", "unusual">>, FALSE, TRUE),
      Traded(s2, <<"unusual", "positioning">>, TRUE, FALSE)},
   technical |->
     {Prices(s1, <<"momentum">>, "none", TRUE),
      Prices(s1, <<"relative_strength", "momentum">>, Market, TRUE),
      Prices(Market, <<"momentum">>, "none", TRUE),
      Prices(SectorIndex, <<"momentum">>, s2, FALSE),
      Prices(SectorIndex, <<"momentum">>, "none", TRUE),
      Prices(i1, <<"relative_strength">>, i1, TRUE)}]

MCProxies == <<i1, i2>>
=============================================================================
