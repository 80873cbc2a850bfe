-------------------------- MODULE MCRecommendations --------------------------
(***************************************************************************)
(* Three theses, two on the research target and one on a stock, two of     *)
(* which fit; drafts that are complete, cite the wrong thesis, miss a      *)
(* dimension, or have it on another target only.                           *)
(***************************************************************************)
EXTENDS Recommendations

MCSubject == [t \in Thesis |-> IF t = "stock_view" THEN "stock" ELSE "market"]

Item(target, dimension, cites) ==
  [target |-> target, dimension |-> dimension, cites |-> cites]

Core(target, cites) == {Item(target, dimension, cites) : dimension \in Required}

MCDraft ==
  {Core("market", {"view"}),
   Core("market", {"view", "stock_view"}) \cup {Item("stock", "ACTION", {"stock_view"})},
   Core("market", {"view"}) \cup {Item("stock", "ACTION", {"view"})},
   (Core("market", {"view"}) \ {Item("market", "RISK_CONTROL", {"view"})})
      \cup {Item("stock", "RISK_CONTROL", {"stock_view"})},
   Core("stock", {"stock_view"}),
   Core("market", {"view"}) \cup {Item("market", "ACTION", {"other_view"})}}
=============================================================================
