--------------------------- MODULE MCEvidenceStages --------------------------
(***************************************************************************)
(* Instance of EvidenceStages for TLC: two of three domains have an agent, *)
(* a stage may research two requests and three may be queued.              *)
(***************************************************************************)
EXTENDS EvidenceStages

MCStages == <<"TECHNICAL", "EVENT">>
=============================================================================
