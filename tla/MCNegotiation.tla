---------------------------- MODULE MCNegotiation ----------------------------
(***************************************************************************)
(* Instance of Negotiation for TLC: a slot both managers compete for and   *)
(* one that only the aggressive manager makes a proposal for, both         *)
(* required.  The scores allow a proposal to pass against a mild objection *)
(* (2 against -1), to fail on it (1 against -1) and to be vetoed (-4).      *)
(***************************************************************************)
EXTENDS Negotiation

MCItems == {<<"action", "AGGRESSIVE">>, <<"action", "CONSERVATIVE">>,
            <<"horizon", "AGGRESSIVE">>}

MCScore == {-4, -1, 1, 2}
=============================================================================
