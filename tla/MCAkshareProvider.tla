--------------------------- MODULE MCAkshareProvider -------------------------
(***************************************************************************)
(* Instance of AkshareProvider for TLC: with four queries and two threads  *)
(* two queries can hang while two wait for their slots.                    *)
(***************************************************************************)
EXTENDS AkshareProvider
=============================================================================
