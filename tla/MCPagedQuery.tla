----------------------------- MODULE MCPagedQuery ----------------------------
(***************************************************************************)
(* Instance of PagedQuery for TLC: two callers of one dataset, pages of    *)
(* two rows, at most six rows and three pages.  The sizes lie below, at    *)
(* and above the limits, five being a last page that is not full; the      *)
(* backup sends all it has at once, which may be little, the limit or more.*)
(* A cache entry lives for one tick of the clock.                          *)
(* Where the servers are plain a third caller joins them, so that two can  *)
(* queue for a lock and be cancelled there.                                *)
(***************************************************************************)
EXTENDS PagedQuery

CONSTANT Third  \* who asks only where the servers are plain

MCKey    == 0..MaxRows
MCTotals == {0, 2, 5, 6, 7}

Plain ==
  [total |-> [s \in {"PRIMARY", "BACKUP"} |-> IF s = "PRIMARY" THEN 2 ELSE 6],
   paged |-> TRUE, cap |-> 1, has_more |-> "exact", ignores |-> FALSE]

MCInit ==
  /\ Init
  /\ \A t \in Task \ {Third} : state[t] = "idle"
  /\ upstream.total["BACKUP"] \in {2, 6, 7}
  /\ upstream = Plain \/ state[Third] = "done"

MCSpec == MCInit /\ [][Next]_vars /\ Fairness
=============================================================================
