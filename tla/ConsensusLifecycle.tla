------------------------- MODULE ConsensusLifecycle -------------------------
(***************************************************************************)
(* What a formal negotiation promises about each proposal, whoever argues  *)
(* about it and however it is scored: a decision is taken once, by the     *)
(* gate or by the manager who withdraws, a decision slot has at most one   *)
(* winner, a proposal is rejected only for a winner, and only the last     *)
(* round leaves a proposal out for want of agreement.                      *)
(***************************************************************************)
EXTENDS Naturals

CONSTANTS
  Items,     \* the atomic proposals of both managers
  SlotOf,    \* the decision slot (conflict_group) each of them competes for
  MaxRounds  \* negotiation rounds before the undecided are left out

VARIABLES
  status,    \* ProposalStatus of each item
  round      \* debate_round

vars == <<status, round>>

Decided == {"AGREED", "REJECTED", "WITHDRAWN", "EXCLUDED"}
Status  == {"PROPOSED", "NEGOTIATING"} \cup Decided

Rivals(i) == {j \in Items \ {i} : SlotOf[j] = SlotOf[i]}

Init ==
  /\ status = [i \in Items |-> "PROPOSED"]
  /\ round = 0

\* What the gate may make of an item that no one has decided yet.
Ruling(i) ==
  \/ /\ status'[i] = "AGREED"
     /\ \A j \in Rivals(i) : status'[j] \in {"REJECTED", "WITHDRAWN"}
  \/ /\ status'[i] = "REJECTED"
     /\ \E j \in Rivals(i) : status'[j] = "AGREED"
  \/ status'[i] = "NEGOTIATING" /\ round < MaxRounds
  \/ status'[i] = "EXCLUDED" /\ round = MaxRounds

Gate ==
  /\ status' \in [Items -> Status]
  /\ \A i \in Items : IF status[i] \in Decided
                      THEN status'[i] = status[i]
                      ELSE Ruling(i)
  /\ UNCHANGED round

BeginRound ==
  /\ round < MaxRounds
  /\ \A i \in Items : status[i] # "PROPOSED"
  /\ \E i \in Items : status[i] = "NEGOTIATING"
  /\ round' = round + 1
  /\ UNCHANGED status

Withdraw ==
  /\ \A i \in Items : \/ status'[i] = status[i]
                      \/ status[i] = "NEGOTIATING" /\ status'[i] = "WITHDRAWN"
  /\ status' \in [Items -> Status]
  /\ round > 0
  /\ UNCHANGED round

Next == Gate \/ BeginRound \/ Withdraw

Spec == Init /\ [][Next]_vars

-----------------------------------------------------------------------------
\* At most one item of a slot is agreed, and its rivals are decided with it.
OneWinner ==
  \A i \in Items : status[i] = "AGREED" =>
    \A j \in Rivals(i) : status[j] \in {"REJECTED", "WITHDRAWN"}
=============================================================================
