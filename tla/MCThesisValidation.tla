------------------------- MODULE MCThesisValidation -------------------------
(***************************************************************************)
(* Instances of ThesisValidation for TLC.  Stock A is the thesis target, B *)
(* an index the technical agent may add as a benchmark.                    *)
(***************************************************************************)
EXTENDS ThesisValidation

Ev(id, target, domain, decisive, admissible) ==
  [id |-> id, target |-> target, domain |-> domain, decisive |-> decisive,
   admissible |-> admissible]

\* One decisive and one undecided record about A, a benchmark record, a record
\* the Collector refuses, and a second version of the first.
MCRecords == {Ev("e1", "A", "TECHNICAL", TRUE, TRUE), Ev("e2", "A", "EVENT", FALSE, TRUE),
              Ev("e3", "B", "TECHNICAL", TRUE, TRUE), Ev("e4", "A", "TECHNICAL", TRUE, FALSE),
              Ev("e1", "A", "TECHNICAL", FALSE, TRUE)}

Draft1(target, text, supporting, contradicting) ==
  [target |-> target, text |-> text, supporting |-> supporting,
   contradicting |-> contradicting]

MCDrafts == {Draft1("A", "rise", {"e1"}, {}), Draft1("A", "slump", {"e2"}, {"e1"})}

Ask(fingerprint, domain, late) ==
  [fingerprint |-> fingerprint, domain |-> domain, target |-> "A", beyondAsOf |-> late]

\* An answerable technical and event request, one without an executor, and a
\* question about the future.
MCRequestDrafts == {Ask("f1", "TECHNICAL", FALSE), Ask("f2", "EVENT", FALSE),
                    Ask("f3", "FUNDAMENTAL", FALSE), Ask("f1", "EVENT", TRUE)}

Judge(status, supporting, contradicting) ==
  [status |-> status, supporting |-> supporting, contradicting |-> contradicting]

\* Verdicts with and without the evidence they need; "ghost" is invented.
MCFinalizations == {Judge("SUPPORTED", {"e1"}, {}), Judge("SUPPORTED", {"e3"}, {}),
                    Judge("REFUTED", {}, {"e1"}), Judge("MIXED", {"e1"}, {"e2"}),
                    Judge("INCONCLUSIVE", {"ghost"}, {})}
=============================================================================
