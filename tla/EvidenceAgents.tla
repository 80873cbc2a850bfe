---------------------------- MODULE EvidenceAgents ---------------------------
(***************************************************************************)
(* A run of any one of the four evidence agents, and what all of them have *)
(* to keep although each has its own code: evidence that is proved, tasks  *)
(* that are accounted for, and a budget of tool calls.                     *)
(***************************************************************************)
EXTENDS AgentFrame

CONSTANTS Related, Covered, Proxies, Sector, SectorIndex

ASSUME SymbolsAssumption ==
  /\ Related \subseteq Listed /\ Covered \in Listed
  /\ Len(Proxies) > 1 /\ IsInjective(Proxies)
  /\ {Market, Sector, SectorIndex} \cap (Stock \cup Range(Proxies)) = {}
  /\ Market \notin {Sector, SectorIndex} /\ Sector # SectorIndex
  /\ \A r \in Request["technical"] : DOMAIN r = {"stock", "checks", "bench", "named"}

Fundamental == INSTANCE FundamentalAgent
Event       == INSTANCE EventAgent
Sentiment   == INSTANCE SentimentFlowAgent
Technical   == INSTANCE TechnicalAgent

Init == Fundamental!Init \/ Event!Init \/ Sentiment!Init \/ Technical!Init

Next ==
  \/ agent = "fundamental"    /\ Fundamental!Next
  \/ agent = "event"          /\ Event!Next
  \/ agent = "sentiment_flow" /\ Sentiment!Next
  \/ agent = "technical"      /\ Technical!Next

Spec == Init /\ [][Next]_vars

-----------------------------------------------------------------------------

\* What the answer to a call is about, when it is an answer.
About(o) ==
  IF o.result \in {"failed", "too_large", "foreign", "denied"} THEN {}
  ELSE IF o.tool = "snapshot" THEN
    Listed \cup (IF agent = "technical" THEN {target} \cup Range(Proxies) ELSE {Market})
  ELSE IF o.uses # {} THEN {c.stock : c \in o.uses}
  ELSE {o.stock}

\* What is recorded about a target rests on answers of this run, each of them about
\* that target, or about the index that stands for it.  An item that two rows support
\* is cited with both and a clue is never cited.  In a verification run the target is
\* the one that was asked for, in the technical agent perhaps something it was to be
\* compared with.  A stock of the fundamental and the event agent is queried only
\* after its identity was confirmed.
EvidenceGrounded ==
  /\ \A d \in evidence :
       /\ d.cites \subseteq obs
       /\ \A o \in d.cites : (IF d.about = Sector THEN SectorIndex ELSE d.about) \in About(o)
       /\ agent = "event" => \A k \in d.keys :
            /\ k[1] \in d.cites /\ k[2] # "clue"
            /\ k[2] \in {"left", "right"} => {k[1]} \X {"left", "right"} \subseteq d.keys
       /\ mode = "VERIFICATION" =>
            \/ d.about = target
            \/ agent = "technical" /\ \E r \in seen : d.about \in {r.stock, r.bench}
  /\ agent \in {"fundamental", "event"} =>
       \A o \in obs : o.tool \notin {"snapshot", "identity"} =>
         \E i \in obs : i.tool = "identity" /\ i.stock = o.stock /\ i.result = "confirmed"

\* What an agent has to show for a task it worked on.
Researched(r) ==
  CASE agent = "fundamental"    -> Fundamental!Researched(r)
    [] agent = "event"          -> Event!Researched(r)
    [] agent = "sentiment_flow" -> Sentiment!Researched(r)
    [] agent = "technical"      -> Technical!Researched(r)

\* Every task that was ever accepted is waiting, researched to its end or recorded as
\* skipped, and a task is left waiting by the end of a run only with no call left.
\* A request is closed as stopped by the budget exactly when something was skipped, and
\* as completed exactly when there is evidence: a run that skipped something hands on
\* none.  It is lost, for such a run raises once a draft is proved.  Otherwise only the
\* technical agent raises, before it has any task.
EveryTaskAccounted ==
  /\ \A r \in seen : Researched(r) \/ r \in skipped \/ r \in Range(pending)
  /\ pc \in {"finalize", "done", "raised"} =>
       \A r \in Range(pending) : Researched(r) \/ count >= MaxCalls
  /\ mode = "VERIFICATION" /\ pc = "done" =>
       /\ status = "CANCELLED_BY_BUDGET" <=> skipped # {}
       /\ status = "COMPLETED" <=> evidence # {}
  /\ pc = "raised" =>
       /\ evidence = {} /\ status = "none"
       /\ \/ mode = "VERIFICATION" /\ skipped # {} /\ drafts # {}
          \/ agent = "technical" /\ seen = {}

\* The answers an agent uses again.
Reusable ==
  CASE agent = "fundamental"    -> Fundamental!Reusable
    [] agent = "event"          -> Event!Reusable
    [] agent = "sentiment_flow" -> Sentiment!Reusable
    [] agent = "technical"      -> Technical!Reusable

Repeats(o, p) ==
  /\ o.tool = p.tool /\ o.stock = p.stock /\ o.uses = p.uses /\ o.tool # "snapshot"
  /\ o.round < p.round \/ (o.round = p.round /\ o.position < p.position)

\* A call whose answer can be used is not made again, and a run makes no more calls
\* than its limit.  The fundamental agent exceeds it, by no more than the failed calls
\* which later tasks of the same round repeated.
BudgetKept ==
  /\ \A o, p \in obs : Repeats(o, p) => o.result \notin Reusable
  /\ count <= MaxCalls +
       (IF agent # "fundamental" THEN 0
        ELSE Cardinality({p \in obs : \E o \in obs : Repeats(o, p) /\ o.round = p.round}))

Compared(r, stock) == "relative_strength" \in Range(r.checks) /\ r.bench = stock

\* A request is reported as searched without a finding only if what was searched did
\* answer.  The event agent, and the technical agent beyond the prices of an
\* instrument that is no benchmark, do not count a failed call as an error.
NothingFoundWasSearched ==
  status = "NO_NEW_EVIDENCE" =>
    /\ obs # {} /\ ~ exhausted /\ skipped = {}
    /\ \A o \in obs : o.result = "failed" =>
         \/ agent = "event" /\ o.tool # "identity"
         \/ agent = "technical" /\ (o.tool = "context" => \E r \in seen : Compared(r, o.stock))

\* models.py says of each agent's limits that they are hard, and that no model's answer
\* gets round them: a run makes at most max_total_tool_calls calls.
CallsWithinBudget == count <= MaxCalls

\* docs/technical-agent-v1.md says that at the end of a run its request is updated, as
\* CANCELLED_BY_BUDGET if the budget did not suffice for a task: the run ends with it.
RequestIsUpdated == mode = "VERIFICATION" /\ skipped # {} => pc # "raised"
=============================================================================
