----------------------------- MODULE PagedQuery ------------------------------
(***************************************************************************)
(* The paging of the market-data services (BaseDataService._query of       *)
(* services/base.py) over the routed provider: a dataset is put together   *)
(* from pages that may come from the primary server, the backup server or  *)
(* the cache, and the service must return all of one snapshot or refuse.   *)
(*                                                                         *)
(* A task is one call of _query; several agents may ask for the same       *)
(* dataset at once, so that they share keys, cache and locks.  The key of  *)
(* a page is its offset.  A row is the source and the place it has there.  *)
(* Schema, as_of, row filters and deduplication are left out.              *)
(***************************************************************************)
EXTENDS ProviderRouting

CONSTANTS
  PageSize, MaxPages, MaxRows,  \* limits of the service
  Totals                        \* sizes a dataset may have

ASSUME PagingAssumption ==
  /\ PageSize \in Nat \ {0} /\ MaxPages \in Nat \ {0}
  /\ MaxRows \in Nat /\ MaxRows >= PageSize
  /\ Totals \subseteq Nat
  /\ Key = 0..MaxRows

VARIABLES
  upstream,  \* the dataset at the servers, and how the primary pages it
  rows,      \* received_rows
  pages,     \* the items of each page so far
  source,    \* pagination_source
  outcome    \* how the call ended

callVars == <<rows, pages, source, outcome>>
vars     == <<routingVars, upstream, callVars>>

Least(a, b) == IF a <= b THEN a ELSE b

\* total: rows at each server.  paged: supports_offset_pagination.  cap: rows the
\* primary sends at most.  has_more: what it says of further pages; one that says
\* nothing fills its pages.  ignores: it ignores the offset.
Upstreams ==
  {u \in [total: [{"PRIMARY", "BACKUP"} -> Totals], paged: BOOLEAN,
          cap: {1, PageSize}, has_more: {"exact", "absent", "always"}, ignores: BOOLEAN] :
     /\ u.has_more = "absent" => u.cap = PageSize
     /\ ~ u.paged => u.cap = PageSize /\ ~ u.ignores}

Init ==
  /\ RoutingInit
  /\ upstream \in Upstreams
  /\ rows = [t \in Task |-> <<>>]
  /\ pages = [t \in Task |-> <<>>]
  /\ source = [t \in Task |-> NoAnswer]
  /\ outcome = [t \in Task |-> "none"]

-----------------------------------------------------------------------------
(* What the servers send.                                                  *)

Snapshot(s) == [i \in 1..upstream.total[s] |-> <<s, i>>]

\* The backup is asked without limit and offset and sends everything.
First(offset) == IF upstream.ignores THEN 0 ELSE offset
Items(s, offset) ==
  IF s = "BACKUP" \/ ~ upstream.paged THEN Snapshot(s)
  ELSE SubSeq(Snapshot(s), First(offset) + 1, Least(First(offset) + upstream.cap, upstream.total[s]))

\* has_more of parse_provider_payload: as sent, or else guessed from a full page.
HasMore(s, offset) ==
  /\ s = "PRIMARY"
  /\ \/ upstream.has_more = "always"
     \/ /\ upstream.has_more = "exact"
        /\ First(offset) + Len(Items(s, offset)) < upstream.total[s]
     \/ /\ upstream.has_more = "absent" /\ upstream.paged
        /\ Len(Items(s, offset)) >= PageSize

-----------------------------------------------------------------------------

Start(t) ==
  /\ state[t] = "idle"
  /\ Ask(t, 0)
  /\ UNCHANGED <<upstream, callVars>>

\* Mutant: a page may follow a page of any source.
MutSwitched(t) == FALSE

Switched(t) == source[t] # NoAnswer /\ source[t] # answer[t]

\* seen_page_fingerprints.
Repeated(t, items) == items # <<>> /\ \E n \in DOMAIN pages[t] : pages[t][n] = items

\* Mutant: a call that reaches the row limit is refused, whether there is more or not.
MutRowLimit(t, items, more, received) ==
  IF Repeated(t, items) THEN "repeated"
  ELSE IF received >= MaxRows THEN "limit"
  ELSE IF ~ upstream.paged THEN IF more THEN "declared" ELSE "complete"
  ELSE IF ~ more THEN "complete"
  ELSE IF items = <<>> THEN "empty"
  ELSE IF Len(pages[t]) + 1 = MaxPages THEN "limit"
  ELSE "next"

\* What becomes of the call after a page, in the order the loop tests it.
Verdict(t, items, more, received) ==
  IF Repeated(t, items) THEN "repeated"
  ELSE IF received > MaxRows THEN "limit"
  ELSE IF ~ upstream.paged THEN IF more THEN "declared" ELSE "complete"
  ELSE IF ~ more THEN "complete"
  ELSE IF received >= MaxRows THEN "limit"
  ELSE IF items = <<>> THEN "empty"
  ELSE IF Len(pages[t]) + 1 = MaxPages THEN "limit"
  ELSE "next"

Finish(t, how) ==
  /\ Goto(t, "done")
  /\ outcome' = [outcome EXCEPT ![t] = how]
  /\ UNCHANGED <<key, answer, expires, holder, waiters, now>>

\* One pass of the loop over pages, from the answer to the next request.
NextPage(t) ==
  LET items   == Items(answer[t].provider, key[t])
      verdict == Verdict(t, items, HasMore(answer[t].provider, key[t]), Len(rows[t]) + Len(items))
  IN /\ state[t] = "answered"
     /\ IF Switched(t)
        THEN Finish(t, "switched") /\ UNCHANGED <<rows, pages, source>>
        ELSE /\ rows' = [rows EXCEPT ![t] = @ \o items]
             /\ pages' = [pages EXCEPT ![t] = Append(@, items)]
             /\ source' = [source EXCEPT ![t] = answer[t]]
             /\ IF verdict = "next"
                THEN Ask(t, key[t] + Len(items)) /\ UNCHANGED outcome
                ELSE Finish(t, verdict)
     /\ UNCHANGED upstream

\* The router's step of a task, and the errors that pass through the service.
RouteStep(t) == Route(t) /\ UNCHANGED <<upstream, callVars>>
CancelStep(t) == Cancel(t) /\ UNCHANGED <<upstream, callVars>>
TickStep == Tick /\ UNCHANGED <<upstream, callVars>>

Over(t) == state[t] \in {"done", "unavailable", "cancelled"}
Ended == (\A t \in Task : Over(t)) /\ UNCHANGED vars

Next ==
  \/ \E t \in Task : Start(t) \/ RouteStep(t) \/ NextPage(t) \/ CancelStep(t)
  \/ TickStep
  \/ Ended

\* The event loop runs every task that can run, and a request to a server ends by
\* its timeout; no one need be cancelled.
Fairness == \A t \in Task : WF_vars(RouteStep(t) \/ NextPage(t))

Spec == Init /\ [][Next]_vars /\ Fairness

-----------------------------------------------------------------------------

\* A dataset is all of one server's snapshot, in order, or there is none: nothing
\* is cut off, repeated or joined from two servers, whichever of the servers and
\* the cache answers each page, and if the primary ignores the offset, sends short
\* pages or claims that there is always more.
CompleteOrRefused ==
  \A t \in Task : outcome[t] = "complete" =>
    /\ rows[t] = Snapshot(source[t].provider)
    /\ Len(rows[t]) <= MaxRows

\* A dataset within the limits is refused for its size only where the service
\* cannot know better: it exceeds a limit, or meets it while the primary does not
\* say truly that there is nothing more.  If the primary always says that there is
\* more, the last page allowed is one too many even if it is not full.
LimitIsExact ==
  \A t \in Task : outcome[t] = "limit" =>
    LET total == upstream.total[source[t].provider]
    IN \/ total > MaxRows
       \/ /\ source[t] = Primary
          /\ \/ total > MaxPages * upstream.cap
             \/ upstream.has_more # "exact" /\ total \in {MaxRows, MaxPages * upstream.cap}
             \/ upstream.has_more = "always" /\ total > (MaxPages - 1) * upstream.cap

\* Every call ends: no task waits for ever for a lock, whoever fails or is
\* cancelled before it, and no dataset is paged for ever.
EveryCallEnds == \A t \in Task : state[t] = "primary" ~> Over(t)
=============================================================================
