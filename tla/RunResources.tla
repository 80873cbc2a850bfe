------------------------------ MODULE RunResources ---------------------------
(***************************************************************************)
(* What the tools of a research run share: the contexts that               *)
(* RunScopedToolResourceManager makes and gives up (runtime/               *)
(* application.py), and the data store that keeps the full data behind the *)
(* references which models see (research_data/store.py).                   *)
(*                                                                         *)
(* The manager has a lock, which cleanup keeps while it waits for the      *)
(* store and aclose does not.  Every await is taken for one at which other *)
(* tasks may run, as it is with any ResearchDataStore.                     *)
(***************************************************************************)
EXTENDS Integers, Sequences, FiniteSets

CONSTANTS
  Run,         \* run ids
  AsOf,        \* of each run, the cut-off times that callers name
  MaxContexts  \* bound of the contexts made


NoRun     == "none"
NoContext == 0

ASSUME RunAssumption ==
  IsFiniteSet(Run) /\ NoRun \notin Run /\ DOMAIN AsOf = Run /\ MaxContexts \in Nat

VARIABLES
  made,      \* the contexts made so far, each a run and its cut-off
  current,   \* _resources: of each run, the place of its context in made
  cleaning,  \* the run whose cleanup has the lock and waits for the store
  runtime,   \* "open"; "closing" once _closed is set; "closed" when all is released
  released,  \* _closed of the manager
  closing,   \* run_ids which aclose has still to clean
  entries    \* the store: what was put there, for which run, by which context

resourceVars == <<made, current, cleaning, runtime, released, closing, entries>>


ResourcesInit ==
  /\ made = <<>>
  /\ current = [r \in Run |-> NoContext]
  /\ cleaning = NoRun
  /\ runtime = "open" /\ released = FALSE /\ closing = {}
  /\ entries = {}

-----------------------------------------------------------------------------
(* The manager.                                                            *)

\* resolve, when it makes a context.  The context it finds is not made again, and
\* another cut-off than that one's is refused: neither changes anything.
Resolve(r, asOf) ==
  /\ cleaning = NoRun /\ ~ released /\ current[r] = NoContext
  /\ Len(made) < MaxContexts
  /\ made' = Append(made, [run |-> r, as_of |-> asOf])
  /\ current' = [current EXCEPT ![r] = Len(made) + 1]
  /\ UNCHANGED <<cleaning, runtime, released, closing, entries>>

Stored(r) == {e \in entries : e.run = r}

\* Mutant: the context of the run is kept.
MutBeginCleanup(r) ==
  /\ cleaning = NoRun
  /\ current[r] # NoContext \/ Stored(r) # {}
  /\ cleaning' = r
  /\ UNCHANGED <<made, current, runtime, released, closing, entries>>

\* cleanup up to the call of the store.  It is left out where it has nothing to do.
BeginCleanup(r) ==
  /\ cleaning = NoRun
  /\ current[r] # NoContext \/ Stored(r) # {}
  /\ current' = [current EXCEPT ![r] = NoContext]
  /\ cleaning' = r
  /\ UNCHANGED <<made, runtime, released, closing, entries>>

\* InMemoryResearchDataStore.cleanup, and the lock is given back.
EndCleanup ==
  /\ cleaning # NoRun
  /\ entries' = entries \ Stored(cleaning)
  /\ cleaning' = NoRun
  /\ UNCHANGED <<made, current, runtime, released, closing>>

\* ResearchRuntime.aclose, for the first of its callers.
Close ==
  /\ runtime = "open"
  /\ runtime' = "closing"
  /\ UNCHANGED <<made, current, cleaning, released, closing, entries>>

\* Mutant: the runs are listed after they were given up.
MutRelease ==
  /\ runtime = "closing" /\ ~ released /\ cleaning = NoRun
  /\ released' = TRUE
  /\ closing' = {}
  /\ current' = [r \in Run |-> NoContext]
  /\ UNCHANGED <<made, cleaning, runtime, entries>>

\* RunScopedToolResourceManager.aclose, under the lock.
Release ==
  /\ runtime = "closing" /\ ~ released /\ cleaning = NoRun
  /\ released' = TRUE
  /\ closing' = {r \in Run : current[r] # NoContext}
  /\ current' = [r \in Run |-> NoContext]
  /\ UNCHANGED <<made, cleaning, runtime, entries>>

\* And after it, one run at a time.
CleanNext ==
  /\ \E r \in closing :
       /\ closing' = closing \ {r}
       /\ entries' = entries \ Stored(r)
  /\ UNCHANGED <<made, current, cleaning, runtime, released>>

\* The exit stack: the news provider and the HTTP client.
CloseConnections ==
  /\ runtime = "closing" /\ released /\ closing = {}
  /\ runtime' = "closed"
  /\ UNCHANGED <<made, current, cleaning, released, closing, entries>>

\* What others ask of the manager, and how it goes on with what was asked.
Requested == (\E r \in Run : BeginCleanup(r) \/ \E a \in AsOf[r] : Resolve(r, a)) \/ Close
GoesOn    == EndCleanup \/ Release \/ CleanNext \/ CloseConnections

-----------------------------------------------------------------------------
(* The store.  An entry is late if the context it was put with had been    *)
(* given up by then.                                                       *)

Put(ref, context, data) ==
  entries' = entries \cup
    {[ref |-> ref, context |-> context, run |-> made[context].run, as_of |-> made[context].as_of,
      data |-> data, late |-> current[made[context].run] # context]}

\* get finds a reference, and only for the run it belongs to.  For who reads it with a
\* context that was given up it is late as well.
Got(context, ref) ==
  {[e EXCEPT !.late = @ \/ current[e.run] # context] :
     e \in {f \in entries : f.ref = ref /\ f.run = made[context].run}}
=============================================================================
