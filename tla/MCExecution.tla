----------------------------- MODULE MCExecution -----------------------------
(***************************************************************************)
(* Executions: the slots they wait for and the rows they leave             *)
(* (ExecutionLifecycle), or an extraction in one of them                   *)
(* (ExtractionPipeline).  A behaviour is one of the two and leaves the     *)
(* variables of the other as they are.                                     *)
(***************************************************************************)
EXTENDS ExecutionLifecycle, ExtractionPipeline

CONSTANTS e1, e2, e3, p1

\* e1 and e2 belong to one project, e3 to none.
TwoOfOneProject == [e \in Executions |-> IF e = e3 THEN NoProject ELSE p1]

\* The keys -1 and 0, 1, 2: an odd interval around zero, one and three rows.
Whole == [parts |-> 2, cut |-> ExactCuts(-1, 2, 2), spill |-> TRUE,
          maxRows |-> Unlimited, cancel |-> "never"]
\* A time, whose ends are rounded to whole microseconds: two rows and two; the
\* limit falls inside a batch, and the caller may cancel.
Limited == [Whole EXCEPT !.cut = [i \in 0..2 |-> <<-1, 1, 2>>[i + 1]], !.spill = FALSE,
                         !.maxRows = 3, !.cancel = "wired"]
\* As sql_database calls it: the execution may be cancelled and the flag stays.
Unwired == [Whole EXCEPT !.cut = ExactCuts(0, 1, 2), !.cancel = "unwired"]
\* A key that cannot be divided: one connection reads it all, in two batches; the
\* caller may cancel.
Single == [Whole EXCEPT !.parts = 1, !.cut = ExactCuts(0, 3, 1), !.cancel = "wired"]
\* More partitions than values, and more than the queue has slots.
Crowded == [Whole EXCEPT !.parts = 3, !.cut = ExactCuts(0, 1, 3), !.spill = FALSE]

Calls == {Whole, Limited, Unwired, Single, Crowded}
FullHouse == {Crowded}

-----------------------------------------------------------------------------
VARIABLE part
allVars == <<part, lifecycleVars, vars>>

ExecutionInit ==
    /\ part \in {"slots", "extraction"}
    /\ LifecycleInit /\ Init
    /\ part = "slots" => setup = CHOOSE s \in Setups : TRUE

ExecutionNext ==
    \/ part = "slots" /\ LifecycleNext /\ UNCHANGED <<part, vars>>
    \/ part = "extraction" /\ Next /\ UNCHANGED <<part, lifecycleVars>>

\* The fairness of each, for its own part.
ExecutionFairness ==
    /\ \A e \in Executions : WF_lifecycleVars(part = "slots" /\ Progress(e))
    /\ \A p \in Parts : WF_vars(part = "extraction" /\ ProducerStep(p) /\ UNCHANGED setup)
    /\ WF_vars(part = "extraction" /\ ConsumerStep /\ UNCHANGED setup)
    /\ WF_vars(part = "extraction" /\ MainStep /\ UNCHANGED setup)

ExecutionSpec == ExecutionInit /\ [][ExecutionNext]_allVars /\ ExecutionFairness

\* An extraction comes to its end, but for the reasons named there
\* (ExtractionPipeline).
ExtractionEnds == part = "extraction" => Ends
=============================================================================
