------------------------------ MODULE TestReport ------------------------------
(***************************************************************************)
(* What the test log promises to the tests that record in it: a result,    *)
(* once recorded, stays as it is until the report; the results of one task *)
(* that follow a result that aborts are SKIPPED; and the report, printed   *)
(* once, has every result.  TestLog implements this with a region of       *)
(* entries, recorders that walk it, and a reduction for the abort.         *)
(***************************************************************************)
EXTENDS Naturals, FiniteSets

CONSTANT Tasks

VARIABLES
    results,  \* the results recorded so far
    printed   \* {} until the report, then what it has

vars == <<results, printed>>

States == {"SUCCESS", "FAILURE", "SKIPPED"}

Result == [by : Tasks, nth : Nat, state : States, abort : BOOLEAN]

TypeOK ==
    /\ results \subseteq Result
    /\ printed \subseteq Result

Of(t) == {r \in results : r.by = t}

Init ==
    /\ results = {}
    /\ printed = {}

Record(t) ==
    /\ printed = {}
    /\ \E state \in States, abort \in BOOLEAN :
         /\ (\E r \in Of(t) : r.abort) => state = "SKIPPED"
         /\ results' = results \cup {[by |-> t, nth |-> Cardinality(Of(t)) + 1, state |-> state, abort |-> abort]}
    /\ UNCHANGED printed

Report ==
    /\ printed = {}
    /\ printed' = results
    /\ UNCHANGED results

Next ==
    \/ \E t \in Tasks : Record(t)
    \/ Report

Spec == Init /\ [][Next]_vars

===============================================================================
