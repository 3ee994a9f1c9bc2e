-------------------------------- MODULE TestLog --------------------------------
(***************************************************************************)
(* The log of a test suite (testing: TestLog, TestRecorder,                *)
(* TestExpression, TestSuiteDriver).  The driver makes a region of         *)
(* entries, all UNKNOWN, and a one-element region for the abort state,     *)
(* runs the suite's task on them and then the task that prints them.  The  *)
(* suite records results through a recorder, and hands the log to          *)
(* sub-tasks with recorders of their own: the UNKNOWN rest in equal parts  *)
(* (utTestLog.cc, utMS.cc), or the whole log to one after the other, after *)
(* which it goes on itself (utTable.cc).                                   *)
(*                                                                         *)
(* Tasks reach the abort state by a reduction: a recorder reads the        *)
(* reduction instance of its own task, which may be new (FALSE) or one     *)
(* that an earlier task has reduced into, as the mapper pleases.           *)
(***************************************************************************)
EXTENDS Integers, Sequences, FiniteSets, FiniteSetsExt

CONSTANTS
    Length,   \* the entries of the log
    Top,      \* the task of the suite
    Subs,     \* its sub-tasks
    Atoms,    \* what the parts of a test's expression may do
    NoName,   \* the name of an entry that was never written
    Careful   \* whether sub-tasks call update_position (those of utTable.cc that
              \*   get the whole log do not)

ASSUME TestLogAssumption ==
    /\ Length \in Nat \ {0}
    /\ Top \notin Subs
    /\ IsFiniteSet(Subs)
    /\ Atoms \subseteq {"TRUE", "FALSE", "throws"}
    /\ Careful \in BOOLEAN
    /\ NoName \notin ({Top} \cup Subs) \X Nat

VARIABLES
    log,         \* the entries of the log's region
    abortState,  \* the element of the abort state's region
    pc,          \* where each task is
    part,        \* the entries that each task was given
    at,          \* the position of each task's recorder; Length when at its end
    aborted,     \* m_aborted of each task's recorder
    instance,    \* the reduction instance of each task
    count,       \* how many results each task's tests have had
    report       \* the lines printed, each at its entry: <<>> until the report

vars == <<log, abortState, pc, part, at, aborted, instance, count, report>>

Tasks == {Top} \cup Subs

Points == 0 .. Length - 1

Blank == [state |-> "UNKNOWN", abort |-> FALSE, name |-> NoName]

TypeOK ==
    /\ log \in [Points -> [state : {"SUCCESS", "FAILURE", "SKIPPED", "UNKNOWN"},
                           abort : BOOLEAN,
                           name : {NoName} \cup (Tasks \X Nat)]]
    /\ abortState \in BOOLEAN
    /\ pc \in [Tasks -> {"none", "launched", "running", "waiting", "ended"}]
    /\ part \in [Tasks -> SUBSET Points]
    /\ at \in [Tasks -> 0 .. Length]
    /\ aborted \in [Tasks -> BOOLEAN]
    /\ instance \in [Tasks -> BOOLEAN]
    /\ count \in [Tasks -> Nat]
    /\ DOMAIN report \subseteq Points

--------------------------------------------------------------------------------
(* A log and its recorders.                                                *)

\* The first of a set of points, or the end.
First(S) == IF S = {} THEN Length ELSE Min(S)

\* Where ++ takes an iterator over the points p.
Next1(p, i) == First({j \in p : j > i})

GoPastPasses(p, i) == First({j \in p : j >= i /\ log[j].state # "SUCCESS"})

\* Where go_to_end takes it: to the first UNKNOWN entry from here on.
GoToEnd(p, i) == First({j \in p : j >= i /\ log[j].state = "UNKNOWN"})

\* The part of create_partition_by_log_state for UNKNOWN.
UnknownPart == {i \in Points : log[i].state = "UNKNOWN"}

\* create_equal_partition of the points p among the sub-tasks.
EqualParts(p) ==
    LET n == Cardinality(p)
        k == Cardinality(Subs)
        number == CHOOSE f \in [Subs -> 0 .. k - 1] : \A s, t \in Subs : s # t => f[s] # f[t]
        rank(i) == Cardinality({j \in p : j < i})
    IN  [s \in Subs |-> {i \in p : /\ rank(i) * k >= n * number[s]
                                   /\ rank(i) * k < n * (number[s] + 1)}]

\* What the parts of an expression come to; the second part is not looked at
\* when the first one decides.
Evaluated(op, l, r) ==
    CASE l = "throws" -> "throws"
      [] op = "or" -> IF l = "TRUE" THEN l ELSE r
      [] op = "and" -> IF l = "FALSE" THEN l ELSE r
      [] op = "eq" -> IF r = "throws" THEN r ELSE IF l = r THEN "TRUE" ELSE "FALSE"

Outcome(state, abort) == [state |-> state, abort |-> abort]

\* expect_bool, with assert for the assert_ forms.
ExpectBool(skip, value, expected, assert) ==
    IF skip THEN Outcome("SKIPPED", FALSE)
    ELSE IF value = expected THEN Outcome("SUCCESS", FALSE)
    ELSE Outcome("FAILURE", assert)

\* expect_throw and expect_no_throw evaluate the expression in any case.
ExpectThrow(value, thrown, assert) ==
    IF (value = "throws") = thrown THEN Outcome("SUCCESS", FALSE) ELSE Outcome("FAILURE", assert)

\* What append writes: after an abort, results are turned into SKIPPED.
Written(skip, r) ==
    IF ~skip \/ r.state = "SKIPPED" THEN r ELSE Outcome("SKIPPED", FALSE)

--------------------------------------------------------------------------------
Init ==
    /\ log = [i \in Points |-> Blank]
    /\ abortState = FALSE
    /\ pc = [t \in Tasks |-> IF t = Top THEN "launched" ELSE "none"]
    /\ part = [t \in Tasks |-> IF t = Top THEN Points ELSE {}]
    /\ at = [t \in Tasks |-> Length]
    /\ aborted = [t \in Tasks |-> FALSE]
    /\ instance = [t \in Tasks |-> FALSE]
    /\ count = [t \in Tasks |-> 0]
    /\ report = <<>>

UnsharedMapped(t) == \A u \in Tasks \ {t} : pc[u] \in {"running", "waiting"} => part[u] \cap part[t] = {}

\* The runtime runs a task when no other one has its entries.
Unshared(t) == \A u \in Tasks \ {t} : pc[u] = "running" => part[u] \cap part[t] = {}

\* A task begins: it makes a recorder of its log.
Start(t) ==
    /\ pc[t] = "launched"
    /\ Unshared(t)
    /\ \E seen \in {FALSE} \cup {instance[u] : u \in {u \in Tasks : pc[u] # "none"}} :
         /\ aborted' = [aborted EXCEPT ![t] = seen]
         /\ instance' = [instance EXCEPT ![t] = seen]
    /\ at' = [at EXCEPT ![t] =
         IF Careful /\ t # Top THEN GoToEnd(part[t], First(part[t])) ELSE First(part[t])]
    /\ pc' = [pc EXCEPT ![t] = "running"]
    /\ UNCHANGED <<log, abortState, part, count, report>>

AppendUnreduced(t, r) ==
    LET w == Written(aborted[t], r) IN
    /\ log' = [log EXCEPT ![at[t]] = [state |-> w.state, abort |-> w.abort, name |-> <<t, count[t] + 1>>]]
    /\ instance' = instance
    /\ aborted' = [aborted EXCEPT ![t] = @ \/ w.abort]
    /\ at' = [at EXCEPT ![t] = Next1(part[t], @)]
    /\ count' = [count EXCEPT ![t] = @ + 1]
    /\ UNCHANGED <<abortState, pc, part, report>>

\* append, in the state of task t's recorder.
Append1(t, r) ==
    LET w == Written(aborted[t], r) IN
    /\ log' = [log EXCEPT ![at[t]] = [state |-> w.state, abort |-> w.abort, name |-> <<t, count[t] + 1>>]]
    /\ instance' = [instance EXCEPT ![t] = @ \/ w.abort]
    /\ aborted' = [aborted EXCEPT ![t] = @ \/ w.abort]
    /\ at' = [at EXCEPT ![t] = Next1(part[t], @)]
    /\ count' = [count EXCEPT ![t] = @ + 1]
    /\ UNCHANGED <<abortState, pc, part, report>>

\* A suite makes its log long enough: nothing is recorded at its end.
Recording(t) ==
    /\ pc[t] = "running"
    /\ at[t] # Length

ExpectValue(t) ==
    /\ Recording(t)
    /\ \E op \in {"or", "and", "eq"}, l, r \in Atoms, expected \in {"TRUE", "FALSE"}, assert \in BOOLEAN :
         Append1(t, ExpectBool(aborted[t], Evaluated(op, l, r), expected, assert))

ExpectException(t) ==
    /\ Recording(t)
    /\ \E value \in Atoms, thrown \in BOOLEAN, assert \in BOOLEAN :
         Append1(t, ExpectThrow(value, thrown, assert))

\* append of a result that the test made itself.
AppendResult(t) ==
    /\ Recording(t)
    /\ \E state \in {"SUCCESS", "FAILURE", "SKIPPED"}, abort \in BOOLEAN :
         Append1(t, Outcome(state, abort))

\* The suite gives the UNKNOWN rest of the log to sub-tasks, in equal parts,
\* and is done.
LaunchOnParts ==
    /\ pc[Top] = "running"
    /\ \A s \in Subs : pc[s] = "none"
    /\ LET parts == EqualParts(UnknownPart) IN
       part' = [t \in Tasks |-> IF t = Top THEN part[t] ELSE parts[t]]
    /\ pc' = [t \in Tasks |-> IF t = Top THEN "ended" ELSE "launched"]
    /\ abortState' = (abortState \/ instance[Top])
    /\ UNCHANGED <<log, at, aborted, instance, count, report>>

\* The suite gives the whole log to some sub-tasks and unmaps it.
LaunchOnLog ==
    /\ pc[Top] = "running"
    /\ \E S \in SUBSET {s \in Subs : pc[s] = "none"} :
         /\ S # {}
         /\ pc' = [t \in Tasks |-> IF t \in S THEN "launched" ELSE IF t = Top THEN "waiting" ELSE pc[t]]
         /\ part' = [t \in Tasks |-> IF t \in S THEN part[Top] ELSE part[t]]
    /\ UNCHANGED <<log, abortState, at, aborted, instance, count, report>>

\* It maps the log again and updates the position of its recorder.
Resume ==
    /\ pc[Top] = "waiting"
    /\ \A s \in Subs : pc[s] \in {"none", "ended"}
    /\ pc' = [pc EXCEPT ![Top] = "running"]
    /\ at' = [at EXCEPT ![Top] = GoToEnd(part[Top], @)]
    /\ UNCHANGED <<log, abortState, part, aborted, instance, count, report>>

\* A task ends; the runtime folds its reduction into the abort state.
End(t) ==
    /\ pc[t] = "running"
    /\ pc' = [pc EXCEPT ![t] = "ended"]
    /\ abortState' = (abortState \/ instance[t])
    /\ UNCHANGED <<log, part, at, aborted, instance, count, report>>

\* What reporter_task prints: the entries that were written, in their order.
Lines == [i \in {i \in Points : log[i].state # "UNKNOWN"} |-> log[i]]

AllEnded == \A t \in Tasks : pc[t] \in {"none", "ended"}

Report ==
    /\ AllEnded
    /\ report = <<>>
    /\ report' = Lines
    /\ UNCHANGED <<log, abortState, pc, part, at, aborted, instance, count>>

Next ==
    \/ \E t \in Tasks : Start(t) \/ ExpectValue(t) \/ ExpectException(t) \/ AppendResult(t) \/ End(t)
    \/ LaunchOnParts
    \/ LaunchOnLog
    \/ Resume
    \/ Report

\* Tasks are run when they can, and end; the driver waits for nothing else.
Fairness ==
    /\ \A t \in Tasks : WF_vars(Start(t)) /\ WF_vars(End(t))
    /\ WF_vars(Resume)
    /\ WF_vars(Report)

Spec == Init /\ [][Next]_vars /\ Fairness

--------------------------------------------------------------------------------
(* The log, seen as the results that tests rely on.                        *)

ResultOf(e) == [by |-> e.name[1], nth |-> e.name[2], state |-> e.state, abort |-> e.abort]

Promise == INSTANCE TestReport WITH
    results <- {ResultOf(log[i]) : i \in {i \in Points : log[i].name # NoName}},
    printed <- {ResultOf(report[k]) : k \in DOMAIN report}

\* Through all the recorders of a careful suite, whatever its tasks and their order, no
\* result is lost, overwritten or written after an abort of its task without
\* being SKIPPED, and all of them are in the report.  Code: TestRecorder.h:48-64
\* and the launches of utTestLog.cc, utMS.cc and utTable.cc.
KeepsPromise == Promise!Spec

\* When all tasks have ended, the abort state, which is folded from reductions,
\* says whether one of the entries aborts, though no entry is looked at.
\* Code: TestLog.h:692 and the requirements of TestLog.cc:137-316.
AbortToldByEntries ==
    AllEnded => (abortState <=> \E i \in Points : log[i].abort)

\* A suite comes to its end and is reported, whatever its sub-tasks do, if it
\* recorded anything.  Code: TestSuiteDriver.cc:85-115, utTable.cc:600-623.
Reported == <>(AllEnded /\ (report # <<>> \/ Lines = <<>>))

================================================================================
