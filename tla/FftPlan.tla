------------------------------ MODULE FftPlan ------------------------------
(* In-place Fourier transforms of table columns (synthesis/FFT.h, FFT.cc).   *)
(*                                                                           *)
(* FFTW's planner keeps process-wide state, its wisdom and its time limit,   *)
(* which the code guards with a spin lock. A transform is a chain of         *)
(* sub-tasks: create a plan, perhaps rotate the array, execute the plan,     *)
(* perhaps rotate it back; they follow each other because they use the same  *)
(* region. A further sub-task, started by the future of the execution,       *)
(* destroys the plan while the chain goes on. Each transform therefore has   *)
(* two workers, its chain and its destroyer, that may be in the planner.     *)
(*                                                                           *)
(* Mutex::lock tests the flag m_count times, then yields once and returns,   *)
(* with the lock or without it. Whether the tests outlast the section of the *)
(* holder is up to the scheduler, so a worker that finds the flag set may    *)
(* run out of them; spinning itself changes nothing and is not a step. Once  *)
(* a worker goes on without the lock FFTW's planner may be entered twice at  *)
(* a time, and what it then answers is any of the answers it can give.       *)
EXTENDS Integers, Sequences, FiniteSets

CONSTANTS
  Transform,    \* the FFT::in_place tasks
  Shape         \* what a plan is made for: extents, strides, sign, flags

(* FFT::Args, as far as it decides what the tasks do. A negative number of   *)
(* seconds leaves the planner's time limit as it is.                         *)
Args == [shape : Shape, wisdom_only : BOOLEAN, seconds : Int,
         rotate_in : BOOLEAN, rotate_out : BOOLEAN]

CONSTANT Requests

ASSUME RequestsAssumption == Requests \subseteq Args

VARIABLES
  args,       \* the arguments of every transform
  pc,         \* where every worker is
  locked,     \* Mutex::m_lock
  exhausted,  \* has a worker ever run out of the tests of Mutex::acquire?
  wisdom,     \* shapes the planner knows a plan for
  timelimit,  \* the planner's time limit, NoLimit before anyone sets one
  measured,   \* the time limit under which a transform had a new plan made
  plan,       \* the plan of every transform
  array       \* what has been done to the array of every transform

vars ==
  <<args, pc, locked, exhausted, wisdom, timelimit, measured, plan, array>>

NoLimit == -1
NotMeasured == -2

Chain(t) == <<t, "chain">>
Destroyer(t) == <<t, "destroyer">>
Worker == Transform \X {"chain", "destroyer"}

(* The program points inside the section the mutex guards.                   *)
Section == {"wisdom", "scratch", "retry", "destroy", "unlock"}
Inside(w) == pc[w] \in Section
Steps == Section \cup
  {"lock", "yield", "rotate_in", "execute", "rotate_out", "wait", "done"}

---------------------------------------------------------------------------

Init ==
  /\ args \in [Transform -> Requests]
  /\ pc = [w \in Worker |-> IF w[2] = "chain" THEN "lock" ELSE "wait"]
  /\ locked = FALSE
  /\ exhausted = FALSE
  /\ wisdom = {}
  /\ timelimit = NoLimit
  /\ measured = [t \in Transform |-> NotMeasured]
  /\ plan = [t \in Transform |-> "none"]
  /\ array = [t \in Transform |-> <<>>]

Goto(w, step) == pc' = [pc EXCEPT ![w] = step]

(* The point after the lock is taken, and the one after it is released.      *)
Enter(w) == IF w[2] = "chain" THEN "wisdom" ELSE "destroy"
Leave(w) == IF w[2] = "chain" THEN "rotate_in" ELSE "done"

(* Mutant: the flag is set without a look at what it was.                    *)
FlagUnread == TRUE

(* Mutex::lock: test_and_set finds the flag clear and sets it ...            *)
Free == ~locked

Acquire(w) ==
  /\ pc[w] = "lock"
  /\ Free
  /\ locked' = TRUE
  /\ Goto(w, Enter(w))
  /\ UNCHANGED <<args, exhausted, wisdom, timelimit, measured, plan, array>>

(* ... or finds it set m_count times: lock yields to the runtime ...         *)
RunOut(w) ==
  /\ pc[w] = "lock"
  /\ ~Free
  /\ exhausted' = TRUE
  /\ Goto(w, "yield")
  /\ UNCHANGED <<args, locked, wisdom, timelimit, measured, plan, array>>

(* ... and then returns to a caller that goes on as if it held the lock.     *)
Resume(w) ==
  /\ pc[w] = "yield"
  /\ Goto(w, Enter(w))
  /\ UNCHANGED <<args, locked, exhausted, wisdom, timelimit, measured, plan,
                 array>>

Unlock(w) ==
  /\ pc[w] = "unlock"
  /\ locked' = FALSE
  /\ Goto(w, Leave(w))
  /\ UNCHANGED <<args, exhausted, wisdom, timelimit, measured, plan, array>>

---------------------------------------------------------------------------
(* fftw_create_plan.                                                         *)

(* What make_plan returns with FFTW_WISDOM_ONLY: a plan if there is wisdom   *)
(* for it. The array it is given is not written. With another worker in the  *)
(* planner it may miss the wisdom or find what is not there.                 *)
Alone(w) == \A x \in Worker : Inside(x) => x = w

FromWisdom(t) ==
  IF Alone(Chain(t)) THEN {IF args[t].shape \in wisdom THEN "live" ELSE "null"}
                     ELSE {"live", "null"}

(* Mutant: the limit is set only while the planner has none.                 *)
NewLimitOnce(t) ==
  IF timelimit = NoLimit THEN args[t].seconds ELSE timelimit

(* set_timelimit, and a first plan on the transform's own array.             *)
NewLimit(t) == IF args[t].seconds >= 0 THEN args[t].seconds ELSE timelimit

TryWisdom(t) ==
  /\ pc[Chain(t)] = "wisdom"
  /\ timelimit' = NewLimit(t)
  /\ \E answer \in FromWisdom(t) :
       /\ plan' = [plan EXCEPT ![t] = answer]
       /\ Goto(Chain(t), IF answer = "null" /\ ~args[t].wisdom_only
                         THEN "scratch" ELSE "unlock")
  /\ UNCHANGED <<args, locked, exhausted, wisdom, measured, array>>

(* A new plan is made, and destroyed, on a buffer of its own: a planner      *)
(* without wisdom measures, and so overwrites the array it is given. The     *)
(* code counts on its leaving wisdom for that shape.                         *)
MakeOnScratch(t) ==
  /\ pc[Chain(t)] = "scratch"
  /\ wisdom' \in IF Alone(Chain(t)) THEN {wisdom \cup {args[t].shape}}
                                   ELSE SUBSET Shape
  /\ measured' = [measured EXCEPT ![t] = timelimit]
  /\ Goto(Chain(t), "retry")
  /\ UNCHANGED <<args, locked, exhausted, timelimit, plan, array>>

(* The same plan again on the transform's array; the code asserts that it    *)
(* gets one, and goes on without one where assertions are compiled out.      *)
RetryWisdom(t) ==
  /\ pc[Chain(t)] = "retry"
  /\ \E answer \in FromWisdom(t) : plan' = [plan EXCEPT ![t] = answer]
  /\ Goto(Chain(t), "unlock")
  /\ UNCHANGED <<args, locked, exhausted, wisdom, timelimit, measured, array>>

---------------------------------------------------------------------------
(* The rest of the chain, and the destroyer.                                 *)

Done(t, what) == array' = [array EXCEPT ![t] = Append(@, what)]

RotateIn(t) ==
  /\ pc[Chain(t)] = "rotate_in"
  /\ IF args[t].rotate_in THEN Done(t, "rotate") ELSE UNCHANGED array
  /\ Goto(Chain(t), "execute")
  /\ UNCHANGED <<args, locked, exhausted, wisdom, timelimit, measured, plan>>

(* fftw_execute: without a plan the array becomes NaN; a destroyed plan is   *)
(* freed memory, so whatever comes of it is not the transform.               *)
Result(t) ==
  CASE plan[t] = "live" -> "fft"
    [] plan[t] = "null" -> "nan"
    [] OTHER -> "garbage"

Execute(t) ==
  /\ pc[Chain(t)] = "execute"
  /\ Done(t, Result(t))
  /\ Goto(Chain(t), "rotate_out")
  /\ UNCHANGED <<args, locked, exhausted, wisdom, timelimit, measured, plan>>

RotateOut(t) ==
  /\ pc[Chain(t)] = "rotate_out"
  /\ IF args[t].rotate_out THEN Done(t, "rotate") ELSE UNCHANGED array
  /\ Goto(Chain(t), "done")
  /\ UNCHANGED <<args, locked, exhausted, wisdom, timelimit, measured, plan>>

(* Mutants: the destroyer waits for the plan only; it misses an execution    *)
(* that ended before it looked; it takes a caller that accepts no new plan   *)
(* to have none.                                                             *)
PlanReady(t) == pc[Chain(t)] \notin {"lock", "yield"} \cup Section
ExecutionSeen(t) == pc[Chain(t)] = "rotate_out"
AcceptsNone(t) == args[t].wisdom_only

(* The futures the destroyer waits for: the plan, and the execution's rc.    *)
FuturesReady(t) == pc[Chain(t)] \in {"rotate_out", "done"}

(* fftw_destroy_plan: nothing to do, and no lock to take, without a plan.    *)
NoPlan(t) == plan[t] = "null"

StartDestroy(t) ==
  /\ pc[Destroyer(t)] = "wait"
  /\ FuturesReady(t)
  /\ Goto(Destroyer(t), IF NoPlan(t) THEN "done" ELSE "lock")
  /\ UNCHANGED <<args, locked, exhausted, wisdom, timelimit, measured, plan,
                 array>>

Destroy(t) ==
  /\ pc[Destroyer(t)] = "destroy"
  /\ plan' = [plan EXCEPT ![t] = "destroyed"]
  /\ Goto(Destroyer(t), "unlock")
  /\ UNCHANGED <<args, locked, exhausted, wisdom, timelimit, measured, array>>

---------------------------------------------------------------------------

ChainStep(t) ==
  \/ TryWisdom(t) \/ MakeOnScratch(t) \/ RetryWisdom(t)
  \/ RotateIn(t) \/ Execute(t) \/ RotateOut(t)

DestroyerStep(t) == StartDestroy(t) \/ Destroy(t)

LockStep(w) == Acquire(w) \/ RunOut(w) \/ Resume(w) \/ Unlock(w)

Finished == \A w \in Worker : pc[w] = "done"

Next ==
  \/ \E t \in Transform : ChainStep(t) \/ DestroyerStep(t)
  \/ \E w \in Worker : LockStep(w)

(* Every worker is a task that the runtime runs, so each of them goes on.    *)
Fairness ==
  /\ \A t \in Transform : WF_vars(ChainStep(t)) /\ WF_vars(DestroyerStep(t))
  /\ \A w \in Worker : WF_vars(LockStep(w))

Spec == Init /\ [][Next]_vars /\ Fairness

---------------------------------------------------------------------------

(* The type of every variable; no array holds the garbage of a plan that was *)
(* executed when it was gone.                                                *)
TypeOK ==
  /\ args \in [Transform -> Requests]
  /\ pc \in [Worker -> Steps]
  /\ locked \in BOOLEAN
  /\ exhausted \in BOOLEAN
  /\ wisdom \subseteq Shape
  /\ timelimit \in Int
  /\ measured \in [Transform -> Int]
  /\ plan \in [Transform -> {"none", "null", "live", "destroyed"}]
  /\ array \in [Transform -> Seq({"rotate", "fft", "nan"})]

(* The mutex is for "guarding global variables in a Legion program": at most *)
(* one worker is between lock and unlock.                                    *)
MutualExclusion ==
  \A w, x \in Worker : Inside(w) /\ Inside(x) => w = x

(* That is so, and the flag tells whether one is, as long as no worker has   *)
(* run out of its tests of the flag (Mutex::lock, acquire, release).         *)
ExclusiveWhilePatient ==
  ~exhausted => /\ MutualExclusion
                /\ locked <=> \E w \in Worker : Inside(w)

(* A new plan is searched for under the transform's own time limit, if it    *)
(* has one, whoever else set the planner's limit before or after             *)
(* (FFT::Args::seconds, set_timelimit).                                      *)
LimitHonoured ==
  \A t \in Transform :
    measured[t] # NotMeasured /\ args[t].seconds >= 0 /\ ~exhausted
      => measured[t] = args[t].seconds

Optional(asked) == IF asked THEN <<"rotate">> ELSE <<>>
Asked(t, result) ==
  Optional(args[t].rotate_in) \o <<result>> \o Optional(args[t].rotate_out)

(* The array of a finished transform was rotated as asked around exactly one *)
(* execution, of a plan not yet destroyed; NaN is only for a caller that     *)
(* accepts no new plan (in_place, fftw_create_plan, fftw_execute).           *)
ArrayAsAsked ==
  \A t \in Transform : pc[Chain(t)] = "done" /\ ~exhausted =>
    \/ array[t] = Asked(t, "fft")
    \/ args[t].wisdom_only /\ array[t] = Asked(t, "nan")

(* When all is over no plan was left undestroyed and the lock is free, so a  *)
(* later transform can plan again, whoever went on without the lock          *)
(* (fftw_destroy_plan, Mutex::unlock).                                       *)
NothingLeft ==
  Finished => ~locked /\ \A t \in Transform : plan[t] \in {"null", "destroyed"}

(* Every transform is done and its plan destroyed in the end: nobody waits   *)
(* for the lock for ever (in_place, Mutex::lock).                            *)
AllFinish == <>Finished
=============================================================================
