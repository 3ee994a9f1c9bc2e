--------------------------- MODULE FftPlan_proofs ---------------------------
(* That the transforms of FftPlan keep out of each other's way in FFTW's     *)
(* planner and get what they asked for, for any number of transforms.        *)
EXTENDS FftPlan, TLAPS

(* No worker has gone on without the lock, and the flag tells whether one    *)
(* holds it.                                                                 *)
Patient ==
  ~exhausted =>
    /\ \A w \in Worker : pc[w] # "yield"
    /\ \A w, x \in Worker : Inside(w) /\ Inside(x) => w = x
    /\ locked <=> \E w \in Worker : Inside(w)

(* A plan is made before it is executed, and the destroyer waits until then. *)
PlanKept ==
  \A t \in Transform :
    /\ pc[Chain(t)] \in {"unlock", "rotate_in", "execute"}
         => plan[t] \in {"null", "live"}
    /\ ~FuturesReady(t) => pc[Destroyer(t)] = "wait"
    /\ pc[Chain(t)] \notin {"wait", "destroy"}

(* Between set_timelimit and the search, the planner's limit stays as the    *)
(* searching transform has set it.                                           *)
LimitKept ==
  ~exhausted =>
    \A t \in Transform : args[t].seconds >= 0 =>
      /\ pc[Chain(t)] = "scratch" => timelimit = args[t].seconds
      /\ measured[t] # NotMeasured => measured[t] = args[t].seconds

IInv == TypeOK /\ Patient /\ PlanKept /\ LimitKept

(* The two workers of a transform are workers, and there are no others.      *)
LEMMA Workers ==
  /\ \A t \in Transform : Chain(t) \in Worker /\ Destroyer(t) \in Worker
  /\ \A t, u \in Transform :
       /\ Chain(t) # Destroyer(u)
       /\ Chain(t) = Chain(u) => t = u
       /\ Destroyer(t) = Destroyer(u) => t = u
       /\ Chain(t)[2] = "chain"
       /\ Destroyer(t)[2] = "destroyer"
  /\ \A w \in Worker : \E t \in Transform :
       \/ w = Chain(t) /\ w[2] = "chain"
       \/ w = Destroyer(t) /\ w[2] = "destroyer"
  BY DEF Chain, Destroyer, Worker

(* Before anything happens the invariant holds.                              *)
LEMMA InitHolds == Init => IInv
<1> SUFFICES ASSUME Init PROVE IInv
  OBVIOUS
<1> USE DEF Init
<1>1. TypeOK
  <2>1. args \in [Transform -> Requests] /\ locked \in BOOLEAN /\ exhausted \in BOOLEAN
    OBVIOUS
  <2>2. pc \in [Worker -> Steps]
    BY DEF Steps, Section
  <2>3. /\ wisdom \subseteq Shape
        /\ timelimit \in Int
        /\ measured \in [Transform -> Int]
        /\ plan \in [Transform -> {"none", "null", "live", "destroyed"}]
    BY DEF NoLimit, NotMeasured
  <2>4. array \in [Transform -> Seq({"rotate", "fft", "nan"})]
    OBVIOUS
  <2> QED
    BY <2>1, <2>2, <2>3, <2>4 DEF TypeOK
<1>2. Patient
  BY DEF Patient, Inside, Section
<1>3. PlanKept
  BY Workers DEF PlanKept, FuturesReady
<1>4. LimitKept
  BY Workers DEF LimitKept, NotMeasured
<1> QED
  BY <1>1, <1>2, <1>3, <1>4 DEF IInv

(* A sequence that grows by a member of S stays a sequence over S.           *)
LEMMA AppendTyped ==
  ASSUME NEW S, NEW s \in Seq(S), NEW e \in S
  PROVE  Append(s, e) \in Seq(S)
  OBVIOUS

(* Types are kept; no array gets garbage since a plan outlives its execution.*)
LEMMA TypeStep == TypeOK /\ PlanKept /\ [Next]_vars => TypeOK'
<1> SUFFICES ASSUME TypeOK, PlanKept, [Next]_vars PROVE TypeOK'
  OBVIOUS
<1> USE DEF TypeOK, Goto, Steps, Section
<1>1. CASE vars' = vars
  BY <1>1 DEF vars
<1>2. ASSUME NEW w \in Worker, Acquire(w) \/ RunOut(w) \/ Resume(w) \/ Unlock(w)
      PROVE  TypeOK'
  BY <1>2 DEF Acquire, RunOut, Resume, Unlock, Enter, Leave
<1>3. ASSUME NEW t \in Transform, TryWisdom(t)
      PROVE  TypeOK'
  <2>1. NewLimit(t) \in Int
    BY RequestsAssumption DEF NewLimit, Args
  <2>2. FromWisdom(t) \subseteq {"live", "null"}
    BY DEF FromWisdom
  <2> QED
    BY <1>3, <2>1, <2>2 DEF TryWisdom
<1>4. ASSUME NEW t \in Transform, MakeOnScratch(t)
      PROVE  TypeOK'
  <2>1. args[t].shape \in Shape
    BY RequestsAssumption DEF Args
  <2>2. wisdom' \subseteq Shape
    BY <1>4, <2>1 DEF MakeOnScratch
  <2> QED
    BY <1>4, <2>2 DEF MakeOnScratch
<1>5. ASSUME NEW t \in Transform, RetryWisdom(t)
      PROVE  TypeOK'
  <2>1. FromWisdom(t) \subseteq {"live", "null"}
    BY DEF FromWisdom
  <2> QED
    BY <1>5, <2>1 DEF RetryWisdom
<1>6. ASSUME NEW t \in Transform, RotateIn(t) \/ RotateOut(t)
      PROVE  TypeOK'
  <2>1. array' \in [Transform -> Seq({"rotate", "fft", "nan"})]
    <3>1. Append(array[t], "rotate") \in Seq({"rotate", "fft", "nan"})
      BY AppendTyped
    <3> QED
      BY <1>6, <3>1 DEF RotateIn, RotateOut, Done
  <2> QED
    BY <1>6, <2>1 DEF RotateIn, RotateOut
<1>7. ASSUME NEW t \in Transform, Execute(t)
      PROVE  TypeOK'
  <2>1. plan[t] \in {"null", "live"}
    BY <1>7 DEF PlanKept, Execute
  <2>2. Result(t) \in {"rotate", "fft", "nan"}
    BY <2>1 DEF Result
  <2> QED
    BY <1>7, <2>2, AppendTyped DEF Execute, Done
<1>8. ASSUME NEW t \in Transform, StartDestroy(t) \/ Destroy(t)
      PROVE  TypeOK'
  BY <1>8 DEF StartDestroy, Destroy
<1> QED
  BY <1>1, <1>2, <1>3, <1>4, <1>5, <1>6, <1>7, <1>8
     DEF Next, ChainStep, DestroyerStep, LockStep

(* The lock: at most one worker is in the section while nobody gave up.      *)
LEMMA PatientStep == TypeOK /\ Patient /\ PlanKept /\ [Next]_vars => Patient'
<1> SUFFICES ASSUME TypeOK, Patient, PlanKept, [Next]_vars, ~exhausted'
             PROVE  /\ \A w \in Worker : pc'[w] # "yield"
                    /\ \A w, x \in Worker : Inside(w)' /\ Inside(x)' => w = x
                    /\ locked' <=> \E w \in Worker : Inside(w)'
  BY DEF Patient
<1> DEFINE Goal == /\ \A w \in Worker : pc'[w] # "yield"
                   /\ \A w, x \in Worker : Inside(w)' /\ Inside(x)' => w = x
                   /\ locked' <=> \E w \in Worker : Inside(w)'
<1>0. pc \in [Worker -> Steps] /\ locked \in BOOLEAN
  BY DEF TypeOK
<1>1. CASE vars' = vars
  BY <1>1 DEF vars, Patient, Inside
<1>2. ASSUME NEW w \in Worker, Acquire(w) PROVE Goal
  <2>1. \A x \in Worker : ~Inside(x)
    BY <1>2 DEF Acquire, Free, Patient
  <2>2. Enter(w) \in Section /\ Enter(w) # "yield"
    BY DEF Enter, Section
  <2>3. pc' = [pc EXCEPT ![w] = Enter(w)] /\ locked' /\ ~exhausted
    BY <1>2 DEF Acquire, Goto
  <2> QED
    BY <1>0, <2>1, <2>2, <2>3 DEF Inside, Patient
<1>3. ASSUME NEW w \in Worker, RunOut(w) \/ Resume(w) PROVE Goal
  BY <1>3 DEF RunOut, Resume, Patient
<1>4. ASSUME NEW w \in Worker, Unlock(w) PROVE Goal
  <2>1. Inside(w)
    BY <1>4 DEF Unlock, Inside, Section
  <2>2. Leave(w) \notin Section /\ Leave(w) # "yield"
    BY DEF Leave, Section
  <2>3. pc' = [pc EXCEPT ![w] = Leave(w)] /\ ~locked' /\ ~exhausted
    BY <1>4 DEF Unlock, Goto
  <2> QED
    BY <1>0, <2>1, <2>2, <2>3 DEF Inside, Patient
<1>5. ASSUME NEW w \in Worker, NEW step, pc' = [pc EXCEPT ![w] = step],
             step # "yield", step \in Section <=> Inside(w),
             UNCHANGED <<locked, exhausted>>
      PROVE  Goal
  BY <1>0, <1>5 DEF Inside, Patient
<1>6. ASSUME NEW t \in Transform, ChainStep(t) PROVE Goal
  <2>1. Chain(t) \in Worker
    BY Workers
  <2>2. CASE TryWisdom(t)
    <3>1. PICK step \in {"scratch", "unlock"} : Goto(Chain(t), step)
      BY <2>2 DEF TryWisdom
    <3> QED
      BY <1>5, <2>1, <2>2, <3>1 DEF TryWisdom, Goto, Inside, Section
  <2>3. CASE MakeOnScratch(t)
    BY <1>5, <2>1, <2>3 DEF MakeOnScratch, Goto, Inside, Section
  <2>4. CASE RetryWisdom(t)
    BY <1>5, <2>1, <2>4 DEF RetryWisdom, Goto, Inside, Section
  <2>5. CASE RotateIn(t)
    BY <1>5, <2>1, <2>5 DEF RotateIn, Goto, Inside, Section
  <2>6. CASE Execute(t)
    BY <1>5, <2>1, <2>6 DEF Execute, Goto, Inside, Section
  <2>7. CASE RotateOut(t)
    BY <1>5, <2>1, <2>7 DEF RotateOut, Goto, Inside, Section
  <2> QED
    BY <1>6, <2>2, <2>3, <2>4, <2>5, <2>6, <2>7 DEF ChainStep
<1>7. ASSUME NEW t \in Transform, DestroyerStep(t) PROVE Goal
  <2>1. Destroyer(t) \in Worker
    BY Workers
  <2>2. CASE StartDestroy(t)
    <3>1. PICK step \in {"done", "lock"} : Goto(Destroyer(t), step)
      BY <2>2 DEF StartDestroy
    <3> QED
      BY <1>5, <2>1, <2>2, <3>1 DEF StartDestroy, Goto, Inside, Section
  <2>3. CASE Destroy(t)
    BY <1>5, <2>1, <2>3 DEF Destroy, Goto, Inside, Section
  <2> QED
    BY <1>7, <2>2, <2>3 DEF DestroyerStep
<1> QED
  BY <1>1, <1>2, <1>3, <1>4, <1>6, <1>7 DEF Next, LockStep

(* The order of create, execute and destroy.                                 *)
LEMMA PlanStep == TypeOK /\ PlanKept /\ [Next]_vars => PlanKept'
<1> SUFFICES ASSUME TypeOK, PlanKept, [Next]_vars, NEW t \in Transform
             PROVE  /\ pc'[Chain(t)] \in {"unlock", "rotate_in", "execute"}
                         => plan'[t] \in {"null", "live"}
                    /\ ~FuturesReady(t)' => pc'[Destroyer(t)] = "wait"
                    /\ pc'[Chain(t)] \notin {"wait", "destroy"}
  BY DEF PlanKept
<1> DEFINE Goal == /\ pc'[Chain(t)] \in {"unlock", "rotate_in", "execute"}
                         => plan'[t] \in {"null", "live"}
                   /\ ~FuturesReady(t)' => pc'[Destroyer(t)] = "wait"
                   /\ pc'[Chain(t)] \notin {"wait", "destroy"}
<1>0. /\ pc \in [Worker -> Steps]
      /\ plan \in [Transform -> {"none", "null", "live", "destroyed"}]
  BY DEF TypeOK
<1>a. PlanKept
  OBVIOUS
<1> USE <1>0, Workers DEF Goto, FuturesReady
<1>1. CASE vars' = vars
  BY <1>1, <1>a DEF vars, PlanKept
<1>2. ASSUME NEW w \in Worker, LockStep(w) PROVE Goal
  BY <1>2, <1>a DEF PlanKept, LockStep, Acquire, RunOut, Resume, Unlock, Enter, Leave
<1>3. ASSUME NEW u \in Transform, TryWisdom(u) PROVE Goal
  <2>1. PICK answer \in {"live", "null"} :
          /\ plan' = [plan EXCEPT ![u] = answer]
          /\ pc' = [pc EXCEPT ![Chain(u)] =
                IF answer = "null" /\ ~args[u].wisdom_only THEN "scratch" ELSE "unlock"]
    BY <1>3 DEF TryWisdom, FromWisdom
  <2> QED
    BY <1>3, <2>1, <1>a DEF PlanKept, TryWisdom
<1>4. ASSUME NEW u \in Transform, MakeOnScratch(u) PROVE Goal
  BY <1>4, <1>a DEF PlanKept, MakeOnScratch
<1>5. ASSUME NEW u \in Transform, RetryWisdom(u) PROVE Goal
  <2>1. PICK answer \in {"live", "null"} : plan' = [plan EXCEPT ![u] = answer]
    BY <1>5 DEF RetryWisdom, FromWisdom
  <2> QED
    BY <1>5, <2>1, <1>a DEF PlanKept, RetryWisdom
<1>6. ASSUME NEW u \in Transform, RotateIn(u) \/ Execute(u) \/ RotateOut(u)
      PROVE  Goal
  BY <1>6, <1>a DEF PlanKept, RotateIn, Execute, RotateOut
<1>7. ASSUME NEW u \in Transform, StartDestroy(u) PROVE Goal
  BY <1>7, <1>a DEF PlanKept, StartDestroy
<1>8. ASSUME NEW u \in Transform, Destroy(u) PROVE Goal
  BY <1>8, <1>a DEF PlanKept, Destroy
<1> QED
  BY <1>1, <1>2, <1>3, <1>4, <1>5, <1>6, <1>7, <1>8
     DEF Next, ChainStep, DestroyerStep

(* The planner's time limit between set_timelimit and the search.            *)
LEMMA LimitStep ==
  TypeOK /\ Patient /\ LimitKept /\ [Next]_vars => LimitKept'
<1> SUFFICES ASSUME TypeOK, Patient, LimitKept, [Next]_vars, ~exhausted',
                    NEW t \in Transform, args'[t].seconds >= 0
             PROVE  /\ pc'[Chain(t)] = "scratch" => timelimit' = args'[t].seconds
                    /\ measured'[t] # NotMeasured => measured'[t] = args'[t].seconds
  BY DEF LimitKept
<1> DEFINE Goal ==
      /\ pc'[Chain(t)] = "scratch" => timelimit' = args'[t].seconds
      /\ measured'[t] # NotMeasured => measured'[t] = args'[t].seconds
<1>0. /\ pc \in [Worker -> Steps]
      /\ measured \in [Transform -> Int]
  BY DEF TypeOK
<1>a. args' = args /\ ~exhausted
  BY DEF Next, ChainStep, DestroyerStep, LockStep, vars, Acquire, RunOut, Resume,
         Unlock, TryWisdom, MakeOnScratch, RetryWisdom, RotateIn, Execute,
         RotateOut, StartDestroy, Destroy
<1>b. /\ pc[Chain(t)] = "scratch" => timelimit = args[t].seconds
      /\ measured[t] # NotMeasured => measured[t] = args[t].seconds
  BY <1>a DEF LimitKept
<1>c. \A u \in Transform :
        pc[Chain(u)] = "wisdom" /\ pc[Chain(t)] = "scratch" => FALSE
  BY <1>a, Workers DEF Patient, Inside, Section
<1> USE <1>0, <1>a, <1>b, Workers DEF Goto
<1>1. CASE vars' = vars
  BY <1>1 DEF vars
<1>2. ASSUME NEW w \in Worker, LockStep(w) PROVE Goal
  BY <1>2 DEF LockStep, Acquire, RunOut, Resume, Unlock, Enter, Leave
<1>3. ASSUME NEW u \in Transform, TryWisdom(u) PROVE Goal
  <2>1. CASE u = t
    BY <1>3, <2>1 DEF TryWisdom, NewLimit
  <2>2. CASE u # t
    BY <1>3, <1>c, <2>2 DEF TryWisdom
  <2> QED
    BY <2>1, <2>2
<1>4. ASSUME NEW u \in Transform, MakeOnScratch(u) PROVE Goal
  BY <1>4 DEF MakeOnScratch
<1>5. ASSUME NEW u \in Transform,
             RetryWisdom(u) \/ RotateIn(u) \/ Execute(u) \/ RotateOut(u)
      PROVE  Goal
  BY <1>5 DEF RetryWisdom, RotateIn, Execute, RotateOut
<1>6. ASSUME NEW u \in Transform, DestroyerStep(u) PROVE Goal
  BY <1>6 DEF DestroyerStep, StartDestroy, Destroy
<1> QED
  BY <1>1, <1>2, <1>3, <1>4, <1>5, <1>6 DEF Next, ChainStep

(* The inductive invariant holds always.                                     *)
THEOREM InvariantHolds == Spec => []IInv
<1>1. IInv /\ [Next]_vars => IInv'
  BY TypeStep, PatientStep, PlanStep, LimitStep DEF IInv
<1> QED
  BY InitHolds, <1>1, PTL DEF Spec

(* For any number of transforms the variables keep their types; above all,   *)
(* no plan is executed when it is gone.                                      *)
THEOREM TypeCorrect == Spec => []TypeOK
  BY InvariantHolds, PTL DEF IInv

(* At most one worker is in the planner, for any number of transforms, as    *)
(* long as none ran out of its tests of the flag.                            *)
THEOREM Exclusive == Spec => []ExclusiveWhilePatient
<1>1. IInv => ExclusiveWhilePatient
  BY DEF IInv, Patient, ExclusiveWhilePatient, MutualExclusion
<1> QED
  BY InvariantHolds, <1>1, PTL

(* A transform with a time limit has its plan searched for under that limit. *)
THEOREM OwnLimit == Spec => []LimitHonoured
<1>1. IInv => LimitHonoured
  BY DEF IInv, LimitKept, LimitHonoured
<1> QED
  BY InvariantHolds, <1>1, PTL

---------------------------------------------------------------------------
(* What becomes of plans and arrays. Whoever holds the flag, or goes on as   *)
(* if it did, will clear it; and a destroyer that is done left no plan.      *)
WillUnlock == locked => \E w \in Worker : Inside(w) \/ pc[w] = "yield"

WillDestroy ==
  \A t \in Transform :
    /\ FuturesReady(t) => plan[t] # "none"
    /\ pc[Destroyer(t)] = "unlock" => plan[t] = "destroyed"
    /\ pc[Destroyer(t)] = "done" => plan[t] \in {"null", "destroyed"}
    /\ pc[Destroyer(t)] \notin {"wisdom", "scratch", "retry", "rotate_in",
                                "execute", "rotate_out"}

(* Where the array of a transform stands while its chain goes on.            *)
ArrayKept ==
  \A t \in Transform :
    /\ pc[Chain(t)] \in {"lock", "yield", "rotate_in"} \cup Section
         => array[t] = <<>>
    /\ pc[Chain(t)] = "execute" => array[t] = Optional(args[t].rotate_in)
    /\ pc[Chain(t)] = "rotate_out" /\ ~exhausted =>
         \/ array[t] = Append(Optional(args[t].rotate_in), "fft")
         \/ /\ args[t].wisdom_only
            /\ array[t] = Append(Optional(args[t].rotate_in), "nan")

(* A chain has a plan, unless it accepts no new one, as what it has searched *)
(* for becomes known to the planner.                                         *)
PlanFound ==
  ~exhausted =>
    \A t \in Transform :
      /\ pc[Chain(t)] = "retry" => args[t].shape \in wisdom
      /\ pc[Chain(t)] \in {"unlock", "rotate_in", "execute"} /\ plan[t] = "null"
           => args[t].wisdom_only

OutcomeInv ==
  WillUnlock /\ WillDestroy /\ ArrayKept /\ PlanFound /\ ArrayAsAsked

(* Before anything happens the outcome is as asked.                          *)
LEMMA OutcomeInit == Init => OutcomeInv
<1> SUFFICES ASSUME Init PROVE OutcomeInv
  OBVIOUS
<1>1. \A t \in Transform :
        /\ pc[Chain(t)] = "lock"
        /\ pc[Destroyer(t)] = "wait"
        /\ array[t] = <<>>
  BY Workers DEF Init
<1> QED
  BY <1>1 DEF Init, OutcomeInv, WillUnlock, WillDestroy, ArrayKept, PlanFound,
              ArrayAsAsked, FuturesReady

(* The flag stays with a worker that will clear it.                          *)
LEMMA WillUnlockStep == TypeOK /\ WillUnlock /\ [Next]_vars => WillUnlock'
<1> SUFFICES ASSUME TypeOK, WillUnlock, [Next]_vars, locked'
             PROVE  \E w \in Worker : Inside(w)' \/ pc'[w] = "yield"
  BY DEF WillUnlock
<1> USE DEF Goto, Inside, Section
<1>0. pc \in [Worker -> Steps]
  BY DEF TypeOK
<1>1. CASE vars' = vars
  BY <1>1 DEF vars, WillUnlock
<1>2. ASSUME NEW w \in Worker, Acquire(w) \/ RunOut(w) \/ Resume(w)
      PROVE  Inside(w)' \/ pc'[w] = "yield"
  BY <1>0, <1>2 DEF Acquire, RunOut, Resume, Enter
<1>3. ASSUME NEW w \in Worker, Unlock(w) PROVE FALSE
  BY <1>3 DEF Unlock
<1>4. ASSUME NEW t \in Transform, NEW w \in Worker, NEW step,
             pc' = [pc EXCEPT ![w] = step], UNCHANGED locked,
             Inside(w) => step \in Section, pc[w] # "yield"
      PROVE  \E x \in Worker : Inside(x)' \/ pc'[x] = "yield"
  BY <1>0, <1>4 DEF WillUnlock
<1>5. ASSUME NEW t \in Transform, ChainStep(t)
      PROVE  \E x \in Worker : Inside(x)' \/ pc'[x] = "yield"
  <2>1. Chain(t) \in Worker
    BY Workers
  <2>2. PICK step : /\ pc' = [pc EXCEPT ![Chain(t)] = step]
                    /\ Inside(Chain(t)) => step \in Section
                    /\ pc[Chain(t)] # "yield"
                    /\ UNCHANGED locked
    <3>1. CASE TryWisdom(t)
      <4>1. PICK step \in {"scratch", "unlock"} : Goto(Chain(t), step)
        BY <3>1 DEF TryWisdom
      <4> QED
        BY <3>1, <4>1 DEF TryWisdom
    <3> QED
      BY <1>5, <3>1 DEF ChainStep, MakeOnScratch, RetryWisdom, RotateIn, Execute,
                        RotateOut
  <2> QED
    BY <1>4, <2>1, <2>2
<1>6. ASSUME NEW t \in Transform, DestroyerStep(t)
      PROVE  \E x \in Worker : Inside(x)' \/ pc'[x] = "yield"
  <2>1. Destroyer(t) \in Worker
    BY Workers
  <2>2. PICK step : /\ pc' = [pc EXCEPT ![Destroyer(t)] = step]
                    /\ Inside(Destroyer(t)) => step \in Section
                    /\ pc[Destroyer(t)] # "yield"
                    /\ UNCHANGED locked
    BY <1>6 DEF DestroyerStep, StartDestroy, Destroy
  <2> QED
    BY <1>4, <2>1, <2>2
<1> QED
  BY <1>1, <1>2, <1>3, <1>5, <1>6 DEF Next, LockStep

(* A destroyer ends when its plan is destroyed or there is none.             *)
LEMMA WillDestroyStep ==
  TypeOK /\ PlanKept /\ WillDestroy /\ [Next]_vars => WillDestroy'
<1> SUFFICES ASSUME TypeOK, PlanKept, WillDestroy, [Next]_vars, NEW t \in Transform
             PROVE  /\ FuturesReady(t)' => plan'[t] # "none"
                    /\ pc'[Destroyer(t)] = "unlock" => plan'[t] = "destroyed"
                    /\ pc'[Destroyer(t)] = "done" => plan'[t] \in {"null", "destroyed"}
                    /\ pc'[Destroyer(t)] \notin
                         {"wisdom", "scratch", "retry", "rotate_in", "execute",
                          "rotate_out"}
  BY DEF WillDestroy
<1> DEFINE Goal == /\ FuturesReady(t)' => plan'[t] # "none"
                   /\ pc'[Destroyer(t)] = "unlock" => plan'[t] = "destroyed"
                   /\ pc'[Destroyer(t)] = "done" => plan'[t] \in {"null", "destroyed"}
                   /\ pc'[Destroyer(t)] \notin
                        {"wisdom", "scratch", "retry", "rotate_in", "execute",
                         "rotate_out"}
<1>0. /\ pc \in [Worker -> Steps]
      /\ plan \in [Transform -> {"none", "null", "live", "destroyed"}]
  BY DEF TypeOK
<1>a. PlanKept /\ WillDestroy
  OBVIOUS
<1> USE <1>0, Workers DEF Goto, FuturesReady, PlanKept, WillDestroy
<1>1. CASE vars' = vars
  BY <1>1, <1>a DEF vars
<1>2. ASSUME NEW w \in Worker, LockStep(w) PROVE Goal
  BY <1>2, <1>a DEF LockStep, Acquire, RunOut, Resume, Unlock, Enter, Leave
<1>3. ASSUME NEW u \in Transform, TryWisdom(u) PROVE Goal
  <2>1. PICK answer \in {"live", "null"} :
          /\ plan' = [plan EXCEPT ![u] = answer]
          /\ pc' = [pc EXCEPT ![Chain(u)] =
                IF answer = "null" /\ ~args[u].wisdom_only THEN "scratch" ELSE "unlock"]
    BY <1>3 DEF TryWisdom, FromWisdom
  <2> QED
    BY <1>3, <2>1, <1>a DEF TryWisdom
<1>4. ASSUME NEW u \in Transform, MakeOnScratch(u) PROVE Goal
  BY <1>4, <1>a DEF MakeOnScratch
<1>5. ASSUME NEW u \in Transform, RetryWisdom(u) PROVE Goal
  <2>1. PICK answer \in {"live", "null"} : plan' = [plan EXCEPT ![u] = answer]
    BY <1>5 DEF RetryWisdom, FromWisdom
  <2> QED
    BY <1>5, <2>1, <1>a DEF RetryWisdom
<1>6. ASSUME NEW u \in Transform, RotateIn(u) \/ Execute(u) \/ RotateOut(u)
      PROVE  Goal
  BY <1>6, <1>a DEF RotateIn, Execute, RotateOut
<1>7. ASSUME NEW u \in Transform, StartDestroy(u) PROVE Goal
  BY <1>7, <1>a DEF StartDestroy, NoPlan
<1>8. ASSUME NEW u \in Transform, Destroy(u) PROVE Goal
  BY <1>8, <1>a DEF Destroy
<1> QED
  BY <1>1, <1>2, <1>3, <1>4, <1>5, <1>6, <1>7, <1>8
     DEF Next, ChainStep, DestroyerStep

(* A worker in the planner is alone there while nobody gave up.              *)
LEMMA AloneInside ==
  ASSUME Patient, ~exhausted, NEW w \in Worker, Inside(w)
  PROVE  Alone(w)
  BY DEF Patient, Alone

(* A search leaves wisdom, so that the plan made after it is there, as long  *)
(* as nobody else is in the planner.                                         *)
LEMMA PlanFoundStep ==
  TypeOK /\ Patient /\ PlanKept /\ PlanFound /\ [Next]_vars => PlanFound'
<1> SUFFICES ASSUME TypeOK, Patient, PlanKept, PlanFound, [Next]_vars, ~exhausted',
                    NEW t \in Transform
             PROVE  /\ pc'[Chain(t)] = "retry" => args'[t].shape \in wisdom'
                    /\ /\ pc'[Chain(t)] \in {"unlock", "rotate_in", "execute"}
                       /\ plan'[t] = "null"
                       => args'[t].wisdom_only
  BY DEF PlanFound
<1> DEFINE Goal ==
      /\ pc'[Chain(t)] = "retry" => args'[t].shape \in wisdom'
      /\ /\ pc'[Chain(t)] \in {"unlock", "rotate_in", "execute"}
         /\ plan'[t] = "null"
         => args'[t].wisdom_only
<1>0. /\ pc \in [Worker -> Steps]
      /\ plan \in [Transform -> {"none", "null", "live", "destroyed"}]
  BY DEF TypeOK
<1>a. args' = args /\ ~exhausted
  BY DEF Next, ChainStep, DestroyerStep, LockStep, vars, Acquire, RunOut, Resume,
         Unlock, TryWisdom, MakeOnScratch, RetryWisdom, RotateIn, Execute,
         RotateOut, StartDestroy, Destroy
<1>b. /\ pc[Chain(t)] = "retry" => args[t].shape \in wisdom
      /\ pc[Chain(t)] \in {"unlock", "rotate_in", "execute"} /\ plan[t] = "null"
           => args[t].wisdom_only
  BY <1>a DEF PlanFound
<1>c. ASSUME NEW u \in Transform, pc[Chain(u)] \in Section
      PROVE  Alone(Chain(u))
  BY <1>a, <1>c, AloneInside, Workers DEF Inside
<1> USE <1>0, <1>a, <1>b, Workers DEF Goto
<1>1. CASE vars' = vars
  BY <1>1 DEF vars
<1>2. ASSUME NEW w \in Worker, LockStep(w) PROVE Goal
  BY <1>2 DEF LockStep, Acquire, RunOut, Resume, Unlock, Enter, Leave
<1>3. ASSUME NEW u \in Transform, TryWisdom(u) PROVE Goal
  <2>1. PICK answer \in {"live", "null"} :
          /\ plan' = [plan EXCEPT ![u] = answer]
          /\ pc' = [pc EXCEPT ![Chain(u)] =
                IF answer = "null" /\ ~args[u].wisdom_only THEN "scratch" ELSE "unlock"]
    BY <1>3 DEF TryWisdom, FromWisdom
  <2> QED
    BY <1>3, <2>1 DEF TryWisdom
<1>4. ASSUME NEW u \in Transform, MakeOnScratch(u) PROVE Goal
  <2>1. wisdom' = wisdom \cup {args[u].shape}
    BY <1>4, <1>c DEF MakeOnScratch, Section
  <2> QED
    BY <1>4, <2>1 DEF MakeOnScratch
<1>5. ASSUME NEW u \in Transform, RetryWisdom(u) PROVE Goal
  <2>1. FromWisdom(u) = {IF args[u].shape \in wisdom THEN "live" ELSE "null"}
    BY <1>5, <1>c DEF RetryWisdom, FromWisdom, Section
  <2>2. CASE u = t
    <3>1. plan'[t] = "live"
      BY <1>5, <2>1, <2>2 DEF RetryWisdom
    <3> QED
      BY <1>5, <2>2, <3>1 DEF RetryWisdom
  <2>3. CASE u # t
    <3>1. plan'[t] = plan[t]
      BY <1>5, <2>3 DEF RetryWisdom
    <3> QED
      BY <1>5, <2>3, <3>1 DEF RetryWisdom
  <2> QED
    BY <2>2, <2>3
<1>6. ASSUME NEW u \in Transform, RotateIn(u) \/ Execute(u) \/ RotateOut(u)
      PROVE  Goal
  BY <1>6 DEF RotateIn, Execute, RotateOut
<1>7. ASSUME NEW u \in Transform, StartDestroy(u) PROVE Goal
  BY <1>7 DEF StartDestroy
<1>8. ASSUME NEW u \in Transform, Destroy(u) PROVE Goal
  BY <1>8 DEF Destroy
<1> QED
  BY <1>1, <1>2, <1>3, <1>4, <1>5, <1>6, <1>7, <1>8
     DEF Next, ChainStep, DestroyerStep

(* The asked sequence, built up one operation at a time.                     *)
LEMMA AskedInSteps ==
  ASSUME NEW t, NEW r \in {"fft", "nan"}, args[t].rotate_in \in BOOLEAN
  PROVE  /\ args[t].rotate_out =>
              Asked(t, r) = Append(Append(Optional(args[t].rotate_in), r), "rotate")
         /\ ~args[t].rotate_out =>
              Asked(t, r) = Append(Optional(args[t].rotate_in), r)
<1>1. Optional(args[t].rotate_in) \in Seq({"rotate", "fft", "nan"})
  <2>1. <<"rotate">> \in Seq({"rotate", "fft", "nan"})
    OBVIOUS
  <2>2. << >> \in Seq({"rotate", "fft", "nan"})
    OBVIOUS
  <2> QED
    BY <2>1, <2>2 DEF Optional
<1>2. ASSUME NEW s \in Seq({"rotate", "fft", "nan"})
      PROVE  /\ (s \o <<r>>) \o <<"rotate">> = Append(Append(s, r), "rotate")
             /\ (s \o <<r>>) \o <<>> = Append(s, r)
  OBVIOUS
<1> QED
  BY <1>1, <1>2 DEF Asked, Optional

(* The array changes as asked when the chain goes on, and only then.         *)
LEMMA ArrayStep ==
  TypeOK /\ PlanKept /\ PlanFound /\ ArrayKept /\ ArrayAsAsked /\ [Next]_vars
    => ArrayKept' /\ ArrayAsAsked'
<1> SUFFICES ASSUME TypeOK, PlanKept, PlanFound, ArrayKept, ArrayAsAsked,
                    [Next]_vars, NEW t \in Transform
             PROVE  /\ pc'[Chain(t)] \in {"lock", "yield", "rotate_in"} \cup Section
                         => array'[t] = <<>>
                    /\ pc'[Chain(t)] = "execute"
                         => array'[t] = Optional(args'[t].rotate_in)
                    /\ pc'[Chain(t)] = "rotate_out" /\ ~exhausted' =>
                         \/ array'[t] = Append(Optional(args'[t].rotate_in), "fft")
                         \/ /\ args'[t].wisdom_only
                            /\ array'[t] = Append(Optional(args'[t].rotate_in), "nan")
                    /\ pc'[Chain(t)] = "done" /\ ~exhausted' =>
                         \/ array'[t] = Asked(t, "fft")'
                         \/ args'[t].wisdom_only /\ array'[t] = Asked(t, "nan")'
  BY DEF ArrayKept, ArrayAsAsked
<1> DEFINE Goal ==
      /\ pc'[Chain(t)] \in {"lock", "yield", "rotate_in"} \cup Section
           => array'[t] = <<>>
      /\ pc'[Chain(t)] = "execute"
           => array'[t] = Optional(args'[t].rotate_in)
      /\ pc'[Chain(t)] = "rotate_out" /\ ~exhausted' =>
           \/ array'[t] = Append(Optional(args'[t].rotate_in), "fft")
           \/ /\ args'[t].wisdom_only
              /\ array'[t] = Append(Optional(args'[t].rotate_in), "nan")
      /\ pc'[Chain(t)] = "done" /\ ~exhausted' =>
           \/ array'[t] = Asked(t, "fft")'
           \/ args'[t].wisdom_only /\ array'[t] = Asked(t, "nan")'
<1>0. /\ pc \in [Worker -> Steps]
      /\ array \in [Transform -> Seq({"rotate", "fft", "nan"})]
  BY DEF TypeOK
<1>a. args' = args /\ (exhausted => exhausted')
  BY DEF Next, ChainStep, DestroyerStep, LockStep, vars, Acquire, RunOut, Resume,
         Unlock, TryWisdom, MakeOnScratch, RetryWisdom, RotateIn, Execute,
         RotateOut, StartDestroy, Destroy
<1>b. /\ pc[Chain(t)] \in {"lock", "yield", "rotate_in"} \cup Section
           => array[t] = <<>>
      /\ pc[Chain(t)] = "execute" => array[t] = Optional(args[t].rotate_in)
      /\ pc[Chain(t)] = "rotate_out" /\ ~exhausted =>
           \/ array[t] = Append(Optional(args[t].rotate_in), "fft")
           \/ /\ args[t].wisdom_only
              /\ array[t] = Append(Optional(args[t].rotate_in), "nan")
      /\ pc[Chain(t)] = "done" /\ ~exhausted =>
           \/ array[t] = Asked(t, "fft")
           \/ args[t].wisdom_only /\ array[t] = Asked(t, "nan")
  BY DEF ArrayKept, ArrayAsAsked
<1>c. \A r : Asked(t, r)' = Asked(t, r)
  BY <1>a DEF Asked
<1>d. args[t].rotate_in \in BOOLEAN /\ args[t].rotate_out \in BOOLEAN
  BY RequestsAssumption DEF TypeOK, Args
\* A step that leaves the array and does not go past the execution.
<1>1. ASSUME UNCHANGED array,
             \/ pc'[Chain(t)] = pc[Chain(t)]
             \/ /\ pc[Chain(t)] \in {"lock", "yield"} \cup Section
                /\ pc'[Chain(t)] \in {"yield", "rotate_in"} \cup Section
      PROVE  Goal
  BY <1>1, <1>a, <1>b, <1>c DEF Section
<1>2. CASE vars' = vars
  BY <1>1, <1>2 DEF vars
<1>3. ASSUME NEW w \in Worker, LockStep(w) PROVE Goal
  <2>1. CASE w = Chain(t)
    BY <1>0, <1>1, <1>3, <2>1, Workers
       DEF LockStep, Acquire, RunOut, Resume, Unlock, Enter, Leave, Goto, Section
  <2>2. CASE w # Chain(t)
    BY <1>0, <1>1, <1>3, <2>2, Workers
       DEF LockStep, Acquire, RunOut, Resume, Unlock, Goto
  <2> QED
    BY <2>1, <2>2
<1>4. ASSUME NEW u \in Transform, TryWisdom(u) PROVE Goal
  <2>1. PICK step \in {"scratch", "unlock"} : pc' = [pc EXCEPT ![Chain(u)] = step]
    BY <1>4 DEF TryWisdom, Goto
  <2> QED
    BY <1>0, <1>1, <1>4, <2>1, Workers DEF TryWisdom, Section
<1>5. ASSUME NEW u \in Transform, MakeOnScratch(u) \/ RetryWisdom(u) PROVE Goal
  BY <1>0, <1>1, <1>5, Workers DEF MakeOnScratch, RetryWisdom, Goto, Section
<1>6. ASSUME NEW u \in Transform, DestroyerStep(u) PROVE Goal
  BY <1>0, <1>1, <1>6, Workers DEF DestroyerStep, StartDestroy, Destroy, Goto
<1>7. ASSUME NEW u \in Transform, u # t, RotateIn(u) \/ Execute(u) \/ RotateOut(u)
      PROVE  Goal
  <2>1. /\ array'[t] = array[t]
        /\ pc'[Chain(t)] = pc[Chain(t)]
    BY <1>0, <1>7, Workers DEF RotateIn, Execute, RotateOut, Done, Goto
  <2> QED
    BY <2>1, <1>a, <1>b, <1>c
<1>8. CASE RotateIn(t)
  <2>1. pc'[Chain(t)] = "execute"
    BY <1>0, <1>8, Workers DEF RotateIn, Goto
  <2>2. array'[t] = Optional(args[t].rotate_in)
    BY <1>0, <1>8, <1>b, <1>d DEF RotateIn, Done, Optional
  <2> QED
    BY <2>1, <2>2, <1>a DEF Section
<1>9. CASE Execute(t)
  <2>1. pc'[Chain(t)] = "rotate_out"
    BY <1>0, <1>9, Workers DEF Execute, Goto
  <2>2. array'[t] = Append(Optional(args[t].rotate_in), Result(t))
    BY <1>0, <1>9, <1>b DEF Execute, Done
  <2>3. \/ Result(t) = "fft"
        \/ Result(t) = "nan" /\ plan[t] = "null"
    BY <1>9 DEF Execute, PlanKept, Result
  <2>4. ~exhausted' /\ plan[t] = "null" => args[t].wisdom_only
    BY <1>9, <1>a DEF Execute, PlanFound
  <2> QED
    BY <2>1, <2>2, <2>3, <2>4, <1>a DEF Section
<1>10. CASE RotateOut(t)
  <2>1. pc'[Chain(t)] = "done" /\ pc[Chain(t)] = "rotate_out"
    BY <1>0, <1>10, Workers DEF RotateOut, Goto
  <2>2. array'[t] = IF args[t].rotate_out THEN Append(array[t], "rotate")
                                          ELSE array[t]
    BY <1>0, <1>10 DEF RotateOut, Done
  <2>3. ASSUME ~exhausted'
        PROVE  \/ array'[t] = Asked(t, "fft")
               \/ args[t].wisdom_only /\ array'[t] = Asked(t, "nan")
    <3>1. ASSUME NEW r \in {"fft", "nan"},
                 array[t] = Append(Optional(args[t].rotate_in), r)
          PROVE  array'[t] = Asked(t, r)
      BY <2>2, <3>1, <1>d, AskedInSteps
    <3> QED
      BY <2>1, <2>3, <3>1, <1>a, <1>b
  <2> QED
    BY <2>1, <2>3, <1>a, <1>c DEF Section
<1> QED
  BY <1>2, <1>3, <1>4, <1>5, <1>6, <1>7, <1>8, <1>9, <1>10
     DEF Next, ChainStep

(* The invariant and what it says of plans and arrays hold always.           *)
THEOREM OutcomeHolds == Spec => [](IInv /\ OutcomeInv)
<1>1. IInv /\ OutcomeInv /\ [Next]_vars => (IInv /\ OutcomeInv)'
  BY TypeStep, PatientStep, PlanStep, LimitStep, WillUnlockStep,
     WillDestroyStep, PlanFoundStep, ArrayStep DEF IInv, OutcomeInv
<1> QED
  BY InitHolds, OutcomeInit, <1>1, PTL DEF Spec

(* Every array is rotated as asked around one execution of a live plan, for  *)
(* any number of transforms, while no worker ran out of tests of the flag.   *)
THEOREM ArraysRight == Spec => []ArrayAsAsked
  BY OutcomeHolds, PTL DEF OutcomeInv

(* When all transforms are done the lock is free and every plan destroyed,   *)
(* even after workers went on without the lock.                              *)
THEOREM AllReleased == Spec => []NothingLeft
<1>1. IInv /\ OutcomeInv => NothingLeft
  <2> SUFFICES ASSUME IInv, OutcomeInv, Finished
               PROVE  /\ ~locked
                      /\ \A t \in Transform : plan[t] \in {"null", "destroyed"}
    BY DEF NothingLeft
  <2>1. ~locked
    BY DEF OutcomeInv, WillUnlock, Finished, Inside, Section
  <2>2. ASSUME NEW t \in Transform PROVE plan[t] \in {"null", "destroyed"}
    BY Workers DEF OutcomeInv, WillDestroy, Finished
  <2> QED
    BY <2>1, <2>2
<1> QED
  BY OutcomeHolds, <1>1, PTL
=============================================================================
