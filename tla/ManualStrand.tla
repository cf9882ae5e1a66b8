---------------------------- MODULE ManualStrand ----------------------------
(***************************************************************************)
(* A strand over a manual executor, as in test/executor/test_strand.cpp    *)
(* (StrandOverManual, Batching).  The closures of the strand, `batches' of *)
(* IntrusiveStrand, lie in the list of the executor among other tasks, and *)
(* are run by the threads that call RunAtMost and Drain.                   *)
(***************************************************************************)
EXTENDS IntrusiveStrand, ManualExecutor

CONSTANTS Plain,    \* tasks that are given to the executor directly
          Closure   \* a batch of the strand in the list of the executor

ASSUME ManualStrandAssumption == Runners = Workers /\ Closure \notin Plain

VARIABLES
    plain,   \* the plain tasks that nobody has submitted yet
    quiet    \* history: since worker w has called Drain nothing was submitted,
             \* except by the tasks that w itself runs, and nobody else ran any

allVars == <<vars, manualVars, plain, quiet>>

SubmitsOver == \A t \in Tasks : sub[t] \in {"idle", "done"}

\* No Submit to the strand is in progress, nor is a task left in its list for
\* which no batch is planned.
Settled == SubmitsOver /\ (state = "READY" => tasks = <<>>)

Alone(w) == \A v \in Workers \ {w} : rpc[v] = "out"

InitManual ==
    /\ Init
    /\ ManualInit
    /\ plain = Plain
    /\ quiet = [w \in Workers |-> FALSE]

\* Worker w stays undisturbed by its own steps, and by a Submit that begins
\* and ends while w runs a task of the strand.
Watch(stepper) ==
    quiet' = [w \in Workers |->
                quiet[w] /\ IF stepper = w THEN pc[w] = "in_task" => SubmitsOver
                            ELSE stepper \in Tasks /\ pc[w] = "in_task"]

-----------------------------------------------------------------------------

\* A step of the strand: a closure handed over goes into the list of the
\* executor, and a batch is taken out of it.
HandOver(step, stepper) ==
    /\ step
    /\ IF batches' > batches THEN ManualSubmit(Closure)
       ELSE IF batches' < batches THEN Head(manual_tasks) = Closure /\ ManualPop(stepper)
       ELSE UNCHANGED manualVars
    /\ Watch(stepper)
    /\ UNCHANGED plain

StrandSubmit(t) == HandOver(SubmitPush(t), t)

StrandSubmitStep(t) == HandOver(SubmitStep(t), t)

StrandRun(w) == HandOver(WorkerStep(w), w)

SubmitPlain ==
    \E u \in plain :
        /\ ManualSubmit(u)
        /\ plain' = plain \ {u}
        /\ Watch(NULL)
        /\ UNCHANGED vars

RunPlain(w) ==
    /\ manual_tasks # <<>> /\ Head(manual_tasks) \in Plain
    /\ ManualPop(w)
    /\ Watch(w)
    /\ UNCHANGED <<vars, plain>>

TaskReturns(w) ==
    /\ pc[w] = "idle"
    /\ ManualTaskReturns(w)
    /\ Watch(w)
    /\ UNCHANGED <<vars, plain>>

CallRunAtMost(w) ==
    /\ \E n \in Limits : RunAtMost(w, n)
    /\ Watch(w)
    /\ UNCHANGED <<vars, plain>>

CallDrain(w) ==
    /\ Drain(w)
    /\ quiet' = [v \in Workers |-> v = w /\ Settled /\ Alone(w)]
    /\ UNCHANGED <<vars, plain>>

Return(w) ==
    /\ ManualReturns(w)
    /\ quiet' = [quiet EXCEPT ![w] = FALSE]
    /\ UNCHANGED <<vars, plain>>

-----------------------------------------------------------------------------

RunnerStep(w) == StrandRun(w) \/ RunPlain(w) \/ TaskReturns(w) \/ Return(w)
Drives(w)     == CallRunAtMost(w) \/ CallDrain(w)

NextManual ==
    \/ \E t \in Tasks : StrandSubmit(t) \/ StrandSubmitStep(t)
    \/ \E w \in Workers : RunnerStep(w) \/ Drives(w)
    \/ SubmitPlain

\* Threads keep running, and somebody runs the executor while it is not empty.
FairSpecManual ==
    /\ InitManual /\ [][NextManual]_allVars
    /\ \A t \in Tasks : WF_allVars(StrandSubmitStep(t))
    /\ \A w \in Workers : WF_allVars(RunnerStep(w))
    /\ WF_allVars(NonEmpty /\ \E w \in Workers : Drives(w))

-----------------------------------------------------------------------------
(* Properties.                                                             *)

\* Drain on one thread runs everything, as the tests expect of
\* `manual.Drain(); ASSERT_EQ(tasks, kTasks);' (test_strand.cpp:189-191): also
\* what the tasks of a batch submit to their own strand, for which the batch
\* plans another one.
DrainRunsAll ==
    [][\A w \in Workers :
         quiet[w] /\ rpc[w] = "loop" /\ rpc'[w] = "out"
            => executed = pushed /\ manual_tasks = <<>> /\ TaskCount = 0]_allVars

=============================================================================
