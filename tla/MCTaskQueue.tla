----------------------------- MODULE MCTaskQueue -----------------------------
(* Two tasks resume the same coroutine, which drives another one; a third  *)
(* is cancelled before it is submitted, a fourth is a function.  Two       *)
(* clients wait for the first task.                                        *)
EXTENDS TaskQueue, TLC

CONSTANTS k1, k2, k3, t1, t2, t3, t4, outer, inner

ClientSet == {k1, k2, k3}
TaskSet == {t1, t2, t3, t4}
CoroutineSet == {outer, inner}

Calling ==
    k1 :> <<<<"submit", t1>>, <<"wait", t1>>, <<"submit", t2>>>>
    @@ k2 :> <<<<"cancel", t3>>, <<"submit", t3>>, <<"wait", t1>>>>
    @@ k3 :> <<<<"submit", t4>>, <<"close", NoTask>>>>

Bodies == t1 :> outer @@ t2 :> outer @@ t3 :> NoCoro @@ t4 :> NoCoro
Driven == outer :> inner @@ inner :> NoCoro

=============================================================================
