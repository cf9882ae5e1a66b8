-------------------------- MODULE MCBenchAsyncMutex --------------------------
(* Three jthreads; one turn of the loop of run() has two sections.         *)
EXTENDS BenchAsyncMutex, TLC

CONSTANTS c1, c2, c3, t1, t2, t3

CoroutineSet == {c1, c2, c3, Starter}
ThreadSet    == {t1, t2, t3, Main}
RunningOn    == t1 :> c1 @@ t2 :> c2 @@ t3 :> c3
InRun        == c1 :> 2 @@ c2 :> 2 @@ c3 :> 2 @@ Starter :> 1

=============================================================================
