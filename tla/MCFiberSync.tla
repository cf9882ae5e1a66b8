---------------------------- MODULE MCFiberSync ----------------------------
(* The fibers of the run of FiberSync.  One Done is counted before it      *)
(* starts and one fiber adds its own; two fibers wait in the group; two    *)
(* wait for the event, one of them twice; and two fire.                    *)
EXTENDS FiberSync, TLC

CONSTANTS f1, f2, f3, f4

FiberSet == {f1, f2, f3, f4}

Calling ==
    f1 :> <<"Done", "Event::Wait", "Event::Wait">>
    @@ f2 :> <<"WaitGroup::Wait", "Event::Wait">>
    @@ f3 :> <<"WaitGroup::Wait", "Fire">>
    @@ f4 :> <<"Add", "Done", "Fire">>

=============================================================================
