------------------------------ MODULE Coroutine ------------------------------
(***************************************************************************)
(* NCoro::Coroutine (src/coro/coro.cpp) on the switch of contexts          *)
(* (src/context/context.cpp).  Resume and Suspend find their coroutine in  *)
(* the thread_local current_coro, which each Resume sets and, when control *)
(* comes back, sets to what it was.                                        *)
(*                                                                         *)
(* coro_stack[a] is what really executes on thread a: the coroutines that  *)
(* were switched to and have not switched back, innermost last.            *)
(***************************************************************************)
EXTENDS Naturals, Sequences

CONSTANTS Threads, Coroutines, NoCoro

VARIABLES
    current_coro,   \* thread_local: current_coro[a]
    caller_coro,    \* caller_coro[c]: the local of the Resume that c runs in
    is_completed,
    coro_stack,
    back,           \* back[a]: the coroutine whose Resume goes on after SwitchTo
    lost            \* a Suspend saved its context in another coroutine

coroVars == <<current_coro, caller_coro, is_completed, coro_stack, back, lost>>

CoroInit ==
    /\ current_coro = [a \in Threads |-> NoCoro]
    /\ caller_coro = [c \in Coroutines |-> NoCoro]
    /\ is_completed = [c \in Coroutines |-> FALSE]
    /\ coro_stack = [a \in Threads |-> <<>>]
    /\ back = [a \in Threads |-> NoCoro]
    /\ lost = FALSE

Executing(a) ==
    IF coro_stack[a] = <<>> THEN NoCoro ELSE coro_stack[a][Len(coro_stack[a])]

\* Resume up to caller_ctx_.SwitchTo(coro_ctx_).
Resume(a, c) ==
    /\ back[a] = NoCoro
    /\ caller_coro' = [caller_coro EXCEPT ![c] = current_coro[a]]
    /\ current_coro' = [current_coro EXCEPT ![a] = c]
    /\ coro_stack' = [coro_stack EXCEPT ![a] = Append(@, c)]
    /\ UNCHANGED <<is_completed, back, lost>>

\* The switch from the innermost coroutine to its caller_ctx_.
SwitchBack(a) ==
    /\ back' = [back EXCEPT ![a] = Executing(a)]
    /\ coro_stack' = [coro_stack EXCEPT ![a] = SubSeq(@, 1, Len(@) - 1)]
    /\ UNCHANGED <<current_coro, caller_coro>>

\* Suspend acts on whatever current_coro names.
Suspend(a) ==
    /\ back[a] = NoCoro
    /\ lost' = (lost \/ current_coro[a] # Executing(a))
    /\ SwitchBack(a)
    /\ UNCHANGED is_completed

\* Run: the routine has returned, or thrown, which is swallowed.
RoutineEnds(a) ==
    /\ back[a] = NoCoro
    /\ is_completed' = [is_completed EXCEPT ![Executing(a)] = TRUE]
    /\ SwitchBack(a)
    /\ UNCHANGED lost

\* Fault: Resume leaves current_coro at the coroutine it has resumed.
ResumeReturnsUnrestored(a) ==
    /\ back[a] # NoCoro
    /\ back' = [back EXCEPT ![a] = NoCoro]
    /\ UNCHANGED <<current_coro, caller_coro, is_completed, coro_stack, lost>>

\* The rest of Resume.
ResumeReturns(a) ==
    /\ back[a] # NoCoro
    /\ current_coro' = [current_coro EXCEPT ![a] = caller_coro[back[a]]]
    /\ back' = [back EXCEPT ![a] = NoCoro]
    /\ UNCHANGED <<caller_coro, is_completed, coro_stack, lost>>

=============================================================================
