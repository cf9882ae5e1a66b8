------------------------------ MODULE FifoLock ------------------------------
(***************************************************************************)
(* What a queue lock promises: those who ask for it form a line, the first *)
(* in the line may enter when nobody is inside, and whoever is inside is   *)
(* still the first in the line until it leaves.                            *)
(***************************************************************************)
EXTENDS Naturals, Sequences

CONSTANT Guards

VARIABLES line,    \* those that hold or want the lock, in the order of asking
          inside   \* those that hold it

vars == <<line, inside>>

Init ==
    /\ line = <<>>
    /\ inside = {}

Ask(g) ==
    /\ \A i \in 1..Len(line) : line[i] # g
    /\ line' = Append(line, g)
    /\ UNCHANGED inside

Enter ==
    /\ inside = {}
    /\ line # <<>>
    /\ inside' = {Head(line)}
    /\ UNCHANGED line

Leave ==
    /\ line # <<>>
    /\ inside = {Head(line)}
    /\ inside' = {}
    /\ line' = Tail(line)

Next ==
    \/ \E g \in Guards : Ask(g)
    \/ Enter
    \/ Leave

Spec == Init /\ [][Next]_vars

=============================================================================
