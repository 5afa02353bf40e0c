---------------------------- MODULE MCLifecycle ----------------------------
(* One or two Machines use the host, with one or two attempts each, or the *)
(* host is in the hands of a Machine of an earlier provider version.       *)
EXTENDS Lifecycle, TLC

CONSTANTS m1, m2, old, a1, a2, b1

OneMachine   == {m1}
TwoMachines  == {m1, m2}
WithLegacy   == {m1, m2, old}
OneAttempt   == {a1}
Retried      == {a1, a2}
OneEach      == {a1, b1}
MCUidOf      == [a \in Attempts |-> IF a = b1 THEN m2 ELSE m1]
Symmetry     == Permutations(Workers)

\* m1 with its only attempt a1 and m2 with b1 are alike.
Swapped      == [x \in {m1, m2, a1, b1} |->
                   CASE x = m1 -> m2 [] x = m2 -> m1 [] x = a1 -> b1 [] x = b1 -> a1]
FullSymmetry == Symmetry \union {Swapped @@ p : p \in Symmetry}
============================================================================
