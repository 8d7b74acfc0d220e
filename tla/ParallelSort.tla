---------------------------- MODULE ParallelSort ----------------------------
(***************************************************************************)
(* What every sort of the repository promises, however it spreads the      *)
(* work: from an array of keys it produces, once, the same keys in order.  *)
(* The detailed specifications are checked to implement this one.          *)
(***************************************************************************)
EXTENDS Integers, Sequences, FiniteSets

VARIABLES input,    \* the keys to sort
          output,   \* the result
          done      \* whether it has been produced

vars == <<input, output, done>>

Occurrences(s, v) == Cardinality({i \in DOMAIN s : s[i] = v})

Ordered(s) == \A i \in 1..Len(s) - 1 : s[i] <= s[i+1]

SortedPermutation(s, t) ==
  /\ Len(s) = Len(t)
  /\ Ordered(t)
  /\ \A i \in DOMAIN s : Occurrences(s, s[i]) = Occurrences(t, s[i])

Init == output = <<>> /\ ~done

Sort == /\ ~done
        /\ done'
        /\ SortedPermutation(input, output')
        /\ UNCHANGED input

\* what it produces, if it does
Steps == Init /\ [][Sort]_vars

Spec == Steps /\ <>done
=============================================================================
