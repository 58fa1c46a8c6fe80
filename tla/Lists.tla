--------------------------------- MODULE Lists ---------------------------------
(***************************************************************************)
(* Sets of numbers as lists, for the loops of the program that go through  *)
(* a collection in its order and keep what they are asked for; and loops   *)
(* whose body is a function of the state at their head.                    *)
(***************************************************************************)
EXTENDS Naturals, Sequences

\* The numbers of S up to m in their order.
Ascending(S, m) ==
  LET upTo[n \in 0..m] ==
        IF n = 0 THEN <<>>
        ELSE IF n \in S THEN Append(upTo[n - 1], n) ELSE upTo[n - 1]
  IN  upTo[m]

\* The state after n rounds from s.
Iterate(step, s, n) ==
  LET after[k \in 0..n] == IF k = 0 THEN s ELSE step[after[k - 1]]
  IN  after[n]
=============================================================================
