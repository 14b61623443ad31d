--------------------------- MODULE MCGraphLevels ---------------------------
(* Every graph over three identifiers, with every set of outputs; and      *)
(* every workflow of two tasks that writes up to two containers, where c *)
(* is a task of another workflow.                                          *)
EXTENDS Capture, TLC

CONSTANTS a, b, c

MCNode == {a, b, c}
MCResultWraps == {<<>>, <<"named">>, <<"keyed">>, <<"tuple", "dict">>}
MCOwn == Permutations({a, b})
=============================================================================
