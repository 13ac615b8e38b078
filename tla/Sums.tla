--------------------------------- MODULE Sums ---------------------------------
(***************************************************************************)
(* What the values of a function add up to over a set of arguments.        *)
(***************************************************************************)
EXTENDS Integers, FiniteSetsExt

SumOver(f, S) == MapThenSumSet(LAMBDA x : f[x], S)
===============================================================================
