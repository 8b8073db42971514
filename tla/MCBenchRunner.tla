---------------------------- MODULE MCBenchRunner ----------------------------
(* A small instance of BenchRunner: one plug-in without variations, as MD5 *)
(* is, with a time limited recipe, an unused slot and an execution limited *)
(* recipe, and one with variations 0 and 2.                                *)
EXTENDS BenchRunner, TLC

Timed(usecs) == [type |-> "TIME_LIMITED", duration |-> usecs, max_cycle |-> 0]
Counted(n) ==
  [type |-> "EXECUTION_LIMITED", duration |-> 0, max_cycle |-> n]

MCVariations == 1 :> {} @@ 2 :> {0, 2}
MCRecipes ==
  1 :> (0 :> Timed(3) @@ 1 :> Counted(2)) @@
  2 :> (0 :> Counted(0) @@ 1 :> Timed(2))
MCMayFail == {2}
MCMayCrash == {2}
MCWindows == {1, 2, 5}
=============================================================================
