------------------------------ MODULE BenchPlan ------------------------------
(***************************************************************************)
(* What a user of benchapp is promised: every job (a recipe under one      *)
(* variation of one benchmark) is carried out exactly once, benchmarks in  *)
(* the order of the table, variations and recipes in the order of their    *)
(* indices, whether or not earlier ones failed; then the program exits.    *)
(***************************************************************************)
EXTENDS Integers

CONSTANTS
  Jobs,      \* the triples <<benchmark, variation, recipe>> to carry out
  MayCrash   \* benchmarks that may take the process down when they start

VARIABLES phase, done, lost
vars == <<phase, done, lost>>

(* The order of main's three nested loops.                                 *)
Before(i, j) ==
  \/ i[1] < j[1]
  \/ i[1] = j[1] /\ i[2] < j[2]
  \/ i[1] = j[1] /\ i[2] = j[2] /\ i[3] < j[3]

Init == phase = "running" /\ done = {} /\ lost = {}

Finish(j) ==
  /\ phase = "running"
  /\ j \notin done /\ \A i \in Jobs : Before(i, j) => i \in done
  /\ done' = done \cup {j}
  /\ lost' \in {lost, lost \cup {j}}
  /\ UNCHANGED phase

Exit ==
  /\ phase = "running" /\ done = Jobs
  /\ phase' = "exited" /\ UNCHANGED <<done, lost>>

(* A benchmark goes down only before its first job.                        *)
Crash(b) ==
  /\ phase = "running"
  /\ \A j \in Jobs : j \in done <=> j[1] < b
  /\ phase' = "crashed" /\ UNCHANGED <<done, lost>>

Next ==
  \/ \E j \in Jobs : Finish(j)
  \/ Exit
  \/ \E b \in MayCrash : Crash(b)

Spec == Init /\ [][Next]_vars /\ WF_vars(Next)
=============================================================================
