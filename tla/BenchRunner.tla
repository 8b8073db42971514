----------------------------- MODULE BenchRunner -----------------------------
(***************************************************************************)
(* The benchmark driver of main.c: the loops of main() over the compiled   *)
(* benchmarks, their variations and their recipes, and the state machine   *)
(* of benchapp_test_runner that drives one recipe.                         *)
(*                                                                         *)
(* A benchmark is seen here through its plug-in interface only: an init    *)
(* function that fills test_info_common_t, a runner that answers a state   *)
(* with a status, and an uninit function.  What the plug-ins of ba_md5.c,  *)
(* ba_aes.c and ba_sha.c keep for themselves is added by other modules.    *)
(***************************************************************************)
EXTENDS Integers, FiniteSets

CONSTANTS
  NPlugins,    \* entries of init_calls, its empty slot 0 left out
  Variations,  \* Variations[b]: the v with info->variations[v] set by init
  Recipes,     \* Recipes[b]: the recipe table init fills, indexed from 0
  MayFail,     \* plug-ins whose runner may answer BENCH_TEST_FAILURE
  MayCrash,    \* plug-ins whose init may find no memory
  Windows,     \* lengths, in clock ticks, a timed window may have
  UsecTicks,   \* clock ticks in a microsecond
  ExactTicks,  \* 2^24: windows shorter than this fit the bits of a float
  MaxShort     \* bound: windows read as no time at all in a row

VARIATION_MAX == 16
RECIPE_SLOTS == 5

Plugin == 1 .. NPlugins

Recipe == [type : {"NONE", "TIME_LIMITED", "EXECUTION_LIMITED"},
           duration : Nat, max_cycle : Nat]

ASSUME PluginAssumption ==
  /\ NPlugins \in Nat
  /\ Variations \in [Plugin -> SUBSET (0 .. VARIATION_MAX - 1)]
  /\ DOMAIN Recipes = Plugin
  /\ \A b \in Plugin :
       \E n \in 0 .. RECIPE_SLOTS : Recipes[b] \in [0 .. n - 1 -> Recipe]

ASSUME ClockAssumption ==
  /\ Windows \subseteq Nat
  /\ UsecTicks \in Nat \ {0} /\ ExactTicks \in Nat \ {0}
  /\ \E w \in Windows : w >= UsecTicks
  /\ MaxShort \in Nat

VARIABLES
  pc,         \* where the program is
  bench,      \* main's i, the plug-in of this pass
  v,          \* main's v: the next variation index to look at
  r,          \* run_recipes' r: the next recipe index to look at
  variation,  \* info->curr_variation_index
  recipe,     \* info->current_recipe_index
  recipes,    \* info->recipes
  state,      \* info->state, written by the driver, read by the runner
  status,     \* info->status, written by the runner, read by the driver
  cycle,      \* info->cycle
  duration,   \* info->duration, in microseconds
  failures,   \* the static counter of main.c
  short,      \* environment: windows read as no time in a row
  calls,      \* history: runner calls made in state RUN for this recipe
  spent,      \* history: ticks of the timed windows of this recipe
  blur,       \* history: ticks by which their readings may be rounded
  done,       \* history: the jobs that have ended
  lost        \* history: the jobs that have ended in a failure

loop == <<bench, v, r, variation, recipe>>
info == <<state, status, cycle, duration>>
history == <<short, calls, spent, blur>>
outcome == <<failures, done, lost>>
vars == <<pc, loop, recipes, info, history, outcome>>

-----------------------------------------------------------------------------
(* The pass main makes when no variation is registered runs with the index *)
(* init left at zero.                                                      *)
Passes(b) == IF Variations[b] = {} THEN {0} ELSE Variations[b]

(* Recipe slots run_recipes does not skip.                                 *)
Active(table) == {q \in DOMAIN table : table[q].type # "NONE"}

(* A job is one recipe under one variation of one benchmark.               *)
Jobs ==
  {j \in Plugin \X (0 .. VARIATION_MAX - 1) \X (0 .. RECIPE_SLOTS - 1) :
     j[2] \in Passes(j[1]) /\ j[3] \in Active(Recipes[j[1]])}

Job == <<bench, variation, recipe>>

(* What the runner of a plug-in writes to info->status for a state.        *)
Answer(s) == CASE s = "INIT" -> "INITIALIZED"
               [] s = "RUN" -> "RUNNING"
               [] s = "UNINIT" -> "UNINITIALIZED"
               [] OTHER -> status

(* Ticks by which a float, rounded once as it takes the difference of two  *)
(* clock values and once as it is divided, may be off.                     *)
Blur(ticks) ==
  IF ticks < ExactTicks THEN 0 ELSE (2 * ticks) \div ExactTicks + 1

(* The microseconds ba_time_diff may give, truncated to a long by its      *)
(* caller: which one of them a rounding leads to is left open.             *)
TimeDiffUsec(ticks) ==
  {d \in 0 .. ticks + Blur(ticks) :
     /\ d * UsecTicks <= ticks + Blur(ticks)
     /\ ticks <= d * UsecTicks + (UsecTicks - 1) + Blur(ticks)}

Init ==
  /\ pc = "init" /\ bench = 1 /\ v = 0 /\ r = 0
  /\ variation = 0 /\ recipe = 0 /\ recipes = <<>>
  /\ state = "IDLE" /\ status = "NONE" /\ cycle = 0 /\ duration = 0
  /\ failures = 0 /\ short = 0 /\ calls = 0 /\ spent = 0 /\ blur = 0
  /\ done = {} /\ lost = {}

-----------------------------------------------------------------------------
(* init_calls[i]() allocates and zeroes the info of the plug-in, registers *)
(* its variations and fills its recipe table.                              *)
InitPlugin ==
  /\ pc = "init" /\ bench \in Plugin
  /\ pc' = "variation" /\ v' = 0
  /\ variation' = 0 /\ recipe' = 0 /\ recipes' = Recipes[bench]
  /\ state' = "IDLE" /\ status' = "NONE" /\ cycle' = 0 /\ duration' = 0
  /\ UNCHANGED <<bench, r, history, outcome>>

(* init found no memory: NULL is dereferenced, by init itself for a buffer *)
(* and by main for the info, and the process is killed.                    *)
InitCrashes ==
  /\ pc = "init" /\ bench \in MayCrash
  /\ pc' = "crashed"
  /\ UNCHANGED <<loop, recipes, info, history, outcome>>

(* Mutant: the test of info->variations[v] is dropped.                     *)
EnterAnyVariation ==
  /\ pc = "variation" /\ v < VARIATION_MAX
  /\ variation' = v /\ v' = v + 1
  /\ pc' = "recipe" /\ r' = 0
  /\ UNCHANGED <<bench, recipe, recipes, info, history, outcome>>

(* main takes the next registered variation and calls run_recipes.         *)
EnterVariation ==
  /\ pc = "variation"
  /\ \E u \in Passes(bench) :
       /\ u >= v
       /\ \A t \in Passes(bench) : t >= v => u <= t
       /\ variation' = u /\ v' = u + 1
  /\ pc' = "recipe" /\ r' = 0
  /\ UNCHANGED <<bench, recipe, recipes, info, history, outcome>>

(* No variation is left: uninit_calls[i](info), and main moves on.         *)
UninitPlugin ==
  /\ pc = "variation" /\ \A u \in Passes(bench) : u < v
  /\ pc' = "init" /\ bench' = bench + 1
  /\ UNCHANGED <<v, r, variation, recipe, recipes, info, history, outcome>>

(* Mutant: the runner's state is not set to INIT.                          *)
EnterRecipeKeepsState ==
  /\ pc = "recipe"
  /\ \E q \in Active(recipes) :
       /\ q >= r
       /\ \A t \in Active(recipes) : t >= r => q <= t
       /\ recipe' = q /\ r' = q + 1
  /\ pc' = "call" /\ calls' = 0 /\ spent' = 0 /\ blur' = 0
  /\ UNCHANGED <<bench, v, variation, recipes, info, short, outcome>>

(* run_recipes takes the next recipe and enters benchapp_test_runner.      *)
EnterRecipe ==
  /\ pc = "recipe"
  /\ \E q \in Active(recipes) :
       /\ q >= r
       /\ \A t \in Active(recipes) : t >= r => q <= t
       /\ recipe' = q /\ r' = q + 1
  /\ pc' = "call" /\ state' = "INIT"
  /\ calls' = 0 /\ spent' = 0 /\ blur' = 0
  /\ UNCHANGED <<bench, v, variation, recipes, status, cycle, duration,
                 short, outcome>>

LeaveRecipes ==
  /\ pc = "recipe" /\ \A q \in Active(recipes) : q < r
  /\ pc' = "variation"
  /\ UNCHANGED <<loop, recipes, info, history, outcome>>

-----------------------------------------------------------------------------
(* benchapp_test_runner: one round of its loop is a call of the runner and *)
(* the switch on the status it left.                                       *)
CallRunner ==
  /\ pc = "call"
  /\ pc' = "status" /\ status' = Answer(state)
  /\ calls' = IF state = "RUN" THEN calls + 1 ELSE calls
  /\ UNCHANGED <<loop, recipes, state, cycle, duration, short, spent, blur,
                 outcome>>

(* Mutant: a failure leaves run_recipes, not only the runner.              *)
CallFailsForAll ==
  /\ pc = "call" /\ bench \in MayFail
  /\ failures' = failures + 1
  /\ done' = done \cup {Job} /\ lost' = lost \cup {Job}
  /\ pc' = "variation"
  /\ UNCHANGED <<loop, recipes, info, history>>

CallFails ==
  /\ pc = "call" /\ bench \in MayFail
  /\ failures' = failures + 1
  /\ done' = done \cup {Job} /\ lost' = lost \cup {Job}
  /\ pc' = "recipe"
  /\ UNCHANGED <<loop, recipes, info, history>>

(* Mutant: the count of the recipe before is not reset.                    *)
OnInitializedKeepsCycle ==
  /\ pc = "status" /\ status = "INITIALIZED"
  /\ state' = "RUN" /\ duration' = 0
  /\ pc' = "call"
  /\ UNCHANGED <<loop, recipes, status, cycle, history, outcome>>

OnInitialized ==
  /\ pc = "status" /\ status = "INITIALIZED"
  /\ state' = "RUN" /\ cycle' = 0 /\ duration' = 0
  /\ pc' = "call"
  /\ UNCHANGED <<loop, recipes, status, history, outcome>>

(* Mutant: the limits are compared with > instead of >=.                   *)
UsedUpLate(total) ==
  IF recipes[recipe].type = "TIME_LIMITED"
  THEN total > recipes[recipe].duration
  ELSE cycle > recipes[recipe].max_cycle

(* Does the round that ends with this total use up the recipe?             *)
UsedUp(total) ==
  IF recipes[recipe].type = "TIME_LIMITED"
  THEN total >= recipes[recipe].duration
  ELSE cycle >= recipes[recipe].max_cycle

CycleAfter(total) == IF UsedUp(total) THEN cycle ELSE cycle + 1

RecipesAfter(tdiff) ==
  IF recipes[recipe].type = "TIME_LIMITED" THEN recipes
  ELSE [recipes EXCEPT ![recipe].duration = tdiff]

(* The window since ts_start is w ticks long and read as tdiff: it holds   *)
(* the call and, from the second round on, the ba_usleep(0) before it.     *)
OnRunning(w, tdiff) ==
  LET total == duration + tdiff IN
  /\ pc = "status" /\ status = "RUNNING"
  /\ tdiff > 0 \/ short < MaxShort
  /\ duration' = total
  /\ recipes' = RecipesAfter(tdiff)
  /\ state' = IF UsedUp(total) THEN "UNINIT" ELSE state
  /\ cycle' = CycleAfter(total)
  /\ short' = IF tdiff = 0 THEN short + 1 ELSE 0
  /\ spent' = spent + w /\ blur' = blur + Blur(w)
  /\ pc' = "call"
  /\ UNCHANGED <<loop, status, calls, outcome>>

(* Mutant: the return is missing, and the loop goes on in state IDLE.      *)
OnUninitializedBreaks ==
  /\ pc = "status" /\ status = "UNINITIALIZED"
  /\ state' = "IDLE" /\ pc' = "call"
  /\ UNCHANGED <<loop, recipes, status, cycle, duration, history, outcome>>

OnUninitialized ==
  /\ pc = "status" /\ status = "UNINITIALIZED"
  /\ state' = "IDLE"
  /\ done' = done \cup {Job}
  /\ pc' = "recipe"
  /\ UNCHANGED <<loop, recipes, status, cycle, duration, history,
                 failures, lost>>

-----------------------------------------------------------------------------
(* Mutant: the loop of main stops one entry short of the table's end.      *)
ExitEarly ==
  /\ pc = "init" /\ bench \notin 1 .. NPlugins - 1
  /\ pc' = "exited"
  /\ UNCHANGED <<loop, recipes, info, history, outcome>>

(* main returns 0 whatever failed; app_exit, its atexit callback, reports. *)
Exit ==
  /\ pc = "init" /\ bench \notin Plugin
  /\ pc' = "exited"
  /\ UNCHANGED <<loop, recipes, info, history, outcome>>

Ended == pc \in {"exited", "crashed"} /\ UNCHANGED vars

Next ==
  \/ InitPlugin \/ InitCrashes
  \/ EnterVariation \/ UninitPlugin
  \/ EnterRecipe \/ LeaveRecipes
  \/ CallRunner \/ CallFails
  \/ OnInitialized
  \/ \E w \in Windows : \E tdiff \in TimeDiffUsec(w) : OnRunning(w, tdiff)
  \/ OnUninitialized
  \/ Exit \/ Ended

(* One thread runs the program, and nothing in it waits for anything else. *)
Spec == Init /\ [][Next]_vars /\ WF_vars(Next)

-----------------------------------------------------------------------------
TypeOK ==
  /\ pc \in {"init", "variation", "recipe", "call", "status",
             "exited", "crashed"}
  /\ bench \in 1 .. NPlugins + 1
  /\ v \in Nat /\ r \in Nat /\ variation \in Nat /\ recipe \in Nat
  /\ pc \in {"variation", "recipe", "call", "status"} =>
       /\ bench \in Plugin
       /\ recipes \in [DOMAIN Recipes[bench] -> Recipe]
  /\ pc \in {"recipe", "call", "status"} => variation \in Passes(bench)
  /\ pc \in {"call", "status"} => recipe \in Active(recipes)
  /\ state \in {"IDLE", "INIT", "RUN", "UNINIT"}
  /\ status \in {"NONE", "INITIALIZED", "RUNNING", "UNINITIALIZED"}
  /\ cycle \in Nat /\ duration \in Nat /\ failures \in Nat
  /\ short \in Nat /\ calls \in Nat /\ spent \in Nat /\ blur \in Nat
  /\ done \subseteq Jobs /\ lost \subseteq done

(* Has the driver passed job j, going by where its three loops stand?      *)
Passed(j) ==
  \/ j[1] < bench
  \/ /\ pc \in {"variation", "recipe", "call", "status"}
     /\ j[1] = bench
     /\ \/ pc = "variation" /\ j[2] < v
        \/ pc # "variation" /\ j[2] < variation
        \/ pc = "recipe" /\ j[2] = variation /\ j[3] < r
        \/ pc \in {"call", "status"} /\ j[2] = variation /\ j[3] < recipe

(* The three loops carry out every job once, in the order of the tables:   *)
(* a failed recipe, a skipped slot, an unregistered variation or the pass  *)
(* made for no variation at all loses and repeats nothing (main.c:113-153).*)
JobsInOrder == done = {j \in Jobs : Passed(j)}

(* A time limited recipe is wound down only when its time is reached, and  *)
(* its runner is called again only while some of it is left.  An execution *)
(* limited one is wound down only after at least its number of calls, and  *)
(* makes one call more than that at most: the count is compared before the *)
(* call just made is added to it (main.c:67-76, 82), so that the limit     *)
(* itself is not kept (see ExecutionLimitKept).                            *)
StopsOnBudget ==
  LET rec == recipes[recipe] IN
  pc \in {"call", "status"} =>
    IF rec.type = "TIME_LIMITED"
    THEN /\ state = "UNINIT" => duration >= rec.duration
         /\ state = "RUN" /\ cycle > 0 => duration < rec.duration
    ELSE /\ state = "UNINIT" => calls >= rec.max_cycle
         /\ calls <= rec.max_cycle + 1

(* In front of a call info->cycle, which a failure prints (main.c:46), is  *)
(* the number of calls made in this recipe alone, and at the end of the    *)
(* recipe, where it is printed as the number of test calls, it misses one  *)
(* call at most (main.c:55, 80-83): that one call is missing is            *)
(* what ReportedCallsWereMade denies.                                      *)
CallsCounted ==
  /\ pc = "call" /\ state = "RUN" => calls = cycle
  /\ pc = "status" /\ state = "RUN" => calls = cycle + 1
  /\ pc \in {"call", "status"} /\ state = "UNINIT" =>
       calls \in {cycle, cycle + 1}

(* Up to what the rounding of long windows adds or takes, the reported     *)
(* duration never exceeds the time the windows took, and the truncation of *)
(* each window costs it less than a microsecond per call (main.c:63-66,    *)
(* ba_port.c:113-123).                                                     *)
ClockAccounting ==
  pc \in {"call", "status"} /\ state \in {"RUN", "UNINIT"} =>
    /\ duration * UsecTicks <= spent + blur
    /\ spent <= duration * UsecTicks + calls * (UsecTicks - 1) + blur

(* Exactly the recipes that failed are counted, so app_exit announces a    *)
(* success only when every recipe went through (main.c:45-48, 103-109).    *)
FailuresCounted == failures = Cardinality(lost)

(* What a recipe asks for is the same in every variation, although its     *)
(* table entry is written while it runs (main.c:72): only the duration of  *)
(* an execution limited recipe, which nobody reads, is overwritten.        *)
BudgetKept ==
  pc \in {"variation", "recipe", "call", "status"} =>
    \A q \in DOMAIN recipes :
      LET was == Recipes[bench][q] IN
      /\ recipes[q].type = was.type
      /\ recipes[q].max_cycle = was.max_cycle
      /\ was.type = "TIME_LIMITED" => recipes[q].duration = was.duration

(* The line "Number of %lu test calls" printed at the end of a recipe      *)
(* (main.c:91) gives the number of calls of the runner that were timed.    *)
ReportedCallsWereMade ==
  pc = "status" /\ status = "UNINITIALIZED" => cycle = calls

(* The "Exec Limit" of a recipe (configs/Config.md5:40), its max_cycle, is *)
(* a limit on the test calls made for it (main.c:73).                      *)
ExecutionLimitKept ==
  pc \in {"call", "status"} /\ recipes[recipe].type = "EXECUTION_LIMITED" =>
    calls <= recipes[recipe].max_cycle

(* So a recipe limited to a number of calls that comes to its end has made *)
(* no more than these, and as many as it prints.  Here the code does       *)
(* neither: it prints the limit, having made one call more.                *)
LimitedCallsReported ==
  (/\ pc = "status" /\ status = "UNINITIALIZED"
   /\ recipes[recipe].type = "EXECUTION_LIMITED")
    => ExecutionLimitKept /\ ReportedCallsWereMade

(* The driver seen as the plan it carries out: only the end of a job, the  *)
(* exit and the crash show.                                                *)
Plan == INSTANCE BenchPlan WITH
  phase <- IF pc \in {"exited", "crashed"} THEN pc ELSE "running"

(* The driver keeps the promise of BenchPlan, that it gets to the end of   *)
(* the table included (main.c:103-153).                                    *)
PlanKept == Plan!Spec

(* A recipe gets what its table entry asks for, but for one call too many, *)
(* and what is left of the entry is what it said at first, whatever the    *)
(* driver writes there (main.c:64-83).                                     *)
BudgetsHold == StopsOnBudget /\ BudgetKept

(* The counts kept are those of this recipe, of its time and of this run,  *)
(* that of its calls to within the last one (main.c:45-49, 64-83).         *)
CountersRight == CallsCounted /\ ClockAccounting /\ FailuresCounted

(* The state of the last call of the recipe under way: in front of a call, *)
(* info->state is what is asked for next.                                  *)
LastCall ==
  IF pc = "status" THEN state
  ELSE IF pc # "call" \/ state = "INIT" THEN "IDLE"
  ELSE IF state = "RUN" /\ calls = 0 THEN "INIT"
  ELSE "RUN"

Calls == INSTANCE RunnerCalls WITH
  phase <- LastCall, Variations <- 0 .. VARIATION_MAX - 1

(* Runners are called as RunnerCalls says: never to run before INIT or     *)
(* after UNINIT, never to finish what has not run, never under another     *)
(* variation than they were set up for (main.c:43-100, 135-150).           *)
CallsKept == Calls!Spec

(* Every recipe that is entered is left again, whichever its kind.         *)
RecipesEnd == pc = "call" ~> pc = "recipe"
=============================================================================
