-------------------------- MODULE BenchRunner_proofs --------------------------
(***************************************************************************)
(* Proofs about the driver of main.c, for every set of plug-ins, every     *)
(* recipe table and every clock.                                           *)
(***************************************************************************)
EXTENDS BenchRunner, FiniteSetTheorems, TLAPS

(* The strengthening: where the loops stand, what the runner last said and *)
(* the properties themselves, which lean on one another.                   *)
Control ==
  /\ pc \in {"recipe", "call", "status"} => v = variation + 1
  /\ pc \in {"call", "status"} => r = recipe + 1
  /\ pc \in {"call", "status"} => state # "IDLE"
  /\ pc = "status" => status = Answer(state)
  /\ IsFiniteSet(lost)

(* The histories start afresh with every recipe.                           *)
FreshCounters ==
  pc \in {"call", "status"} /\ state = "INIT" =>
    calls = 0 /\ spent = 0 /\ blur = 0

(* A call that was made has no window yet, so the bound on what truncation *)
(* cost is one call better there than ClockAccounting says.                *)
OldWindows ==
  pc = "status" /\ state = "RUN" =>
    /\ duration * UsecTicks <= spent + blur
    /\ spent <= duration * UsecTicks + cycle * (UsecTicks - 1) + blur

(* What the limits are compared with: cycle, whatever the calls made.      *)
BudgetByCycle ==
  LET rec == recipes[recipe] IN
  pc \in {"call", "status"} =>
    /\ state = "UNINIT" =>
         IF rec.type = "TIME_LIMITED" THEN duration >= rec.duration
                                      ELSE cycle = rec.max_cycle
    /\ state = "RUN" /\ cycle > 0 =>
         IF rec.type = "TIME_LIMITED" THEN duration < rec.duration
                                      ELSE cycle <= rec.max_cycle

(* How far cycle is behind the calls made: one call from the moment it is  *)
(* made until its round is over, and for good once the recipe is used up.  *)
CycleLags ==
  /\ pc = "call" /\ state = "RUN" => calls = cycle
  /\ pc = "status" /\ state = "RUN" => calls = cycle + 1
  /\ pc \in {"call", "status"} /\ state = "UNINIT" => calls = cycle + 1

IInv ==
  /\ TypeOK /\ Control /\ BudgetKept
  /\ FreshCounters /\ OldWindows
  /\ JobsInOrder /\ FailuresCounted
  /\ BudgetByCycle /\ CycleLags /\ ClockAccounting

-----------------------------------------------------------------------------
(* A table whose entries keep their types has the same active slots.       *)
LEMMA ActiveKept ==
  ASSUME NEW b \in Plugin, NEW t, DOMAIN t = DOMAIN Recipes[b],
         \A q \in DOMAIN t : t[q].type = Recipes[b][q].type
  PROVE  Active(t) = Active(Recipes[b])
BY DEF Active

(* Variations and recipe slots are small numbers, so jobs are triples.     *)
LEMMA PassesRange ==
  ASSUME NEW b \in Plugin
  PROVE  /\ Passes(b) \subseteq 0 .. VARIATION_MAX - 1
         /\ Active(Recipes[b]) \subseteq 0 .. RECIPE_SLOTS - 1
<1>1. Passes(b) \subseteq 0 .. VARIATION_MAX - 1
  BY PluginAssumption DEF Passes, VARIATION_MAX
<1>2. PICK n \in 0 .. RECIPE_SLOTS : Recipes[b] \in [0 .. n - 1 -> Recipe]
  BY PluginAssumption
<1>3. DOMAIN Recipes[b] \subseteq 0 .. RECIPE_SLOTS - 1
  BY <1>2 DEF RECIPE_SLOTS
<1> QED BY <1>1, <1>3 DEF Active

LEMMA InitInv == Init => IInv
<1> SUFFICES ASSUME Init PROVE IInv OBVIOUS
<1> USE DEF Init
<1>1. TypeOK
  BY PluginAssumption DEF TypeOK, Jobs
<1>2. JobsInOrder
  BY DEF JobsInOrder, Jobs, Passed, Plugin
<1>3. FailuresCounted
  BY FS_EmptySet DEF FailuresCounted
<1> QED
  BY <1>1, <1>2, <1>3, FS_EmptySet DEF IInv, Control, BudgetKept, BudgetByCycle,
     CycleLags, ClockAccounting,
         FreshCounters, OldWindows

(* One round of bookkeeping: a step that leaves the table alone keeps it.  *)
LEMMA InitPluginInv == IInv /\ InitPlugin => IInv'
<1> SUFFICES ASSUME IInv, InitPlugin PROVE IInv' OBVIOUS
<1> USE DEF IInv, InitPlugin, history, outcome
<1>1. /\ pc = "init" /\ bench \in Plugin /\ pc' = "variation"
      /\ \E n \in 0 .. RECIPE_SLOTS : Recipes[bench] \in [0 .. n - 1 -> Recipe]
  BY PluginAssumption
<1>2. TypeOK'
  BY <1>1 DEF TypeOK, Jobs
<1>3. Control' /\ BudgetKept'
  BY <1>1 DEF Control, BudgetKept
<1>4. JobsInOrder'
  <2>1. \A j \in Jobs : Passed(j)' <=> Passed(j)
    BY <1>1, PassesRange DEF Passed, Jobs
  <2> QED BY <2>1 DEF JobsInOrder, Jobs
<1>5. FailuresCounted' /\ BudgetByCycle' /\ CycleLags' /\ ClockAccounting'
      /\ FreshCounters' /\ OldWindows'
  BY <1>1 DEF FailuresCounted, BudgetByCycle, CycleLags, ClockAccounting,
         FreshCounters, OldWindows
<1> QED BY <1>2, <1>3, <1>4, <1>5

LEMMA EnterVariationInv == IInv /\ EnterVariation => IInv'
<1> SUFFICES ASSUME IInv, EnterVariation PROVE IInv' OBVIOUS
<1> USE DEF IInv, EnterVariation, info, history, outcome
<1>1. PICK u \in Passes(bench) :
        /\ u >= v /\ \A t \in Passes(bench) : t >= v => u <= t
        /\ variation' = u /\ v' = u + 1
  OBVIOUS
<1>2. pc = "variation" /\ bench \in Plugin /\ u \in 0 .. VARIATION_MAX - 1
  BY <1>1, PassesRange DEF TypeOK
<1>3. TypeOK'
  BY <1>1, <1>2 DEF TypeOK, VARIATION_MAX
<1>4. Control' /\ BudgetKept'
  BY <1>1, <1>2 DEF Control, BudgetKept
<1>5. JobsInOrder'
  <2>1. \A j \in Jobs : Passed(j)' <=> Passed(j)
    <3> SUFFICES ASSUME NEW j \in Jobs PROVE Passed(j)' <=> Passed(j)
      OBVIOUS
    <3>1. /\ j[1] \in Plugin /\ j[2] \in Passes(j[1]) /\ j[2] \in Nat
          /\ j[3] \in Nat /\ v \in Nat /\ u \in Nat
      BY <1>2 DEF Jobs, TypeOK, VARIATION_MAX, RECIPE_SLOTS
    <3> QED BY <1>1, <1>2, <3>1 DEF Passed
  <2> QED BY <2>1 DEF JobsInOrder, Jobs
<1>6. FailuresCounted' /\ BudgetByCycle' /\ CycleLags' /\ ClockAccounting'
      /\ FreshCounters' /\ OldWindows'
  BY <1>2 DEF FailuresCounted, BudgetByCycle, CycleLags, ClockAccounting,
         FreshCounters, OldWindows
<1> QED BY <1>3, <1>4, <1>5, <1>6

LEMMA UninitPluginInv == IInv /\ UninitPlugin => IInv'
<1> SUFFICES ASSUME IInv, UninitPlugin PROVE IInv' OBVIOUS
<1> USE DEF IInv, UninitPlugin, info, history, outcome
<1>1. bench \in Plugin /\ NPlugins \in Nat /\ pc = "variation"
  BY PluginAssumption DEF TypeOK
<1>2. TypeOK'
  BY <1>1 DEF TypeOK, Plugin
<1>3. Control' /\ BudgetKept'
  BY DEF Control, BudgetKept
<1>4. JobsInOrder'
  <2>1. \A j \in Jobs : Passed(j)' <=> Passed(j)
    <3> SUFFICES ASSUME NEW j \in Jobs PROVE Passed(j)' <=> Passed(j)
      OBVIOUS
    <3>1. j[1] \in Plugin /\ j[2] \in Passes(j[1])
      BY DEF Jobs
    <3> QED BY <1>1, <3>1 DEF Passed, Plugin
  <2> QED BY <2>1 DEF JobsInOrder, Jobs
<1>5. FailuresCounted' /\ BudgetByCycle' /\ CycleLags' /\ ClockAccounting'
      /\ FreshCounters' /\ OldWindows'
  BY DEF FailuresCounted, BudgetByCycle, CycleLags, ClockAccounting,
         FreshCounters, OldWindows
<1> QED BY <1>2, <1>3, <1>4, <1>5

(* The slots of the table in use are those init filled in.                 *)
LEMMA ActiveSlots ==
  ASSUME IInv, pc \in {"recipe", "call", "status"}
  PROVE  /\ Active(recipes) = Active(Recipes[bench])
         /\ Active(recipes) \subseteq 0 .. RECIPE_SLOTS - 1
         /\ variation \in 0 .. VARIATION_MAX - 1
         /\ pc \in {"call", "status"} =>
              Job \in Jobs /\ Job \notin done
<1>1. bench \in Plugin /\ variation \in Passes(bench)
  BY DEF IInv, TypeOK
<1>2. Active(recipes) = Active(Recipes[bench])
  BY <1>1, ActiveKept DEF IInv, TypeOK, BudgetKept
<1>3. ASSUME pc \in {"call", "status"} PROVE Job \in Jobs /\ Job \notin done
  <2>1. recipe \in Active(Recipes[bench])
    BY <1>2, <1>3 DEF IInv, TypeOK
  <2>2. Job \in Jobs
    BY <1>1, <2>1, PassesRange DEF Job, Jobs
  <2>3. bench \in Nat /\ variation \in Nat /\ recipe \in Nat
    BY DEF IInv, TypeOK
  <2>4. ~ Passed(Job)
    BY <1>3, <2>3 DEF Passed, Job
  <2> QED BY <2>2, <2>4 DEF IInv, JobsInOrder
<1> QED BY <1>1, <1>2, <1>3, PassesRange

LEMMA EnterRecipeInv == IInv /\ EnterRecipe => IInv'
<1> SUFFICES ASSUME IInv, EnterRecipe PROVE IInv' OBVIOUS
<1> USE DEF IInv, EnterRecipe, outcome
<1>1. PICK q \in Active(recipes) :
        /\ q >= r /\ \A t \in Active(recipes) : t >= r => q <= t
        /\ recipe' = q /\ r' = q + 1
  OBVIOUS
<1>2. /\ pc = "recipe" /\ bench \in Plugin
      /\ Active(recipes) = Active(Recipes[bench])
      /\ q \in 0 .. RECIPE_SLOTS - 1
  BY <1>1, ActiveSlots DEF TypeOK
<1>3. TypeOK'
  BY <1>1, <1>2 DEF TypeOK, RECIPE_SLOTS
<1>4. Control' /\ BudgetKept'
  BY <1>1, <1>2 DEF Control, BudgetKept
<1>5. JobsInOrder'
  <2>1. \A j \in Jobs : Passed(j)' <=> Passed(j)
    <3> SUFFICES ASSUME NEW j \in Jobs PROVE Passed(j)' <=> Passed(j)
      OBVIOUS
    <3>1. /\ j[3] \in Nat /\ r \in Nat /\ q \in Nat
          /\ j[1] = bench => j[3] \in Active(recipes)
      BY <1>2 DEF Jobs, TypeOK, RECIPE_SLOTS
    <3> QED BY <1>1, <1>2, <3>1 DEF Passed
  <2> QED BY <2>1 DEF JobsInOrder, Jobs
<1>6. FailuresCounted' /\ BudgetByCycle' /\ CycleLags' /\ ClockAccounting'
      /\ FreshCounters' /\ OldWindows'
  BY <1>2 DEF FailuresCounted, BudgetByCycle, CycleLags, ClockAccounting,
         FreshCounters, OldWindows
<1> QED BY <1>3, <1>4, <1>5, <1>6

LEMMA LeaveRecipesInv == IInv /\ LeaveRecipes => IInv'
<1> SUFFICES ASSUME IInv, LeaveRecipes PROVE IInv' OBVIOUS
<1> USE DEF IInv, LeaveRecipes, loop, info, history, outcome
<1>1. /\ pc = "recipe" /\ bench \in Plugin /\ v = variation + 1
      /\ Active(recipes) = Active(Recipes[bench])
  BY ActiveSlots DEF TypeOK, Control
<1>2. TypeOK' /\ Control' /\ BudgetKept'
  BY <1>1 DEF TypeOK, Control, BudgetKept
<1>3. JobsInOrder'
  <2>1. \A j \in Jobs : Passed(j)' <=> Passed(j)
    <3> SUFFICES ASSUME NEW j \in Jobs PROVE Passed(j)' <=> Passed(j)
      OBVIOUS
    <3>1. /\ j[2] \in Nat /\ j[3] \in Nat
          /\ variation \in Nat /\ r \in Nat
          /\ j[1] = bench => j[3] \in Active(recipes)
      BY <1>1 DEF Jobs, TypeOK, RECIPE_SLOTS, VARIATION_MAX
    <3> QED BY <1>1, <3>1 DEF Passed
  <2> QED BY <2>1 DEF JobsInOrder, Jobs
<1>4. FailuresCounted' /\ BudgetByCycle' /\ CycleLags' /\ ClockAccounting'
      /\ FreshCounters' /\ OldWindows'
  BY <1>1 DEF FailuresCounted, BudgetByCycle, CycleLags, ClockAccounting,
         FreshCounters, OldWindows
<1> QED BY <1>2, <1>3, <1>4

(* A round that ends the recipe, well or badly, moves past its job.        *)
LEMMA EndOfJob ==
  ASSUME IInv, pc \in {"call", "status"}, pc' = "recipe",
         UNCHANGED loop, done' = done \cup {Job}
  PROVE  JobsInOrder'
<1>1. /\ Job \in Jobs
      /\ r = recipe + 1
  BY ActiveSlots DEF IInv, Control
<1>2. \A j \in Jobs : Passed(j)' <=> Passed(j) \/ j = Job
  <2> SUFFICES ASSUME NEW j \in Jobs
               PROVE  Passed(j)' <=> Passed(j) \/ j = Job
    OBVIOUS
  <2>1. /\ j = <<j[1], j[2], j[3]>>
        /\ j[1] \in Nat /\ j[2] \in Nat /\ j[3] \in Nat
        /\ bench \in Nat /\ variation \in Nat /\ recipe \in Nat
    BY DEF Jobs, IInv, TypeOK, RECIPE_SLOTS, VARIATION_MAX, Plugin
  <2>2. j = Job <=> j[1] = bench /\ j[2] = variation /\ j[3] = recipe
    BY <2>1 DEF Job
  <2> QED BY <1>1, <2>1, <2>2 DEF Passed, loop
<1> QED BY <1>1, <1>2 DEF IInv, JobsInOrder, Jobs

LEMMA CallRunnerInv == IInv /\ CallRunner => IInv'
<1> SUFFICES ASSUME IInv, CallRunner PROVE IInv' OBVIOUS
<1> USE DEF IInv, CallRunner, loop, outcome
<1>1. TypeOK' /\ Control' /\ BudgetKept'
  BY DEF TypeOK, Control, BudgetKept, Answer
<1>2. JobsInOrder'
  <2>1. \A j \in Jobs : Passed(j)' <=> Passed(j)
    BY DEF Passed
  <2> QED BY <2>1 DEF JobsInOrder, Jobs
<1>3. /\ FailuresCounted' /\ BudgetByCycle' /\ CycleLags'
      /\ FreshCounters' /\ OldWindows'
  BY DEF FailuresCounted, BudgetByCycle, CycleLags, TypeOK, FreshCounters,
         OldWindows, ClockAccounting, Answer, Control
<1>4. ClockAccounting'
  <2>1. (calls + 1) * (UsecTicks - 1) = calls * (UsecTicks - 1) + (UsecTicks - 1)
    BY ClockAssumption DEF TypeOK
  <2>2. /\ UsecTicks - 1 \in Nat /\ calls * (UsecTicks - 1) \in Nat
        /\ duration * UsecTicks \in Nat /\ spent \in Nat /\ blur \in Nat
    BY ClockAssumption DEF TypeOK
  <2> QED BY <2>1, <2>2 DEF ClockAccounting
<1> QED BY <1>1, <1>2, <1>3, <1>4

LEMMA CallFailsInv == IInv /\ CallFails => IInv'
<1> SUFFICES ASSUME IInv, CallFails PROVE IInv' OBVIOUS
<1> USE DEF IInv, CallFails, loop, info, history
<1>1. Job \in Jobs /\ Job \notin lost /\ IsFiniteSet(lost)
  BY ActiveSlots DEF TypeOK, Control
<1>2. JobsInOrder'
  BY EndOfJob
<1>3. TypeOK' /\ BudgetKept'
  BY <1>1 DEF TypeOK, BudgetKept
<1>4. Control' /\ FailuresCounted'
  BY <1>1, FS_AddElement DEF Control, FailuresCounted
<1>5. BudgetByCycle' /\ CycleLags' /\ ClockAccounting'
      /\ FreshCounters' /\ OldWindows'
  BY DEF BudgetByCycle, CycleLags, ClockAccounting,
         FreshCounters, OldWindows
<1> QED BY <1>2, <1>3, <1>4, <1>5

LEMMA OnInitializedInv == IInv /\ OnInitialized => IInv'
<1> SUFFICES ASSUME IInv, OnInitialized PROVE IInv' OBVIOUS
<1> USE DEF IInv, OnInitialized, loop, history, outcome
<1>1. state = "INIT" /\ calls = 0 /\ spent = 0 /\ blur = 0
  BY DEF Control, Answer, TypeOK, FreshCounters
<1>2. TypeOK' /\ Control' /\ BudgetKept'
  BY DEF TypeOK, Control, BudgetKept
<1>3. JobsInOrder'
  <2>1. \A j \in Jobs : Passed(j)' <=> Passed(j)
    BY DEF Passed
  <2> QED BY <2>1 DEF JobsInOrder, Jobs
<1>4. /\ FailuresCounted' /\ BudgetByCycle' /\ CycleLags'
      /\ FreshCounters' /\ OldWindows'
  BY <1>1 DEF FailuresCounted, BudgetByCycle, CycleLags, FreshCounters,
              OldWindows
<1>5. ClockAccounting'
  BY <1>1, ClockAssumption DEF ClockAccounting
<1> QED BY <1>2, <1>3, <1>4, <1>5

(* Rounding is off by a number of ticks.                                   *)
LEMMA BlurType == ASSUME NEW w \in Nat PROVE Blur(w) \in Nat
<1>1. (2 * w) \div ExactTicks \in Nat
  BY ClockAssumption
<1> QED BY <1>1 DEF Blur

(* The truncation of one window costs it less than a microsecond.          *)
LEMMA TruncatedWindow ==
  ASSUME NEW w \in Nat, NEW tdiff \in TimeDiffUsec(w)
  PROVE  /\ tdiff \in Nat
         /\ tdiff * UsecTicks <= w + Blur(w)
         /\ w <= tdiff * UsecTicks + (UsecTicks - 1) + Blur(w)
BY BlurType, ClockAssumption DEF TimeDiffUsec

LEMMA OnRunningInv ==
  ASSUME IInv, NEW w \in Windows, NEW tdiff \in TimeDiffUsec(w),
         OnRunning(w, tdiff)
  PROVE  IInv'
<1> USE DEF IInv, loop, outcome
<1> DEFINE total == duration + tdiff
<1>1. /\ state = "RUN" /\ status = "RUNNING" /\ pc = "status" /\ pc' = "call"
      /\ calls = cycle + 1 /\ recipe \in Active(recipes)
      /\ bench \in Plugin /\ recipes \in [DOMAIN Recipes[bench] -> Recipe]
  BY DEF OnRunning, Control, Answer, TypeOK, CycleLags
<1>2. recipe \in DOMAIN recipes /\ recipes[recipe] \in Recipe
  BY <1>1 DEF Active
<1>3. w \in Nat /\ tdiff \in Nat /\ total \in Nat /\ Blur(w) \in Nat
  BY ClockAssumption, TruncatedWindow, BlurType DEF TypeOK
<1>4. /\ recipes' \in [DOMAIN Recipes[bench] -> Recipe]
      /\ DOMAIN recipes' = DOMAIN recipes
      /\ \A q \in DOMAIN recipes :
           /\ recipes'[q].type = recipes[q].type
           /\ recipes'[q].max_cycle = recipes[q].max_cycle
           /\ recipes[q].type = "TIME_LIMITED" =>
                recipes'[q].duration = recipes[q].duration
  BY <1>1, <1>2, <1>3 DEF OnRunning, RecipesAfter, Recipe
<1>5. TypeOK'
  <2>1. Active(recipes') = Active(recipes)
    BY <1>4 DEF Active
  <2>2. /\ cycle' \in Nat /\ short' \in Nat /\ spent' \in Nat
        /\ duration' \in Nat /\ blur' \in Nat
    BY <1>3 DEF OnRunning, CycleAfter, TypeOK
  <2> QED BY <1>1, <1>4, <2>1, <2>2 DEF OnRunning, TypeOK
<1>6. Control' /\ FailuresCounted' /\ FreshCounters' /\ OldWindows'
  BY <1>1 DEF OnRunning, Control, FailuresCounted, FreshCounters, OldWindows
<1>7. BudgetKept'
  BY <1>1, <1>4 DEF OnRunning, BudgetKept
<1>8. JobsInOrder'
  <2>1. \A j \in Jobs : Passed(j)' <=> Passed(j)
    BY DEF OnRunning, Passed
  <2> QED BY <2>1 DEF OnRunning, JobsInOrder, Jobs
<1>9. BudgetByCycle' /\ CycleLags'
  <2>1. /\ recipes'[recipe].type = recipes[recipe].type
        /\ recipes'[recipe].max_cycle = recipes[recipe].max_cycle
        /\ recipes[recipe].type = "TIME_LIMITED" =>
             recipes'[recipe].duration = recipes[recipe].duration
        /\ recipes[recipe].max_cycle \in Nat /\ recipes[recipe].duration \in Nat
        /\ cycle \in Nat
    BY <1>2, <1>4 DEF Recipe, TypeOK
  <2>2. cycle > 0 /\ recipes[recipe].type # "TIME_LIMITED" =>
          cycle <= recipes[recipe].max_cycle
    BY <1>1 DEF BudgetByCycle
  <2>3. CASE UsedUp(total)
    BY <1>1, <1>3, <2>1, <2>2, <2>3 
       DEF OnRunning, UsedUp, CycleAfter, BudgetByCycle, CycleLags
  <2>4. CASE ~ UsedUp(total)
    BY <1>1, <1>3, <2>1, <2>2, <2>4 
       DEF OnRunning, UsedUp, CycleAfter, BudgetByCycle, CycleLags
  <2> QED BY <2>3, <2>4
<1>10. ClockAccounting'
  <2>1. /\ duration * UsecTicks <= spent + blur
        /\ spent <= duration * UsecTicks + cycle * (UsecTicks - 1) + blur
    BY <1>1 DEF OldWindows
  <2>2. total * UsecTicks = duration * UsecTicks + tdiff * UsecTicks
    BY <1>3, ClockAssumption DEF TypeOK
  <2>3. (cycle + 1) * (UsecTicks - 1)
          = cycle * (UsecTicks - 1) + (UsecTicks - 1)
    BY ClockAssumption DEF TypeOK
  <2>4. /\ duration' = total /\ spent' = spent + w /\ calls' = cycle + 1
        /\ blur' = blur + Blur(w)
    BY <1>1 DEF OnRunning
  <2>5. /\ tdiff * UsecTicks <= w + Blur(w)
        /\ w <= tdiff * UsecTicks + (UsecTicks - 1) + Blur(w)
        /\ tdiff * UsecTicks \in Nat /\ duration * UsecTicks \in Nat
        /\ cycle * (UsecTicks - 1) \in Nat /\ UsecTicks - 1 \in Nat
        /\ spent \in Nat /\ blur \in Nat
    BY <1>3, TruncatedWindow, ClockAssumption DEF TypeOK
  <2> QED BY <2>1, <2>2, <2>3, <2>4, <2>5, <1>3 DEF ClockAccounting
<1> QED BY <1>5, <1>6, <1>7, <1>8, <1>9, <1>10

LEMMA OnUninitializedInv == IInv /\ OnUninitialized => IInv'
<1> SUFFICES ASSUME IInv, OnUninitialized PROVE IInv' OBVIOUS
<1> USE DEF IInv, OnUninitialized, loop, history
<1>1. Job \in Jobs
  BY ActiveSlots
<1>2. JobsInOrder'
  BY EndOfJob
<1>3. TypeOK' /\ BudgetKept' /\ Control'
  BY <1>1 DEF TypeOK, BudgetKept, Control
<1>4. FailuresCounted' /\ BudgetByCycle' /\ CycleLags' /\ ClockAccounting'
      /\ FreshCounters' /\ OldWindows'
  BY DEF FailuresCounted, BudgetByCycle, CycleLags, ClockAccounting,
         FreshCounters, OldWindows
<1> QED BY <1>2, <1>3, <1>4

(* The end of the program, and the steps it does not take.                 *)
LEMMA StillInv ==
  ASSUME IInv, InitCrashes \/ Exit \/ UNCHANGED vars
  PROVE  IInv'
<1> USE DEF IInv, loop, info, history, outcome
<1> DEFINE Still == UNCHANGED <<loop, recipes, info, history, outcome>>
<1>1. CASE UNCHANGED vars
  BY <1>1 DEF vars, TypeOK, Control, BudgetKept, JobsInOrder, Passed,
     FailuresCounted, BudgetByCycle, CycleLags, ClockAccounting,
     FreshCounters, OldWindows, Answer, Job
<1>2. CASE Still /\ pc = "init" /\ pc' \in {"exited", "crashed"}
  <2>1. TypeOK' /\ Control' /\ BudgetKept'
    BY <1>2 DEF TypeOK, Control, BudgetKept
  <2>2. \A j \in Jobs : Passed(j)' <=> Passed(j)
    BY <1>2 DEF Passed
  <2>3. JobsInOrder'
    BY <1>2, <2>2 DEF JobsInOrder, Jobs
  <2>4. FailuresCounted' /\ BudgetByCycle' /\ CycleLags'
        /\ ClockAccounting' /\ FreshCounters' /\ OldWindows'
    BY <1>2 DEF FailuresCounted, BudgetByCycle, CycleLags, ClockAccounting,
       FreshCounters, OldWindows
  <2> QED BY <2>1, <2>3, <2>4
<1>3. InitCrashes \/ Exit => Still /\ pc = "init" /\ pc' \in {"exited", "crashed"}
  BY DEF InitCrashes, Exit
<1> QED BY <1>1, <1>2, <1>3

(* Everything IInv says holds throughout every run of the driver.          *)
THEOREM Invariance == Spec => []IInv
<1>1. ASSUME IInv, [Next]_vars PROVE IInv'
  <2>1. CASE InitPlugin
    BY <1>1, <2>1, InitPluginInv
  <2>2. CASE EnterVariation
    BY <1>1, <2>2, EnterVariationInv
  <2>3. CASE UninitPlugin
    BY <1>1, <2>3, UninitPluginInv
  <2>4. CASE EnterRecipe
    BY <1>1, <2>4, EnterRecipeInv
  <2>5. CASE LeaveRecipes
    BY <1>1, <2>5, LeaveRecipesInv
  <2>6. CASE CallRunner
    BY <1>1, <2>6, CallRunnerInv
  <2>7. CASE CallFails
    BY <1>1, <2>7, CallFailsInv
  <2>8. CASE OnInitialized
    BY <1>1, <2>8, OnInitializedInv
  <2>9. CASE \E w \in Windows : \E tdiff \in TimeDiffUsec(w) :
               OnRunning(w, tdiff)
    BY <1>1, <2>9, OnRunningInv
  <2>10. CASE OnUninitialized
    BY <1>1, <2>10, OnUninitializedInv
  <2>11. CASE InitCrashes \/ Exit \/ UNCHANGED vars
    BY <1>1, <2>11, StillInv
  <2> QED BY <1>1, <2>1, <2>2, <2>3, <2>4, <2>5, <2>6, <2>7, <2>8, <2>9,
             <2>10, <2>11 DEF Next, Ended
<1> QED BY <1>1, InitInv, PTL DEF Spec

(* Every variable of the driver stays in its type.                         *)
THEOREM TypeCorrect == Spec => []TypeOK
BY Invariance, PTL DEF IInv

(* The loops of main carry out every job once and in order, whatever the   *)
(* tables hold and whatever fails (main.c:103-153).                        *)
THEOREM JobsCarriedOutInOrder == Spec => []JobsInOrder
BY Invariance, PTL DEF IInv

(* What the invariant says of cycle bounds the calls made by the limit     *)
(* from below and, but for one call, from above.                           *)
LEMMA CallsAgainstLimit ==
  ASSUME IInv
  PROVE  StopsOnBudget /\ CallsCounted
<1> USE DEF IInv
<1>1. CallsCounted
  BY DEF CycleLags, CallsCounted
<1>2. ASSUME pc \in {"call", "status"}
      PROVE  /\ recipes[recipe] \in Recipe
             /\ calls \in Nat /\ cycle \in Nat
             /\ state \in {"INIT", "RUN", "UNINIT"}
  BY <1>2 DEF TypeOK, Control, Active
<1>3. StopsOnBudget
  <2> SUFFICES ASSUME pc \in {"call", "status"}
               PROVE  StopsOnBudget
    BY DEF StopsOnBudget
  <2>1. CASE recipes[recipe].type = "TIME_LIMITED"
    BY <2>1 DEF BudgetByCycle, StopsOnBudget
  <2>2. CASE recipes[recipe].type # "TIME_LIMITED"
    <3>1. recipes[recipe].max_cycle \in Nat
      BY <1>2 DEF Recipe
    <3>2. CASE state = "INIT"
      BY <2>2, <3>1, <3>2 DEF FreshCounters, StopsOnBudget
    <3>3. CASE state = "RUN"
      BY <1>2, <2>2, <3>1, <3>3 DEF BudgetByCycle, CycleLags, StopsOnBudget
    <3>4. CASE state = "UNINIT"
      BY <1>2, <2>2, <3>1, <3>4 DEF BudgetByCycle, CycleLags, StopsOnBudget
    <3> QED BY <1>2, <3>2, <3>3, <3>4
  <2> QED BY <2>1, <2>2
<1> QED BY <1>1, <1>3

(* A recipe is wound down only when its time is used up or its number of   *)
(* calls made, and never makes more than one call beyond that number       *)
(* (main.c:67-76), for every clock.                                        *)
THEOREM RecipesStopOnBudget == Spec => []StopsOnBudget
BY Invariance, CallsAgainstLimit, PTL

(* The cycle counter is the number of calls in front of each and misses    *)
(* the last one at most in the end (main.c:80-83).                         *)
THEOREM CyclesCountCalls == Spec => []CallsCounted
BY Invariance, CallsAgainstLimit, PTL

(* The reported duration loses less than a microsecond per call            *)
(* (main.c:63-66), for every clock resolution and every window.            *)
THEOREM ClockIsAccountedFor == Spec => []ClockAccounting
BY Invariance, PTL DEF IInv

(* The failure counter is the number of jobs that failed (main.c:45-48).   *)
THEOREM FailuresAreCounted == Spec => []FailuresCounted
BY Invariance, PTL DEF IInv

(* Running a recipe leaves what it asks for alone (main.c:72).             *)
THEOREM BudgetsAreKept == Spec => []BudgetKept
BY Invariance, PTL DEF IInv

-----------------------------------------------------------------------------
(* The end of a job is the end of the next job of the plan.                *)
LEMMA NextJobOfThePlan ==
  ASSUME IInv, pc \in {"call", "status"}
  PROVE  /\ Job \in Jobs /\ Job \notin done
         /\ \A i \in Jobs : Plan!Before(i, Job) => i \in done
<1>1. Job \in Jobs /\ Job \notin done
  BY ActiveSlots
<1>2. ASSUME NEW i \in Jobs, Plan!Before(i, Job) PROVE i \in done
  <2>1. /\ i[1] \in Nat /\ i[2] \in Nat /\ i[3] \in Nat
        /\ bench \in Nat /\ variation \in Nat /\ recipe \in Nat
    BY DEF Jobs, IInv, TypeOK, RECIPE_SLOTS, VARIATION_MAX, Plugin
  <2>2. Passed(i)
    BY <1>2, <2>1 DEF Plan!Before, Job, Passed
  <2> QED BY <2>2 DEF IInv, JobsInOrder
<1> QED BY <1>1, <1>2

LEMMA PlanStep ==
  ASSUME IInv, [Next]_vars
  PROVE  [Plan!Next]_(Plan!vars)
<1> USE DEF loop, info, history, outcome, Plan!vars
<1>1. ASSUME pc \in {"call", "status"}, pc' = "recipe",
             done' = done \cup {Job}, lost' \in {lost, lost \cup {Job}}
      PROVE  Plan!Next
  BY <1>1, NextJobOfThePlan DEF Plan!Next, Plan!Finish
<1>2. CASE CallFails
  BY <1>1, <1>2 DEF CallFails
<1>3. CASE OnUninitialized
  BY <1>1, <1>3 DEF OnUninitialized
<1>4. CASE Exit
  <2>1. bench = NPlugins + 1
    BY <1>4, PluginAssumption DEF Exit, IInv, TypeOK, Plugin
  <2>2. \A j \in Jobs : Passed(j)
    BY <2>1, PluginAssumption DEF Jobs, Passed, Plugin
  <2>3. done = Jobs
    BY <2>2 DEF IInv, JobsInOrder
  <2> QED BY <1>4, <2>3 DEF Exit, Plan!Next, Plan!Exit
<1>5. CASE InitCrashes
  <2>1. \A j \in Jobs : j \in done <=> j[1] < bench
    BY <1>5 DEF InitCrashes, IInv, JobsInOrder, Passed
  <2>2. Plan!Crash(bench)
    BY <1>5, <2>1 DEF InitCrashes, Plan!Crash
  <2> QED BY <1>5, <2>2 DEF InitCrashes, Plan!Next
<1>6. ASSUME UNCHANGED <<done, lost>>,
             pc' = pc \/ (pc \notin {"exited", "crashed"}
                            /\ pc' \notin {"exited", "crashed"})
      PROVE  UNCHANGED Plan!vars
  BY <1>6
<1>7. CASE InitPlugin \/ EnterVariation \/ UninitPlugin \/ EnterRecipe
             \/ LeaveRecipes \/ CallRunner \/ OnInitialized
  BY <1>6, <1>7 DEF InitPlugin, EnterVariation, UninitPlugin, EnterRecipe,
     LeaveRecipes, CallRunner, OnInitialized
<1>8. CASE \E w \in Windows : \E tdiff \in TimeDiffUsec(w) :
             OnRunning(w, tdiff)
  BY <1>6, <1>8 DEF OnRunning
<1>9. CASE UNCHANGED vars
  BY <1>6, <1>9 DEF vars
<1> QED BY <1>2, <1>3, <1>4, <1>5, <1>7, <1>8, <1>9 DEF Next, Ended

(* The driver implements BenchPlan: it starts where the plan starts, and   *)
(* each of its steps is a step of the plan or leaves the plan alone        *)
(* (main.c:103-153).  That the plan's end is reached is left to TLC.       *)
THEOREM DriverKeepsPlan == Spec => Plan!Init /\ [][Plan!Next]_(Plan!vars)
<1>1. Init => Plan!Init
  BY DEF Init, Plan!Init
<1>2. IInv /\ [Next]_vars => [Plan!Next]_(Plan!vars)
  BY PlanStep
<1> QED BY <1>1, <1>2, Invariance, PTL DEF Spec
(* A step that changes neither the last call nor the variation.            *)
LEMMA CallsStep ==
  ASSUME IInv, [Next]_vars
  PROVE  [Calls!Next]_(Calls!vars)
<1> USE DEF IInv, loop, info, history, outcome, Calls!vars, Calls!Next
<1>1. CASE InitPlugin \/ InitCrashes \/ LeaveRecipes \/ UninitPlugin
             \/ Exit
  <2>1. LastCall = "IDLE" /\ LastCall' = "IDLE"
    BY <1>1 DEF InitPlugin, InitCrashes, LeaveRecipes, UninitPlugin, Exit,
       LastCall
  <2>2. variation' = variation \/ variation' = 0
    BY <1>1 DEF InitPlugin, InitCrashes, LeaveRecipes, UninitPlugin, Exit
  <2> QED BY <2>1, <2>2 DEF Calls!Select, VARIATION_MAX
<1>2. CASE EnterVariation
  <2>1. LastCall = "IDLE" /\ LastCall' = "IDLE"
    BY <1>2 DEF EnterVariation, LastCall
  <2>2. variation' \in 0 .. VARIATION_MAX - 1
    BY <1>2, PassesRange DEF EnterVariation, TypeOK
  <2> QED BY <2>1, <2>2 DEF Calls!Select
<1>3. CASE EnterRecipe
  BY <1>3 DEF EnterRecipe, LastCall
<1>4. CASE CallRunner
  <2>1. state # "IDLE" /\ (state = "RUN" => calls = cycle)
        /\ (state = "UNINIT" => calls = cycle + 1)
        /\ (state = "INIT" => calls = 0)
    BY <1>4 DEF CallRunner, Control, CycleLags, FreshCounters
  <2>2. cycle \in Nat /\ state \in {"IDLE", "INIT", "RUN", "UNINIT"}
    BY DEF TypeOK
  <2>3. LastCall' = state /\ variation' = variation
    BY <1>4 DEF CallRunner, LastCall
  <2>4. CASE state = "INIT"
    BY <1>4, <2>1, <2>3, <2>4 DEF CallRunner, LastCall, Calls!CallInit
  <2>5. CASE state = "RUN"
    BY <1>4, <2>1, <2>2, <2>3, <2>5 DEF CallRunner, LastCall, Calls!CallRun
  <2>6. CASE state = "UNINIT"
    BY <1>4, <2>1, <2>3, <2>6 DEF CallRunner, LastCall, Calls!CallUninit
  <2> QED BY <2>1, <2>2, <2>4, <2>5, <2>6
<1>5. CASE CallFails
  BY <1>5 DEF CallFails, LastCall, Calls!Abandon
<1>6. CASE OnInitialized
  <2>1. state = "INIT" /\ calls = 0
    BY <1>6 DEF OnInitialized, Control, Answer, TypeOK, FreshCounters
  <2> QED BY <1>6, <2>1 DEF OnInitialized, LastCall
<1>7. CASE \E w \in Windows : \E tdiff \in TimeDiffUsec(w) :
             OnRunning(w, tdiff)
  <2>1. state = "RUN" /\ calls > 0
    BY <1>7 DEF OnRunning, Control, Answer, TypeOK, CycleLags
  <2> QED BY <1>7, <2>1 DEF OnRunning, LastCall
<1>8. CASE OnUninitialized
  <2>1. state = "UNINIT"
    BY <1>8 DEF OnUninitialized, Control, Answer, TypeOK
  <2> QED BY <1>8, <2>1 DEF OnUninitialized, LastCall, Calls!Leave
<1>9. CASE UNCHANGED vars
  BY <1>9 DEF vars, LastCall
<1> QED BY <1>1, <1>2, <1>3, <1>4, <1>5, <1>6, <1>7, <1>8, <1>9 DEF Next, Ended

(* Every plug-in's runner is called as RunnerCalls says, whatever its      *)
(* table, its failures and the clock (main.c:43-100, 135-150).             *)
THEOREM RunnersAreCalledInOrder == Spec => CallsKept
<1>1. Init => Calls!Init
  BY DEF Init, Calls!Init, LastCall, VARIATION_MAX
<1>2. IInv /\ [Next]_vars => [Calls!Next]_(Calls!vars)
  BY CallsStep
<1> QED BY <1>1, <1>2, Invariance, PTL DEF Spec, CallsKept, Calls!Spec

(* For any tables, plug-ins and clocks, recipes get the time or the calls  *)
(* they ask for, and one call more at most.                                *)
THEOREM BudgetsAreHeld == Spec => []BudgetsHold
BY RecipesStopOnBudget, BudgetsAreKept, PTL DEF BudgetsHold

(* And the three counters are those of the recipe and the run under way,   *)
(* that of calls to within the last one.                                   *)
THEOREM CountersAreRight == Spec => []CountersRight
BY CyclesCountCalls, ClockIsAccountedFor, FailuresAreCounted, PTL
   DEF CountersRight
=============================================================================
