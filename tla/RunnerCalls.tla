----------------------------- MODULE RunnerCalls -----------------------------
(***************************************************************************)
(* The calls a plug-in's runner gets, which is all that the driver of      *)
(* main.c and a plug-in need to know of each other: a recipe is one call   *)
(* in state INIT, one or more in state RUN and one in state UNINIT, under  *)
(* a variation that stays the same, unless a call fails; then the recipe   *)
(* is over with that call.                                                 *)
(***************************************************************************)
CONSTANT Variations  \* values info->curr_variation_index may have

VARIABLES
  phase,     \* the state of the last call of the recipe under way
  variation  \* info->curr_variation_index
vars == <<phase, variation>>

Init == phase = "IDLE" /\ variation \in Variations

(* Between recipes the driver may select another variation.                *)
Select(u) == phase = "IDLE" /\ variation' = u /\ UNCHANGED phase

CallInit == phase = "IDLE" /\ phase' = "INIT" /\ UNCHANGED variation

CallRun ==
  phase \in {"INIT", "RUN"} /\ phase' = "RUN" /\ UNCHANGED variation

CallUninit == phase = "RUN" /\ phase' = "UNINIT" /\ UNCHANGED variation

Leave == phase = "UNINIT" /\ phase' = "IDLE" /\ UNCHANGED variation

Abandon == phase' = "IDLE" /\ UNCHANGED variation

Next ==
  \/ \E u \in Variations : Select(u)
  \/ CallInit \/ CallRun \/ CallUninit \/ Leave
  \/ Abandon

Spec == Init /\ [][Next]_vars
=============================================================================
