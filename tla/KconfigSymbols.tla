--------------------------- MODULE KconfigSymbols ---------------------------
(***************************************************************************)
(* The symbols of the configuration tool (tools/menuconfig/symbol.c) and   *)
(* the evaluation of expressions over them (expr.c).                       *)
(*                                                                         *)
(* What the configuration files declare is constant once they are parsed   *)
(* and finalized: types, prompts, defaults, ranges, dependencies and       *)
(* choices.  What changes is the table of the symbols, a record t:         *)
(*   def, pick     the value the user gave a symbol, or a choice           *)
(*   has           the symbols that hold one (SYMBOL_DEF_USER)             *)
(*   valid         those whose value is calculated (SYMBOL_VALID)          *)
(*   write         those that go into the file (SYMBOL_WRITE)              *)
(*   curr, chosen  the calculated values, of a choice its member too       *)
(*   visible, revDep  the tristates the calculation goes through           *)
(*   modules       what modules_val holds                                  *)
(*   changed       whether there is something to save                      *)
(* SYMBOL_CHANGED and dir_dep.tri are left out: the graphical front ends   *)
(* that read the one are not here, and the other is for a warning.         *)
(* Strings take part as numbers without a range; numbers are not negative. *)
(*                                                                         *)
(* Calculating a symbol calculates those it depends on and keeps what it   *)
(* finds valid, so the operators take a table and give one.  They are      *)
(* recursive, and no theorem is stated about them.                         *)
(***************************************************************************)
EXTENDS Integers, Sequences, FiniteSets, SequencesExt, FiniteSetsExt

CONSTANTS
  Symbols,        \* the table, in the order for_all_symbols goes through it
  Type,           \* of each symbol: "bool", "tristate", "number", "unknown"
  Prompts,        \* of each, its prompts' conditions
  Defaults,       \* of each, its defaults: a value and a condition
  Ranges,         \* of each, its ranges: low, high and a condition
  DirDep,         \* of each, what it depends on
  RevDep,         \* of each, what selects it
  Members,        \* the members of each choice, in order
  modules_sym     \* the symbol modules_val is the value of

no == 0
mod == 1
yes == 2

Empty == -1       \* the empty string, the value of a number that has none
NULL == "NULL"    \* no symbol

(* Mutant: y or m is their sum.                                            *)
EXPR_ORSum(a, b) == a + b

EXPR_OR(a, b) == IF a > b THEN a ELSE b
EXPR_AND(a, b) == IF a < b THEN a ELSE b
EXPR_NOT(a) == 2 - a

Names == ToSet(Symbols)
ChoiceSymbols == DOMAIN Members
IsChoice(s) == s \in ChoiceSymbols
MembersOf == [c \in ChoiceSymbols |-> ToSet(Members[c])]
AllMembers == UNION {MembersOf[c] : c \in ChoiceSymbols}
IsMember(s) == s \in AllMembers
ChoiceOf(s) == CHOOSE c \in ChoiceSymbols : s \in MembersOf[c]

(* The values of symbols that nothing gave one.                            *)
NoValues == [s \in Names |-> IF Type[s] = "number" THEN Empty ELSE no]

SymbolTable ==
  [def : [Names -> Int], pick : [ChoiceSymbols -> Names \cup {NULL}],
   has : SUBSET Names, valid : SUBSET Names, write : SUBSET Names,
   curr : [Names -> Int], chosen : [ChoiceSymbols -> Names \cup {NULL}],
   visible : [Names -> no .. yes], revDep : [Names -> no .. yes],
   modules : no .. yes, changed : BOOLEAN]

-----------------------------------------------------------------------------
(* Expressions.  Calculating one calculates every symbol in it, from left  *)
(* to right, whatever the values turn out to be.                           *)

Const(v) == [op |-> "const", value |-> v]
Sym(s) == [op |-> "symbol", sym |-> s]
And(a, b) == [op |-> "and", left |-> a, right |-> b]
Or(a, b) == [op |-> "or", left |-> a, right |-> b]
Not(a) == [op |-> "not", left |-> a]
Equal(s, v) == [op |-> "equal", sym |-> s, value |-> v]
Unequal(s, v) == [op |-> "unequal", sym |-> s, value |-> v]

RECURSIVE Mentioned(_)
Mentioned(e) ==
  CASE e.op \in {"symbol", "equal", "unequal"} -> <<e.sym>>
    [] e.op \in {"and", "or"} -> Mentioned(e.left) \o Mentioned(e.right)
    [] e.op = "not" -> Mentioned(e.left)
    [] e.op = "const" -> <<>>

(* What a symbol shows as: a module shows as n while there are none.       *)
sym_get_string_value(t, s) ==
  IF Type[s] \in {"bool", "tristate"} /\ t.curr[s] = mod
       /\ t.curr[modules_sym] = no
  THEN no ELSE t.curr[s]

RECURSIVE expr_calc_value(_, _)
expr_calc_value(t, e) ==
  CASE e.op = "const" -> e.value
    [] e.op = "symbol" -> IF Type[e.sym] = "number" THEN no ELSE t.curr[e.sym]
    [] e.op = "and" -> EXPR_AND(expr_calc_value(t, e.left),
                                expr_calc_value(t, e.right))
    [] e.op = "or" -> EXPR_OR(expr_calc_value(t, e.left),
                              expr_calc_value(t, e.right))
    [] e.op = "not" -> EXPR_NOT(expr_calc_value(t, e.left))
    [] e.op = "equal" ->
         IF sym_get_string_value(t, e.sym) = e.value THEN yes ELSE no
    [] e.op = "unequal" ->
         IF sym_get_string_value(t, e.sym) = e.value THEN no ELSE yes

(* A number's default and the ends of its range are numbers or symbols; an *)
(* empty end counts as 0.                                                  *)
number_value(t, e) == IF e.op = "const" THEN e.value ELSE t.curr[e.sym]
sym_get_range_val(t, e) == Max({number_value(t, e), 0})

-----------------------------------------------------------------------------
(* The calculation of a symbol.                                            *)

sym_get_type(t, s) ==
  IF Type[s] = "tristate"
       /\ ((IsMember(s) /\ t.visible[s] = yes) \/ t.modules = no)
  THEN "bool" ELSE Type[s]

RECURSIVE sym_calc_value(_, _), CalcEach(_, _)
CalcEach(t, q) ==
  IF q = <<>> THEN t ELSE CalcEach(sym_calc_value(t, Head(q)), Tail(q))

Calc(t, e) == CalcEach(t, Mentioned(e))

(* The first of some properties whose condition is not n; the conditions   *)
(* after it are not calculated.                                            *)
RECURSIVE FirstOn(_, _)
FirstFrom(t, props) ==
  IF expr_calc_value(t, Head(props).cond) # no THEN [t |-> t, props |-> props]
  ELSE FirstOn(t, Tail(props))
FirstOn(t, props) ==
  IF props = <<>> THEN [t |-> t, props |-> <<>>]
  ELSE FirstFrom(Calc(t, Head(props).cond), props)

(* A tristate that a symbol of type bool cannot hold is raised to y.       *)
Promote(tri, boolean) == IF tri = mod /\ boolean THEN yes ELSE tri

WithPrompts(t, s) ==
  LET shown == {expr_calc_value(t, Prompts[s][i]) : i \in DOMAIN Prompts[s]}
  IN  [t EXCEPT !.visible[s] = Promote(Max({no} \cup shown),
                                       Type[s] # "tristate" \/ t.modules = no)]

WithRevDep(t, s) ==
  [t EXCEPT !.revDep[s] = Promote(expr_calc_value(t, RevDep[s]),
                                  sym_get_type(t, s) = "bool")]

(* What is calculated for a symbol's prompts, and for what selects it.     *)
PromptsMention ==
  [s \in Names |-> FlattenSeq([i \in DOMAIN Prompts[s] |->
                                 Mentioned(Prompts[s][i])])]
DepsMention == [s \in Names |-> Mentioned(DirDep[s]) \o Mentioned(RevDep[s])]

sym_calc_visibility(t, s) ==
  LET t1 == WithPrompts(CalcEach(t, PromptsMention[s]), s)
  IN  IF IsMember(s) THEN t1 ELSE WithRevDep(CalcEach(t1, DepsMention[s]), s)

(* A member that the user picked and that is visible, else the first       *)
(* visible one of the defaults, else the first visible member.             *)
RECURSIVE VisibleDefault(_, _)
VisibleFrom(on) ==
  IF on.props = <<>> \/ on.t.visible[Head(on.props).value.sym] # no
  THEN on ELSE VisibleDefault(on.t, Tail(on.props))
VisibleDefault(t, props) == VisibleFrom(FirstOn(t, props))

ChooseDefault(on, c) ==
  LET shown == SelectSeq(Members[c], LAMBDA s : on.t.visible[s] # no)
  IN  IF on.props # <<>>
      THEN [on.t EXCEPT !.chosen[c] = Head(on.props).value.sym]
      ELSE IF shown # <<>> THEN [on.t EXCEPT !.chosen[c] = Head(shown)]
      ELSE [on.t EXCEPT !.chosen[c] = NULL, !.curr[c] = no]

sym_choice_default(t, c) == ChooseDefault(VisibleDefault(t, Defaults[c]), c)

(* The user's mark stays on a choice only while every visible member has   *)
(* one (symbol.c:266-275).                                                 *)
ChooseMember(t, c) ==
  LET news == {s \in MembersOf[c] : t.visible[s] # no} \ t.has
      t1 == IF news = {} THEN t ELSE [t EXCEPT !.has = @ \ {c}]
  IN  IF t.pick[c] # NULL /\ t.visible[t.pick[c]] # no
      THEN [t1 EXCEPT !.chosen[c] = t.pick[c]]
      ELSE sym_choice_default(t1, c)

sym_calc_choice(t, c) ==
  ChooseMember(FoldLeft(sym_calc_visibility, t, Members[c]), c)

(* The value of a default, with the table it leaves behind.                *)
DefaultValue(t, s, prop) ==
  [t |-> [t EXCEPT !.write = @ \cup {s}], found |-> TRUE,
   value |-> IF Type[s] = "number" THEN number_value(t, prop.value)
             ELSE EXPR_AND(expr_calc_value(t, prop.value),
                           expr_calc_value(t, prop.cond))]

DefaultFrom(on, s) ==
  IF on.props = <<>> THEN [t |-> on.t, found |-> FALSE]
  ELSE DefaultValue(Calc(on.t, Head(on.props).value), s, Head(on.props))

DefaultOf(t, s) == DefaultFrom(FirstOn(t, Defaults[s]), s)

(* The symbol is to be written if it is on for one of these reasons.       *)
Marked(t, s, on) == IF on THEN [t EXCEPT !.write = @ \cup {s}] ELSE t

WithTristate(t, s, value) ==
  [t EXCEPT !.curr[s] = Promote(EXPR_OR(value, t.revDep[s]),
                                sym_get_type(t, s) = "bool")]

DefaultTristate(d, s) ==
  WithTristate(d.t, s, IF d.found THEN d.value ELSE no)

(* A visible member of a choice is y if it is the one chosen.  Any other   *)
(* symbol has its user's value as far as it is visible, else its default   *)
(* (a choice has none), and at least what selects it.                      *)
TristateValue(t, s) ==
  LET shown == t.visible[s] # no
      t1 == Marked(t, s, shown \/ t.revDep[s] # no)
  IN  IF IsMember(s) /\ t.visible[s] = yes
      THEN [t EXCEPT !.curr[s] = IF t.chosen[ChoiceOf(s)] = s THEN yes ELSE no]
      ELSE IF shown /\ s \in t.has
           THEN WithTristate(t1, s, EXPR_AND(t.def[s], t.visible[s]))
           ELSE IF IsChoice(s) THEN WithTristate(t1, s, no)
                ELSE DefaultTristate(DefaultOf(t1, s), s)

(* A number out of the range in force becomes the end it lies beyond.      *)
NotAbove(t, s, range) ==
  LET high == sym_get_range_val(t, range.high)
  IN  IF t.curr[s] > high THEN [t EXCEPT !.curr[s] = high] ELSE t

NotBelow(t, s, range) ==
  LET low == sym_get_range_val(t, range.low)
  IN  IF Max({t.curr[s], 0}) < low THEN [t EXCEPT !.curr[s] = low]
      ELSE NotAbove(Calc(t, range.high), s, range)

InRange(on, s) ==
  IF on.props = <<>> THEN on.t
  ELSE NotBelow(Calc(on.t, Head(on.props).low), s, Head(on.props))

sym_validate_range(t, s) == InRange(FirstOn(t, Ranges[s]), s)

DefaultNumber(d, s) ==
  IF d.found THEN [d.t EXCEPT !.curr[s] = d.value] ELSE d.t

NumberValue(t, s) ==
  LET shown == t.visible[s] # no
      t1 == Marked(t, s, shown)
  IN  sym_validate_range(IF shown /\ s \in t.has
                         THEN [t1 EXCEPT !.curr[s] = t.def[s]]
                         ELSE DefaultNumber(DefaultOf(t1, s), s), s)

(* A choice that is y takes a member; when it is written its visible       *)
(* members are.                                                            *)
MembersMarked(t, c) ==
  LET shown == {s \in MembersOf[c] : t.visible[s] # no}
  IN  IF c \in t.write THEN [t EXCEPT !.write = @ \cup shown] ELSE t

WithMember(t, c) ==
  MembersMarked(IF t.curr[c] = yes THEN sym_calc_choice(t, c) ELSE t, c)

(* The symbol counts as valid while it is calculated, with n or the empty  *)
(* string for the value.                                                   *)
Entered(t, s) ==
  [t EXCEPT !.valid = @ \cup {s},
            !.write = IF IsMember(s) THEN @ ELSE @ \ {s}]

Emptied(t, s) ==
  [t EXCEPT !.curr[s] = IF Type[s] = "number" THEN Empty ELSE no,
            !.chosen = IF IsChoice(s) THEN [@ EXCEPT ![s] = NULL] ELSE @]

(* The modules symbol sets modules_val, and is set from the environment,   *)
(* so never written.                                                       *)
WithModules(t, s) ==
  IF s = modules_sym
  THEN [t EXCEPT !.modules = t.curr[s], !.write = @ \ {s}] ELSE t

WithValue(t, s) ==
  IF Type[s] = "number" THEN NumberValue(t, s)
  ELSE IF IsChoice(s) THEN WithMember(TristateValue(t, s), s)
  ELSE WithModules(TristateValue(t, s), s)

sym_calc_value(t, s) ==
  IF s \in t.valid THEN t
  ELSE IF Type[s] = "unknown"
       THEN [t EXCEPT !.valid = @ \cup {s}, !.curr[s] = no]
       ELSE WithValue(Emptied(sym_calc_visibility(Entered(t, s), s), s), s)

-----------------------------------------------------------------------------
(* What a front end does to a symbol.                                      *)

(* Mutant: the change is not counted.                                      *)
sym_clear_all_validUncounted(t) ==
  sym_calc_value([t EXCEPT !.valid = {}], modules_sym)

sym_clear_all_valid(t) ==
  sym_calc_value([t EXCEPT !.valid = {}, !.changed = TRUE], modules_sym)

sym_is_changable(t, s) == t.visible[s] > t.revDep[s]

sym_tristate_within_range(t, s, val) ==
  /\ sym_is_changable(t, s)
  /\ Type[s] \in {"bool", "tristate"}
  /\ sym_get_type(t, s) = "bool" => val # mod
  /\ IF IsMember(s) /\ t.visible[s] = yes THEN val = yes
     ELSE val \in t.revDep[s] .. t.visible[s]

BelowHigh(t, range, val) ==
  [t |-> t, ok |-> val <= sym_get_range_val(t, range.high)]

AboveLow(t, range, val) ==
  IF val < sym_get_range_val(t, range.low) THEN [t |-> t, ok |-> FALSE]
  ELSE BelowHigh(Calc(t, range.high), range, val)

AcceptedBy(on, val) ==
  IF on.props = <<>> THEN [t |-> on.t, ok |-> TRUE]
  ELSE AboveLow(Calc(on.t, Head(on.props).low), Head(on.props), val)

sym_string_within_range(t, s, val) ==
  AcceptedBy(FirstOn(t, Ranges[s]), val)

(* Mutant: only the symbol itself is calculated again.                     *)
sym_set_tristate_valueAlone(t, s, val) ==
  IF t.curr[s] # val /\ ~sym_tristate_within_range(t, s, val)
  THEN [t |-> t, ok |-> FALSE]
  ELSE [t |-> [t EXCEPT !.has = @ \cup {s}, !.def[s] = val,
                        !.valid = @ \ {s}, !.changed = TRUE],
        ok |-> TRUE]

(* Setting a value the symbol has is always accepted, and leaves every     *)
(* calculated value in place.  A member set to y becomes its choice's      *)
(* pick, and no visible member counts as new any more.                     *)
sym_set_tristate_value(t, s, val) ==
  LET c == ChoiceOf(s)
      shown == {m \in MembersOf[c] : t.visible[m] # no}
      t1 == [t EXCEPT !.has = @ \cup {s}, !.def[s] = val]
      t2 == IF IsMember(s) /\ val = yes
            THEN [t1 EXCEPT !.pick[c] = s, !.has = @ \cup {c} \cup shown]
            ELSE t1
  IN  IF t.curr[s] # val /\ ~sym_tristate_within_range(t, s, val)
      THEN [t |-> t, ok |-> FALSE]
      ELSE [t |-> IF t.curr[s] = val THEN t2 ELSE sym_clear_all_valid(t2),
            ok |-> TRUE]

(* From n over m to y and round again, up to the first value accepted.     *)
sym_toggle_tristate_value(t, s) ==
  LET Accepted(v) == sym_set_tristate_value(t, s, v).ok
      next == (t.curr[s] + 1) % 3
      after == (t.curr[s] + 2) % 3
      newval == IF Accepted(next) THEN next
                ELSE IF Accepted(after) THEN after ELSE t.curr[s]
  IN  sym_set_tristate_value(t, s, newval).t

(* A number that is the user's already, or was before its mark was taken   *)
(* away, is accepted and calculates nothing anew.                          *)
NumberSet(within, old, s, val) ==
  LET t1 == [within.t EXCEPT !.has = @ \cup {s}, !.def[s] = val]
  IN  IF ~within.ok THEN within
      ELSE [t |-> IF old = val THEN t1 ELSE sym_clear_all_valid(t1),
            ok |-> TRUE]

sym_set_number_value(t, s, val) ==
  NumberSet(sym_string_within_range(t, s, val), t.def[s], s, val)
=============================================================================
