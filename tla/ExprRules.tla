----------------------------- MODULE ExprRules -----------------------------
(***************************************************************************)
(* The expressions of the configuration language, and what                 *)
(* tools/menuconfig/expr.c makes of one node of an expression: where there *)
(* is a parameter F, it is a function that says what becomes of the        *)
(* operands.  KconfigExpr ties the operators to themselves.                *)
(*                                                                         *)
(* An expression is a tree of tuples; the constants y, m and n are symbols *)
(* too, and 0, 1 and 2 are the values n, m and y.  A leaf may be borrowed  *)
(* from a menu that goes on pointing at it.                                *)
(***************************************************************************)
EXTENDS Integers, Sequences, FiniteSetsExt

CONSTANT SymbolType   \* "bool" or "tristate" of each symbol declared

Consts == {"y", "m", "n"}

ASSUME SymbolsAssumption ==
  /\ Consts \cap DOMAIN SymbolType = {}
  /\ \A s \in DOMAIN SymbolType : SymbolType[s] \in {"bool", "tristate"}

TypeOf(s) ==
  IF s \in DOMAIN SymbolType THEN SymbolType[s] ELSE "unknown"

NULL == <<"none">>
Symbol(s) == <<"symbol", s, 0>>
Borrowed(s, lender) == <<"symbol", s, lender>>
Equal(s, v) == <<"equal", s, v>>
Unequal(s, v) == <<"unequal", s, v>>
Not(e) == <<"not", e>>

Op(e) == e[1]
Operators == {"and", "or"}
Comparisons == {"equal", "unequal"}
Operands(e) ==
  CASE Op(e) \in Operators -> {e[2], e[3]}
    [] Op(e) = "not" -> {e[2]}
    [] OTHER -> {}
Is(e, s) == Op(e) = "symbol" /\ e[2] = s
expr_is_yes(e) == e = NULL \/ Is(e, "y")
expr_is_no(e) == Is(e, "n")

Neutral(type) == IF type = "and" THEN "y" ELSE "n"
Zero(type) == IF type = "and" THEN "n" ELSE "y"

expr_alloc(type, a, b) ==
  IF a = NULL THEN b ELSE IF b = NULL THEN a ELSE <<type, a, b>>
expr_alloc_and(a, b) == expr_alloc("and", a, b)
expr_alloc_or(a, b) == expr_alloc("or", a, b)

-----------------------------------------------------------------------------
(* The value of an expression.                                             *)

Values ==
  {v \in [DOMAIN SymbolType -> 0 .. 2] :
     \A s \in DOMAIN SymbolType : SymbolType[s] = "bool" => v[s] # 1}
NoModules(v) == \A s \in DOMAIN SymbolType : v[s] # 1

ValueOf(values, s) ==
  CASE s = "n" -> 0 [] s = "m" -> 1 [] s = "y" -> 2 [] OTHER -> values[s]
Same(values, e) == ValueOf(values, e[2]) = ValueOf(values, e[3])
CalcValue(values, e, F) ==
  CASE e = NULL -> 2
    [] Op(e) = "symbol" -> ValueOf(values, e[2])
    [] Op(e) = "and" -> Min({F[e[2]], F[e[3]]})
    [] Op(e) = "or" -> Max({F[e[2]], F[e[3]]})
    [] Op(e) = "not" -> 2 - F[e[2]]
    [] Op(e) = "equal" -> IF Same(values, e) THEN 2 ELSE 0
    [] Op(e) = "unequal" -> IF Same(values, e) THEN 0 ELSE 2

-----------------------------------------------------------------------------
(* y and n among the operands.  A node that takes over another's contents  *)
(* frees that one.                                                         *)

TakenOver(e) == IF Op(e) = "symbol" THEN Symbol(e[2]) ELSE e
Without(type, a, b) ==
  IF Is(a, Zero(type)) \/ Is(b, Zero(type)) THEN Symbol(Zero(type))
  ELSE IF Is(a, Neutral(type)) THEN TakenOver(b)
  ELSE IF Is(b, Neutral(type)) THEN TakenOver(a)
  ELSE <<type, a, b>>
EliminateYn(e, F) ==
  IF Op(e) \in Operators THEN Without(Op(e), F[e[2]], F[e[3]]) ELSE e

-----------------------------------------------------------------------------
(* Two operands that are one.                                              *)

Subject(e) == IF Op(e) = "not" THEN e[2][2] ELSE e[2]
SameSubject(a, b) ==
  /\ \/ Op(a) \in Comparisons \cup {"symbol"}
     \/ Op(a) = "not" /\ Op(a[2]) \in Comparisons \cup {"symbol"}
  /\ \/ Op(b) \in Comparisons \cup {"symbol"}
     \/ Op(b) = "not" /\ Op(b[2]) = "symbol"
  /\ Subject(a) = Subject(b)
  /\ TypeOf(Subject(a)) # "unknown"

Are(a, b, type1, type2) == Op(a) = type1 /\ Op(b) = type2
SymbolWith(a, b, type, v) ==
  \/ Are(a, b, "symbol", type) /\ b[3] = v
  \/ Are(a, b, type, "symbol") /\ a[3] = v
IsNegated(a, b) ==
  \/ Are(a, b, "not", "symbol") /\ Op(a[2]) = "symbol"
  \/ Are(a, b, "symbol", "not") /\ Op(b[2]) = "symbol"

(* Mutant: a tristate or its negation is y, as it is with a bool.          *)
expr_join_orOfAny(a, b) == IF IsNegated(a, b) THEN Symbol("y") ELSE NULL

expr_join_or(a, b) ==
  LET s == Subject(a)
      left == Consts \ {a[3], b[3]}
  IN  IF TypeOf(s) = "tristate" /\ Are(a, b, "equal", "equal")
                /\ {a[3], b[3]} \subseteq Consts
      THEN Unequal(s, CHOOSE v \in left : TRUE)
      ELSE IF TypeOf(s) = "bool" /\ IsNegated(a, b) THEN Symbol("y")
      ELSE NULL

(* a='v' and a!='w': n if v is w, else the first.                          *)
EqualWithUnequal(s, v, w) == IF v = w THEN Symbol("n") ELSE Equal(s, v)

expr_join_and(a, b) ==
  LET s == Subject(a)
      left == Consts \ {a[3], b[3]}
      both == Are(a, b, "equal", "unequal") \/ Are(a, b, "unequal", "equal")
  IN  IF SymbolWith(a, b, "equal", "y") \/ SymbolWith(a, b, "unequal", "m")
      THEN Equal(s, "y")
      ELSE IF SymbolWith(a, b, "unequal", "n") THEN Symbol(s)
      ELSE IF TypeOf(s) # "tristate" THEN NULL
      ELSE IF both /\ {a[3], b[3]} \subseteq Consts
      THEN IF Op(a) = "equal" THEN EqualWithUnequal(s, a[3], b[3])
                              ELSE EqualWithUnequal(s, b[3], a[3])
      ELSE IF Are(a, b, "unequal", "unequal") /\ {a[3], b[3]} \subseteq Consts
      THEN Equal(s, CHOOSE v \in left : TRUE)
      ELSE NULL

-----------------------------------------------------------------------------
(* Nots go down to the leaves, and comparisons of a bool become symbols.   *)

TransformEqual(e) ==
  IF TypeOf(e[2]) # "bool" THEN e
  ELSE CASE e[3] = "n" -> Not(Symbol(e[2]))
         [] e[3] = "m" -> Symbol("n")
         [] e[3] = "y" -> Symbol(e[2])
         [] OTHER -> e

TransformUnequal(e) ==
  IF TypeOf(e[2]) # "bool" THEN e
  ELSE CASE e[3] = "n" -> Symbol(e[2])
         [] e[3] = "m" -> Symbol("y")
         [] e[3] = "y" -> Not(Symbol(e[2]))
         [] OTHER -> e

(* What !e is made into, to be transformed again.                          *)
Turned(e) ==
  CASE Op(e) = "not" -> e[2]
    [] Op(e) = "or" -> <<"and", Not(e[2]), Not(e[3])>>
    [] Op(e) = "and" -> <<"or", Not(e[2]), Not(e[3])>>
TransformNot(e, F) ==
  CASE Op(e) \in Operators \cup {"not"} -> F[Turned(e)]
    [] Op(e) = "equal" -> Unequal(e[2], e[3])
    [] Op(e) = "unequal" -> Equal(e[2], e[3])
    [] Is(e, "y") -> Symbol("n")
    [] Is(e, "n") -> Symbol("y")
    [] Is(e, "m") -> Symbol("m")
    [] OTHER -> Not(e)
Transform(e, F) ==
  CASE Op(e) \in Operators -> <<Op(e), F[e[2]], F[e[3]]>>
    [] Op(e) = "not" -> TransformNot(F[e[2]], F)
    [] Op(e) = "equal" -> TransformEqual(e)
    [] Op(e) = "unequal" -> TransformUnequal(e)
    [] OTHER -> e

-----------------------------------------------------------------------------
(* The comparison of an expression with y or n, as an expression; F says   *)
(* how an operand is compared, too.                                        *)

(* Mutant: the operator is kept for n too.                                 *)
CompareWithKept(type, v) == type
CompareWith(type, v) ==
  IF v = "y" THEN type ELSE IF type = "and" THEN "or" ELSE "and"
CompareOperands(e, v, F) ==
  <<CompareWith(Op(e), v), F[<<e[2], "equal">>], F[<<e[3], "equal">>]>>
TransCompare(e, type, v, F) ==
  CASE e = NULL -> IF type = "unequal" THEN Not(Symbol(v)) ELSE Symbol(v)
    [] Op(e) \in Operators ->
         IF type = "unequal" THEN Not(CompareOperands(e, v, F))
                             ELSE CompareOperands(e, v, F)
    [] Op(e) = "not" ->
         F[<<e[2], IF type = "equal" THEN "unequal" ELSE "equal">>]
    [] Op(e) \in Comparisons ->
         IF (type = "equal") = (v = "y") THEN e ELSE Not(e)
    [] Op(e) = "symbol" -> <<type, e[2], v>>

-----------------------------------------------------------------------------
(* What an expression says of a symbol.                                    *)

ContainsSymbol(e, s, F) ==
  CASE Op(e) \in Operators -> F[e[2]] \/ F[e[3]]
    [] Op(e) = "not" -> F[e[2]]
    [] Op(e) \in Comparisons -> s \in {e[2], e[3]}
    [] Op(e) = "symbol" -> e[2] = s
    [] OTHER -> FALSE

(* It is n when the symbol is, as far as its operands show one by one.     *)
DependsSymbol(e, s, F) ==
  CASE Op(e) = "and" -> F[e[2]] \/ F[e[3]]
    [] Op(e) = "symbol" -> e[2] = s
    [] Op(e) = "equal" -> e[2] = s /\ e[3] \in {"y", "m"}
    [] Op(e) = "unequal" -> e[2] = s /\ e[3] = "n"
    [] OTHER -> FALSE
=============================================================================
