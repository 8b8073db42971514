---------------------------- MODULE KconfigExpr ----------------------------
(***************************************************************************)
(* The simplification of expressions (tools/menuconfig/expr.c): the rules  *)
(* of ExprRules on whole trees.                                            *)
(*                                                                         *)
(* The code simplifies in place, through pointers into the one tree or     *)
(* two: a pointer is a path here, and every write keeps the paths that are *)
(* still in use.  A borrowed leaf is the only part of a tree whose freeing *)
(* is felt.                                                                *)
(***************************************************************************)
EXTENDS ExprRules, SequencesExt

RECURSIVE expr_copy(_)
expr_copy(e) ==
  CASE Op(e) = "symbol" -> Symbol(e[2])
    [] Op(e) = "not" -> Not(expr_copy(e[2]))
    [] Op(e) \in Operators -> <<Op(e), expr_copy(e[2]), expr_copy(e[3])>>
    [] OTHER -> e

(* The lenders of the leaves that are part of a tree.                      *)
RECURSIVE Lent(_)
Lent(e) ==
  CASE Op(e) = "symbol" -> {e[3]} \ {0}
    [] Op(e) = "not" -> Lent(e[2])
    [] Op(e) \in Operators -> Lent(e[2]) \cup Lent(e[3])
    [] OTHER -> {}

-----------------------------------------------------------------------------
(* Pointers into a tree.                                                   *)

RECURSIVE At(_, _), Put(_, _, _), Chain(_, _, _), Within(_, _, _)
At(e, path) == IF path = <<>> THEN e ELSE At(e[Head(path)], Tail(path))
Put(e, path, new) ==
  IF path = <<>> THEN new
  ELSE [e EXCEPT ![Head(path)] = Put(@, Tail(path), new)]

(* What a chain of one operator joins, and that with the operator's nodes  *)
(* after their operands.                                                   *)
Chain(type, e, path) ==
  IF Op(At(e, path)) # type THEN <<path>>
  ELSE Chain(type, e, Append(path, 2)) \o Chain(type, e, Append(path, 3))
Within(type, e, path) ==
  IF Op(At(e, path)) # type THEN <<path>>
  ELSE Within(type, e, Append(path, 2)) \o Within(type, e, Append(path, 3))
         \o <<path>>

Pairs(s, t) ==
  FlattenSeq([i \in DOMAIN s |-> [j \in DOMAIN t |-> <<s[i], t[j]>>]])

-----------------------------------------------------------------------------
(* The rules of one node, from the leaves up or from the root down.        *)

RECURSIVE expr_eliminate_yn(_), expr_transform(_)
expr_eliminate_yn(e) ==
  EliminateYn(e, [d \in Operands(e) |-> expr_eliminate_yn(d)])
expr_transform(e) ==
  LET below == [d \in Operands(e) |-> expr_transform(d)]
      again == IF Op(e) = "not" /\ Operands(below[e[2]]) # {}
               THEN {Turned(below[e[2]])} ELSE {}
  IN  Transform(e, below @@ [d \in again |-> expr_transform(d)])

RECURSIVE expr_trans_compare(_, _, _)
expr_trans_compare(e, type, v) ==
  TransCompare(e, type, v, [d \in Operands(e) \X Comparisons |->
                              expr_trans_compare(d[1], d[2], v)])

RECURSIVE expr_contains_symbol(_, _), expr_depends_symbol(_, _)
expr_contains_symbol(e, s) ==
  ContainsSymbol(e, s, [d \in Operands(e) |-> expr_contains_symbol(d, s)])
expr_depends_symbol(e, s) ==
  DependsSymbol(e, s, [d \in Operands(e) |-> expr_depends_symbol(d, s)])

RECURSIVE expr_calc_value(_, _)
expr_calc_value(values, e) ==
  CalcValue(values, e, [d \in Operands(e) |-> expr_calc_value(values, d)])

RECURSIVE expr_trans_bool(_)
expr_trans_bool(e) ==
  CASE Op(e) \in Operators ->
         <<Op(e), expr_trans_bool(e[2]), expr_trans_bool(e[3])>>
    [] Op(e) = "not" -> Not(expr_trans_bool(e[2]))
    [] Op(e) = "unequal" /\ TypeOf(e[2]) = "tristate" /\ e[3] = "n" ->
         Symbol(e[2])
    [] OTHER -> e

-----------------------------------------------------------------------------
(* Equal but for the order of operands: what two trees have in common is   *)
(* taken out of both, leaf by leaf.                                        *)

RECURSIVE expr_eq(_, _), expr_eliminate_eq(_, _)

MatchOut(type, two, at) ==
  LET a == At(two[1], at[1])
      b == At(two[2], at[2])
      constant == \E c \in {"y", "n"} : Is(a, c) /\ Is(b, c)
  IN  IF ~ constant /\ expr_eq(a, b)
      THEN <<Put(two[1], at[1], Symbol(Neutral(type))),
             Put(two[2], at[2], Symbol(Neutral(type)))>>
      ELSE two

EliminateAlong(type, two) ==
  FoldLeft(LAMBDA acc, at : MatchOut(type, acc, at), two,
           Pairs(Chain(type, two[1], <<>>), Chain(type, two[2], <<>>)))

(* First along the operator of the one, then along that of the other.      *)
EliminateSide(two, side) ==
  IF Op(two[side]) \in Operators /\ (side = 2 => Op(two[1]) # Op(two[2]))
  THEN EliminateAlong(Op(two[side]), two) ELSE two

BothWithout(two) == <<expr_eliminate_yn(two[1]), expr_eliminate_yn(two[2])>>
expr_eliminate_eq(a, b) ==
  IF NULL \in {a, b} THEN <<a, b>>
  ELSE BothWithout(FoldLeft(EliminateSide, <<a, b>>, <<1, 2>>))

AreOneSymbol(rest) ==
  /\ Op(rest[1]) = "symbol" /\ Op(rest[2]) = "symbol"
  /\ rest[1][2] = rest[2][2]
expr_eq(a, b) ==
  /\ Op(a) = Op(b)
  /\ CASE Op(a) \in Comparisons -> a = b
       [] Op(a) = "symbol" -> a[2] = b[2]
       [] Op(a) = "not" -> expr_eq(a[2], b[2])
       [] Op(a) \in Operators ->
            AreOneSymbol(expr_eliminate_eq(expr_copy(a), expr_copy(b)))

-----------------------------------------------------------------------------
(* Two operands that are one.                                              *)

expr_join(type, a, b) ==
  IF expr_eq(a, b) THEN expr_copy(a)
  ELSE IF ~ SameSubject(a, b) THEN NULL
  ELSE IF type = "or" THEN expr_join_or(a, b) ELSE expr_join_and(a, b)

-----------------------------------------------------------------------------
(* What two expressions have in common, and the two without it.            *)

ExtractOne(type, x, at) ==
  LET a == At(x.e1, at[1])
      b == At(x.e2, at[2])
  IN  IF expr_eq(a, b)
      THEN [common |-> expr_alloc(type, x.common, a),
            e1 |-> Put(x.e1, at[1], Symbol(Neutral(type))),
            e2 |-> Put(x.e2, at[2], Symbol(Neutral(type)))]
      ELSE x

Extracted(x) ==
  IF x.common = NULL THEN x
  ELSE [x EXCEPT !.e1 = expr_eliminate_yn(@), !.e2 = expr_eliminate_yn(@)]
expr_extract_eq(type, a, b) ==
  Extracted(FoldLeft(LAMBDA acc, at : ExtractOne(type, acc, at),
                     [common |-> NULL, e1 |-> a, e2 |-> b],
                     Pairs(Chain(type, a, <<>>), Chain(type, b, <<>>))))

-----------------------------------------------------------------------------
(* Operands that repeat or contradict each other.  A record d is the tree  *)
(* and the number of times it was changed (trans_count).                   *)

RECURSIVE expr_eliminate_dups1(_, _, _), expr_eliminate_dups2(_, _, _)

PutJoined(type, d, at, joined) ==
  IF joined = NULL THEN d
  ELSE [e |-> Put(Put(d.e, at[1], Symbol(Neutral(type))), at[2], joined),
        count |-> d.count + 1]
JoinTwo(type, d, at) ==
  PutJoined(type, d, at, expr_join(type, At(d.e, at[1]), At(d.e, at[2])))

Dups1(type, d, at) ==
  LET a == At(d.e, at[1])
  IN  IF at[1] = at[2] THEN d
      ELSE JoinTwo(type, IF Op(a) \in Operators
                         THEN expr_eliminate_dups1(Op(a), d, at[1]) ELSE d, at)

expr_eliminate_dups1(type, d, path) ==
  LET chain == Chain(type, d.e, path)
  IN  FoldLeft(LAMBDA acc, at : Dups1(type, acc, at), d, Pairs(chain, chain))

(* The operand is dropped if all of its contrary is among the others.      *)
DropContrary(d, at) ==
  LET a == At(d.e, at[1])
      inverse == IF Op(a) = "or" THEN "and" ELSE "or"
      x == expr_extract_eq(inverse, expr_transform(Not(expr_copy(a))),
                           expr_copy(At(d.e, at[2])))
  IN  IF Is(x.e1, Neutral(inverse))
      THEN [e |-> Put(d.e, at[1], Symbol(Zero(inverse))),
            count |-> d.count + 1]
      ELSE d

Dups2(d, at) ==
  LET a == At(d.e, at[1])
  IN  IF at[1] = at[2] \/ Op(a) \notin Operators THEN d
      ELSE DropContrary(expr_eliminate_dups2(Op(a), d, at[1]), at)

expr_eliminate_dups2(type, d, path) ==
  FoldLeft(LAMBDA acc, at : Dups2(acc, at), d,
           Pairs(Chain(type, d.e, path), Within(type, d.e, path)))

RECURSIVE expr_eliminate_dups(_)
DupsAgain(e, d) ==
  IF d.count = 0 THEN e ELSE expr_eliminate_dups(expr_eliminate_yn(d.e))
expr_eliminate_dups(e) ==
  IF Op(e) \notin Operators THEN e
  ELSE DupsAgain(e, expr_eliminate_dups2(Op(e),
         expr_eliminate_dups1(Op(e), [e |-> e, count |-> 0], <<>>), <<>>))

=============================================================================
