----------------------------- MODULE MCReading -----------------------------
(***************************************************************************)
(* What the parser reads, apart from the menus: an expression, or files    *)
(* that include each other.                                                *)
(*                                                                         *)
(* The expressions of a configuration file are built as the parser builds  *)
(* them (zconf.tab.c, the actions of the rules for expr), operand by       *)
(* operand: here up to four leaves with one not, over a bool A, a tristate *)
(* B, a comparison of it and a constant.  There are three files that may   *)
(* include any of them up to twice, and a fourth that is missing; blocks   *)
(* are not opened here.                                                    *)
(***************************************************************************)
EXTENDS KconfigExpr, SourceFiles

CONSTANTS
  Leaves,              \* the symbols and comparisons in the file
  MaxLeaves, MaxNots   \* of them and of nots in the expressions begun

VARIABLES
  reads,       \* "expression" or "files"
  operands     \* the parser's stack, the last expression at its end

(* How many nots, or leaves, there are in an expression.                   *)
RECURSIVE Count(_, _)
Count(what, e) ==
  CASE Op(e) = "not" -> Count(what, e[2]) + IF what = "not" THEN 1 ELSE 0
    [] Op(e) \in Operators -> Count(what, e[2]) + Count(what, e[3])
    [] OTHER -> IF what = "leaf" THEN 1 ELSE 0
InAll(what) == FoldLeft(LAMBDA sum, e : sum + Count(what, e), 0, operands)

Nth(i) == operands[Len(operands) - i]
Replaced(count, e) ==
  operands' = Append(SubSeq(operands, 1, Len(operands) - count), e)

ReadLeaf ==
  /\ Len(operands) < 3 /\ InAll("leaf") < MaxLeaves
  /\ \E e \in Leaves : operands' = Append(operands, e)
ReadNot ==
  /\ Len(operands) >= 1 /\ InAll("not") < MaxNots
  /\ Replaced(1, Not(Nth(0)))
ReadBoth ==
  /\ Len(operands) >= 2
  /\ \E type \in Operators : Replaced(2, <<type, Nth(1), Nth(0)>>)

ExprInit == operands = <<>>
ExprNext == ReadLeaf \/ ReadNot \/ ReadBoth

-----------------------------------------------------------------------------
MCSymbolType == [A |-> "bool", B |-> "tristate"]
MCLeaves ==
  {<<"symbol", s, 0>> : s \in {"A", "B", "y"}} \cup {<<"unequal", "B", "n">>}
Lines ==
  {<<>>} \cup {<<f>> : f \in Files}
    \cup {<<f, g>> : f, g \in Files \ Missing}
MCTexts == {t \in [Files -> Lines] : \A f \in Missing : t[f] = <<>>}

ReadingInit ==
  /\ reads \in {"expression", "files"}
  /\ ExprInit /\ NestingInit
  /\ reads = "expression" => text = [f \in Files |-> <<>>]

ReadingNext ==
  \/ reads = "expression" /\ ExprNext /\ UNCHANGED <<reads, scanner, nesting>>
  \/ reads = "files" /\ ScanNext /\ UNCHANGED <<reads, operands, nesting>>

(* The parser asks for tokens until there are no more.                     *)
ReadingSpec ==
  /\ ReadingInit /\ [][ReadingNext]_<<reads, scanner, nesting, operands>>
  /\ WF_scanner(reads = "files" /\ ScanNext)

-----------------------------------------------------------------------------
Simplified(e) == expr_eliminate_dups(expr_transform(e))

(* Operands of one operator that have no operator in them.                 *)
Flat(e) ==
  Op(e) \in Operators =>
    \A path \in ToSet(Chain(Op(e), e, <<>>)) : Op(At(e, path)) \notin Operators

(* Whatever is joined, dropped or turned round, an expression keeps its    *)
(* value; one that is m may lose it to an operand's contrary, which counts *)
(* as n (expr.c:577-604).                                                  *)
SimplifiesToSame ==
  operands # <<>> =>
    LET e == Nth(0)
        simple == Simplified(e)
        flat == Flat(expr_transform(e))
    IN  \A v \in Values :
          LET value == expr_calc_value(v, e)
          IN  value # 1 \/ flat => expr_calc_value(v, simple) = value

(* An option is put below another if whenever it can be seen the other     *)
(* can: this is found out by what the two conditions have in common        *)
(* (menu.c:322-341).                                                       *)
Compared(e) == Simplified(expr_trans_compare(e, "unequal", "n"))
Implied(base, dep) ==
  expr_is_yes(expr_eliminate_eq(Compared(dep), Compared(base))[2])
ImpliedIsTrue ==
  Len(operands) >= 2 /\ Implied(Nth(1), Nth(0)) =>
    \A v \in Values :
      NoModules(v) /\ expr_calc_value(v, Nth(0)) # 0
        => expr_calc_value(v, Nth(1)) # 0

(* Files are read to their ends, and lines, names and blocks ascribed to   *)
(* the right one (zconf.lex.c:2353-2409).                                  *)
FilesRead == reads = "files" => []FileIsRead /\ ReadingEnds
=============================================================================
