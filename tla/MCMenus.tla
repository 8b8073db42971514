------------------------------ MODULE MCMenus ------------------------------
(***************************************************************************)
(* Up to three statements of twelve, in one file or two: configs of two    *)
(* bools and a tristate, with prompts, a select and conditions on each     *)
(* other, ifs, menus, one of them visible under a condition, a comment,    *)
(* and choices of both types.                                              *)
(***************************************************************************)
EXTENDS KconfigMenus, TLC

MCSymbolType ==
  [A |-> "bool", B |-> "bool", T |-> "tristate"]
    @@ ("choice" :> "bool") @@ ("tristate choice" :> "tristate")

Alone == [f \in Files |-> <<>>]
MCTexts == {Alone, [Alone EXCEPT ![Root] = <<"more">>]}
ASSUME OnceAssumption == EachFileOnce

Says(type, if, target) == [type |-> type, if |-> if, target |-> target]
Statement(kind, sym, dep, props) ==
  [kind |-> kind, sym |-> sym, dep |-> dep, props |-> props,
   visible |-> NoSymbol, optional |-> FALSE]
Prompt(if) == <<Says("prompt", if, NoSymbol)>>
Title(type) == <<Says(type, NULL, NoSymbol)>>

A == Symbol("A")
NotA == Not(A)
TisOn == Unequal("T", "n")

Configs ==
  {Statement("config", "A", NULL, Prompt(NULL)),
   Statement("config", "A", NULL, Prompt(TisOn)),
   Statement("config", "A", NULL, <<>>),
   Statement("config", "T", NULL, Prompt(NULL)),
   Statement("config", "B", TisOn, Prompt(NotA)),
   Statement("config", "B", NotA,
             Prompt(NULL) \o <<Says("select", NULL, "T")>>)}

Blocks ==
  {Statement("if", NoSymbol, TisOn, <<>>),
   Statement("menu", NoSymbol, A, Title("menu")),
   [Statement("menu", NoSymbol, NULL, Title("menu")) EXCEPT !.visible = "A"],
   Statement("choice", "choice", NULL, Prompt(NULL)),
   Statement("choice", "tristate choice", A, Prompt(NULL))}

MCStatements ==
  Configs \cup Blocks \cup {Statement("comment", NoSymbol, TisOn, Title("comment"))}
=============================================================================
