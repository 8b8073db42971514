-------------------------------- MODULE MCConf --------------------------------
(***************************************************************************)
(* KconfigConf on a benchmark whose recipe has one of two types and, for   *)
(* one of them and with what a later menu has, a number; with a choice     *)
(* that may be m or n, a tristate that selects another, and the modules    *)
(* switch.                                                                 *)
(***************************************************************************)
EXTENDS KconfigConf

MCSymbols ==
  <<"TYPE", "modules", "CALLS", "EXEC", "TIME", "KIND", "FS", "LIB", "ONE",
    "OTHER", "MODULES">>

MCType ==
  [s \in ToSet(MCSymbols) |->
     CASE s = "CALLS" -> "number"
       [] s \in {"FS", "LIB", "KIND", "ONE", "OTHER"} -> "tristate"
       [] OTHER -> "bool"]

MCPrompts ==
  [s \in ToSet(MCSymbols) |->
     CASE s = "modules" -> <<>>
       [] s \in {"ONE", "OTHER"} -> <<Sym("KIND")>>
       [] s = "CALLS" -> <<And(Sym("EXEC"), Sym("FS"))>>
       [] s \in {"EXEC", "TIME"} -> <<Sym("TYPE")>>
       [] OTHER -> <<Const(yes)>>]

Property(value, cond) == <<[value |-> value, cond |-> cond]>>

MCDefaults ==
  [s \in ToSet(MCSymbols) |->
     CASE s = "modules" -> Property(Sym("MODULES"), Const(yes))
       [] s = "CALLS" -> Property(Const(10), And(Sym("EXEC"), Sym("FS")))
       [] s = "TYPE" -> Property(Sym("TIME"), Const(yes))
       [] OTHER -> <<>>]

MCRanges ==
  [s \in ToSet(MCSymbols) |->
     IF s = "CALLS"
     THEN <<[low |-> Const(1), high |-> Const(20), cond |-> And(Sym("EXEC"), Sym("FS"))]>>
     ELSE <<>>]

MCDirDep ==
  [s \in ToSet(MCSymbols) |->
     IF s = "CALLS" THEN And(Sym("EXEC"), Sym("FS")) ELSE Const(yes)]

MCRevDep ==
  [s \in ToSet(MCSymbols) |->
     CASE s = "TYPE" -> Const(mod)
       [] s = "LIB" -> Sym("FS")
       [] OTHER -> Const(no)]

MCMembers == [TYPE |-> <<"TIME", "EXEC">>, KIND |-> <<"ONE", "OTHER">>]

MCMenus ==
  [main |-> <<Node("MODULES", <<>>),
              Node("TYPE", <<Node("TIME", <<>>),
                             Node("EXEC", <<Node("CALLS", <<>>)>>)>>),
              Node("KIND", <<Node("ONE", <<>>), Node("OTHER", <<>>)>>),
              Entry("storage", Const(yes))>>,
   storage |-> <<Node("FS", <<>>), Node("LIB", <<>>)>>]

(* No configuration, one of all symbols and one of a few; the header may   *)
(* be there from a run before, and so may a seed and a minimal file.       *)
Whole == [MODULES |-> yes, TIME |-> no, EXEC |-> yes, CALLS |-> 20,
          FS |-> mod, LIB |-> mod]
Part == [MODULES |-> no, TIME |-> no, EXEC |-> yes, LIB |-> yes]

MCDisks ==
  {<<>>, "seed" :> [EXEC |-> yes], "defconfig" :> [EXEC |-> yes, CALLS |-> 5]}
  \cup {("config" :> f) @@ d : f \in {Whole, Part}, d \in {<<>>, "header" :> <<>>}}
=============================================================================
