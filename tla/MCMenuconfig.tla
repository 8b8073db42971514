---------------------------- MODULE MCMenuconfig ----------------------------
(***************************************************************************)
(* Menuconfig on a small set of configuration files: a benchmark with a    *)
(* recipe of two types, as each of configs/Config.* has, and for the parts *)
(* of the tool that these do not reach a modules switch, a tristate in a   *)
(* menu of its own, and a symbol without a prompt that it selects.         *)
(***************************************************************************)
EXTENDS Menuconfig

MCSymbols ==
  <<"TYPE", "modules", "CALLS", "EXEC", "TIME", "RECIPE", "SHA", "LIB", "FS",
    "MODULES">>

MCType ==
  [s \in ToSet(MCSymbols) |->
     CASE s = "CALLS" -> "number"
       [] s \in {"FS", "LIB"} -> "tristate"
       [] OTHER -> "bool"]

MCPrompts ==
  [s \in ToSet(MCSymbols) |->
     CASE s \in {"modules", "LIB"} -> <<>>
       [] s = "CALLS" -> <<And(Sym("RECIPE"), Sym("EXEC"))>>
       [] s \in {"EXEC", "TIME"} -> <<Sym("TYPE")>>
       [] s = "TYPE" -> <<Sym("RECIPE")>>
       [] s = "RECIPE" -> <<Sym("SHA")>>
       [] OTHER -> <<Const(yes)>>]

Default(value, cond) == <<[value |-> value, cond |-> cond]>>

MCDefaults ==
  [s \in ToSet(MCSymbols) |->
     CASE s = "modules" -> Default(Sym("MODULES"), Const(yes))
       [] s = "CALLS" -> Default(Const(10), And(Sym("RECIPE"), Sym("EXEC")))
       [] s = "TYPE" -> Default(Sym("TIME"), Sym("RECIPE"))
       [] s = "RECIPE" -> Default(Const(yes), Sym("SHA"))
       [] s = "SHA" -> Default(Const(yes), Const(yes))
       [] OTHER -> <<>>]

MCRanges ==
  [s \in ToSet(MCSymbols) |->
     IF s = "CALLS"
     THEN <<[low |-> Const(1), high |-> Const(20),
             cond |-> And(Sym("RECIPE"), Sym("EXEC"))]>>
     ELSE <<>>]

MCDirDep ==
  [s \in ToSet(MCSymbols) |->
     CASE s = "CALLS" -> And(Sym("RECIPE"), Sym("EXEC"))
       [] s = "RECIPE" -> Sym("SHA")
       [] OTHER -> Const(yes)]

MCRevDep ==
  [s \in ToSet(MCSymbols) |->
     CASE s = "TYPE" -> And(Sym("RECIPE"), Const(mod))
       [] s = "LIB" -> Sym("FS")
       [] OTHER -> Const(no)]

MCMembers == "TYPE" :> <<"TIME", "EXEC">>

Leaf(s) == Node(s, <<>>)

MCMenus ==
  [main |-> <<Leaf("MODULES"),
              Node("SHA",
                <<Node("RECIPE",
                    <<Node("TYPE", <<Leaf("TIME"), Leaf("EXEC")>>),
                      Leaf("CALLS")>>)>>),
              Entry("storage", Const(yes))>>,
   storage |-> <<Leaf("FS"), Leaf("LIB")>>]

(* Files as they are saved, and one with a symbol that is gone.  There may *)
(* be no configuration yet.                                                *)
Alternate == [MODULES |-> yes, FS |-> mod, LIB |-> mod, SHA |-> yes,
              RECIPE |-> yes, TIME |-> no, EXEC |-> yes, CALLS |-> 20]
Small == [MODULES |-> no, SHA |-> no, FS |-> no]
Outdated == ("GONE" :> yes) @@ Small

MCDisks ==
  {"alternate" :> Alternate} \cup
  {("alternate" :> Alternate) @@ ("config" :> f) : f \in {Small, Outdated}}
=============================================================================
