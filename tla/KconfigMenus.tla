---------------------------- MODULE KconfigMenus ----------------------------
(***************************************************************************)
(* The menus of a configuration: what the parser builds statement by       *)
(* statement (the rules of zconf.tab.c and the functions they call in      *)
(* menu.c), and what menu_finalize makes of it.                            *)
(*                                                                         *)
(* The steps are those of SourceFiles, with what is in the entries.  A     *)
(* property is a number, as an entry is.  A statement is read with all its *)
(* options at once.  The types of symbols are those that are declared, or  *)
(* inferred within a choice.                                               *)
(***************************************************************************)
EXTENDS KconfigExpr, SourceFiles

CONSTANTS
  Statements,   \* the statements a file may have, see menu_add_entry
  MaxEntries

VARIABLES
  tree,           \* the entries, properties and symbols as parsed
  result          \* the same when menu_finalize is done

vars == <<scanner, nesting, tree, result>>

IsChoice(s) == s \in {"choice", "tristate choice"}

(* An entry and a property, as they are allocated; what an entry is in is  *)
(* in places.                                                              *)
Entry(s) ==
  [sym |-> s, next |-> 0, list |-> 0, dep |-> NULL, visibility |-> NULL,
   prompt |-> 0]
Property(type, i, s, if, cond, target) ==
  [type |-> type, menu |-> i, sym |-> s, if |-> if, cond |-> cond,
   target |-> target]

Symbols == DOMAIN SymbolType
NoSymbol == "no symbol"

Empty ==
  [menu |-> <<[Entry(NoSymbol) EXCEPT !.prompt = 1]>>,
   prop |-> <<Property("menu", 1, NoSymbol, NULL, NULL, NoSymbol)>>,
   dir_dep |-> [s \in Symbols |-> NULL],
   rev_dep |-> [s \in Symbols |-> NULL],
   optional |-> {},                 \* the symbols with SYMBOL_OPTIONAL
   members |-> [s \in Symbols |-> <<>>],
   freed |-> {}]                    \* the entries whose visibility was freed

-----------------------------------------------------------------------------
(* Reading.                                                                *)

(* change 'm' into 'm' && MODULES                                          *)
RECURSIVE menu_check_dep(_)
menu_check_dep(e) ==
  CASE Op(e) \in Operators ->
         <<Op(e), menu_check_dep(e[2]), menu_check_dep(e[3])>>
    [] Op(e) = "not" -> Not(menu_check_dep(e[2]))
    [] Is(e, "m") -> <<"and", e, Symbol("MODULES")>>
    [] OTHER -> e

RECURSIVE Above(_)
Above(i) == IF i = 0 THEN <<>> ELSE <<i>> \o Above(places[i].parent)

(* A prompt gets the visibility of every menu it is in: the expression     *)
(* itself, which the menu goes on using.                                   *)
(* Mutant: of the menu next above only.                                    *)
InheritedOne(t, cond) ==
  LET up == t.menu[current_menu].visibility
  IN  IF up = NULL THEN cond ELSE expr_alloc_and(cond, up)
Inherited(t, cond) ==
  FoldLeft(LAMBDA e, up : expr_alloc_and(e, t.menu[up].visibility),
           cond, Above(current_menu))

menu_add_prop(t, type, i, if, target) ==
  LET cond == menu_check_dep(if)
      k == Len(t.prop) + 1
      s == t.menu[i].sym
      own == Property(type, i, s, if,
                      IF type = "prompt" THEN Inherited(t, cond) ELSE cond,
                      target)
      t1 == [t EXCEPT !.prop = Append(@, own)]
  IN  IF type \in {"prompt", "menu", "comment"}
      THEN [t1 EXCEPT !.menu[i].prompt = k] ELSE t1

(* A statement st is a record:                                             *)
(*   kind     "config", "choice", "if", "menu" or "comment"                *)
(*   sym      the symbol of a config or choice                             *)
(*   dep      what it depends on, or the condition of an if                *)
(*   props    its properties, each a type, a condition and a target        *)
(*   visible  of a menu, the symbol it is visible if, or NoSymbol          *)
(*   optional of a choice                                                  *)
menu_add_entry(t, st) ==
  LET i == Len(t.menu) + 1
      new == [Entry(st.sym) EXCEPT
                !.dep = menu_check_dep(st.dep),
                !.visibility = IF st.visible = NoSymbol THEN NULL
                               ELSE Borrowed(st.visible, i)]
      linked == IF last_entry_ptr[1] = "list"
                THEN [t EXCEPT !.menu[last_entry_ptr[2]].list = i]
                ELSE [t EXCEPT !.menu[last_entry_ptr[2]].next = i]
      marked == IF st.kind = "config" \/ st.optional
                THEN [linked EXCEPT !.optional = @ \cup {st.sym}] ELSE linked
  IN  FoldLeft(LAMBDA acc, p : menu_add_prop(acc, p.type, i, p.if, p.target),
               [marked EXCEPT !.menu = Append(@, new)], st.props)

(* A choice holds configs, comments and ifs.                               *)
Read(st) ==
  /\ Len(tree.menu) < MaxEntries
  /\ "choice" \in ToSet(blocks) => st.kind \in {"config", "comment", "if"}
  /\ tree' = menu_add_entry(tree, st)
  /\ UNCHANGED result

ReadEntry(st) == st.kind \notin Kinds /\ AddEntry /\ Read(st)
ReadBlock(st) == st.kind \in Kinds /\ OpenBlock(st.kind) /\ Read(st)

-----------------------------------------------------------------------------
(* menu_finalize, for the entry p.                                         *)

(* An entry depends on what it is in as well, and so do its properties.    *)
PropsOf(t, i) ==
  IF t.menu[i].sym = NoSymbol
  THEN IF t.menu[i].prompt = 0 THEN <<>> ELSE <<t.menu[i].prompt>>
  ELSE SelectSeq([k \in DOMAIN t.prop |-> k], LAMBDA k : t.prop[k].menu = i)

PropagateToProp(t, k) ==
  LET p == t.prop[k]
      base == t.menu[p.menu].dep
      simple == expr_eliminate_dups(expr_alloc_and(expr_copy(base),
                                                   expr_transform(p.cond)))
      cond == IF p.sym # NoSymbol /\ TypeOf(p.sym) # "tristate"
              THEN expr_trans_bool(simple) ELSE simple
      t1 == [t EXCEPT !.prop[k].cond = cond,
                      !.freed = @ \cup (Lent(p.cond) \ Lent(cond))]
  IN  IF p.type # "select" THEN t1
      ELSE [t1 EXCEPT !.rev_dep[p.target] =
              expr_alloc_or(@, expr_alloc_and(Symbol(p.sym), expr_copy(cond)))]

PropagateToEntry(t, i, parentdep) ==
  LET dep == expr_eliminate_dups(expr_alloc_and(expr_copy(parentdep),
                                                expr_transform(t.menu[i].dep)))
  IN  FoldLeft(PropagateToProp, [t EXCEPT !.menu[i].dep = dep], PropsOf(t, i))

PromptCond(t, i) ==
  IF t.menu[i].prompt = 0 THEN NULL ELSE t.prop[t.menu[i].prompt].cond

ParentDep(t, p) ==
  IF IsChoice(t.menu[p].sym) THEN Symbol(t.menu[p].sym)
  ELSE IF t.menu[p].prompt # 0 THEN PromptCond(t, p) ELSE t.menu[p].dep

RECURSIVE Siblings(_, _)
Siblings(t, i) ==
  IF i = 0 THEN <<>> ELSE <<i>> \o Siblings(t, t.menu[i].next)

Propagate(t, p) ==
  FoldLeft(LAMBDA acc, i : PropagateToEntry(acc, i, ParentDep(t, p)),
           t, Siblings(t, t.menu[p].list))

(* An option without a list takes in the entries after it that depend on   *)
(* it, as long as there are any.                                           *)
Compared(e) ==
  expr_eliminate_dups(expr_transform(expr_trans_compare(e, "unequal", "n")))
Implied(base, dep) ==
  expr_is_yes(expr_eliminate_eq(Compared(dep), Compared(base))[2])

(* Mutant: any mention of the option will do.                              *)
BelongsToAny(t, p, i) ==
  expr_contains_symbol(IF t.menu[i].prompt # 0 THEN PromptCond(t, i)
                       ELSE t.menu[i].dep, t.menu[p].sym)
BelongsTo(t, p, i) ==
  LET s == t.menu[p].sym
      dep == IF t.menu[i].prompt # 0 THEN PromptCond(t, i) ELSE t.menu[i].dep
  IN  /\ expr_contains_symbol(dep, s)
      /\ expr_depends_symbol(dep, s) \/ Implied(PromptCond(t, p), dep)

RECURSIVE menu_finalize(_, _), FinalizeEach(_, _), TakeIn(_, _, _)
TakenIn(t, p, last) ==
  IF last = 0 THEN t
  ELSE [t EXCEPT !.menu[p].list = t.menu[p].next,
                 !.menu[p].next = t.menu[last].next,
                 !.menu[last].next = 0]
TakeIn(t, p, last) ==
  LET i == t.menu[IF last = 0 THEN p ELSE last].next
  IN  IF i = 0 \/ (i # 0 /\ ~ BelongsTo(t, p, i)) THEN TakenIn(t, p, last)
      ELSE TakeIn([menu_finalize(t, i) EXCEPT !.menu[i].parent = p], p, i)

FinalizeEach(t, i) ==
  IF i = 0 THEN t
  ELSE LET done == menu_finalize(t, i) IN FinalizeEach(done, done.menu[i].next)

(* A member of a choice; a bool in a tristate choice needs the choice at y.*)
AddMember(t, c, i) ==
  LET s == t.menu[i].sym
      whole == TypeOf(c) = "tristate" /\ TypeOf(s) # "tristate"
      t1 == [t EXCEPT !.members[c] = Append(@, s)]
      t2 == [t1 EXCEPT !.menu[i].dep = expr_alloc_and(Equal(c, "y"), @)]
      Needs(acc, k) ==
        [acc EXCEPT !.prop[k].cond = expr_alloc_and(Equal(c, "y"), @)]
  IN  IF whole THEN FoldLeft(Needs, t2, PropsOf(t, i)) ELSE t1

IsMember(t, s) == \E c \in Symbols : s \in ToSet(t.members[c])

(* What a block without a prompt holds goes to the list it is in itself.   *)
(* Mutant: what follows the block is not hung on behind it.                *)
DissolveShort(t, p, i) ==
  LET inner == Siblings(t, t.menu[i].list)
      t1 == FoldLeft(LAMBDA acc, c : [acc EXCEPT !.menu[c].parent = p],
                     t, inner)
  IN  IF inner = <<>> \/ t.menu[i].prompt # 0 THEN t
      ELSE [t1 EXCEPT !.menu[i].next = t.menu[i].list, !.menu[i].list = 0]
Dissolve(t, p, i) ==
  LET inner == Siblings(t, t.menu[i].list)
      t1 == FoldLeft(LAMBDA acc, c : [acc EXCEPT !.menu[c].parent = p],
                     t, inner)
  IN  IF inner = <<>> \/ t.menu[i].prompt # 0 THEN t
      ELSE [t1 EXCEPT !.menu[Last(inner)].next = t.menu[i].next,
                      !.menu[i].next = t.menu[i].list,
                      !.menu[i].list = 0]

RECURSIVE Arrange(_, _, _)
Arrange(t, p, i) ==
  LET c == t.menu[p].sym
      s == t.menu[i].sym
      t1 == IF IsChoice(c) /\ s # NoSymbol /\ ~ IsMember(t, s)
            THEN AddMember(t, c, i) ELSE t
      t2 == Dissolve(t1, p, i)
  IN  IF i = 0 THEN t ELSE Arrange(t2, p, t2.menu[i].next)

(* What must be set if it can be seen is selected as far as m.             *)
SelectItself(t, p) ==
  LET s == t.menu[p].sym
      shown == expr_alloc_and(PromptCond(t, p), Symbol("m"))
  IN  IF s = NoSymbol \/ s \in t.optional \/ t.menu[p].prompt = 0 THEN t
      ELSE [t EXCEPT !.rev_dep[s] = expr_alloc_or(@, shown)]

DependsDirectly(t, p) ==
  [t EXCEPT !.dir_dep[t.menu[p].sym] = expr_alloc_or(@, t.menu[p].dep)]

menu_finalize(t, p) ==
  LET t1 == IF t.menu[p].list # 0
            THEN FinalizeEach(Propagate(t, p), t.menu[p].list)
            ELSE IF t.menu[p].sym = NoSymbol THEN t
            ELSE DependsDirectly(TakeIn(t, p, 0), p)
  IN  SelectItself(Arrange(t1, p, t1.menu[p].list), p)

(* The entries with what they are in, which now changes too.               *)
Placed(t) ==
  [t EXCEPT !.menu = [i \in DOMAIN @ |-> [parent |-> places[i].parent] @@ @[i]]]

Finalize ==
  /\ status = "read" /\ errors = 0 /\ blocks = <<>>
  /\ result = Empty
  /\ result' = menu_finalize(Placed(tree), 1)
  /\ UNCHANGED <<scanner, nesting, tree>>

-----------------------------------------------------------------------------
Init == NestingInit /\ tree = Empty /\ result = Empty

(* What the entries and properties do not take part in.                    *)
Nests == EndBlock \/ Source \/ EndSource \/ EndOfInput \/ Refuse

Next ==
  \/ \E st \in Statements : ReadEntry(st) \/ ReadBlock(st)
  \/ Nests /\ UNCHANGED <<tree, result>>
  \/ Finalize

Spec == Init /\ [][Next]_vars /\ WF_vars(Next)

-----------------------------------------------------------------------------
Entries == DOMAIN tree.menu
Props == DOMAIN tree.prop
Finalized == result # Empty

MinOf(a, b) == IF a < b THEN a ELSE b
MaxOver(v, S, Value(_)) == Max({0} \cup {Value(x) : x \in S})

(* What the files say, entry by entry: an entry needs what it depends on   *)
(* and what the block it is in needs; a member of a choice needs the       *)
(* choice, and needs it to be y if it cannot be m itself (where the symbol *)
(* is declared first: menu.c:355 passes over the others, and those below   *)
(* another member).                                                        *)
RECURSIVE Needed(_, _)
Holder(i) ==
  Head(SelectSeq(Above(places[i].parent),
                 LAMBDA j : j = 1 \/ tree.menu[j].prompt # 0))
Whole(i) ==
  LET c == tree.menu[Holder(i)].sym
      s == tree.menu[i].sym
  IN  /\ s # NoSymbol /\ TypeOf(s) # "tristate"
      /\ IsChoice(c) /\ TypeOf(c) = "tristate"
      /\ result.menu[i].parent = Holder(i)
      /\ \A j \in 1 .. i - 1 : tree.menu[j].sym # s
OfBlock(v, i) ==
  IF i = 0 THEN 2
  ELSE IF IsChoice(tree.menu[i].sym) THEN v[tree.menu[i].sym]
  ELSE Needed(v, i)
Needed(v, i) ==
  Min({expr_calc_value(v, tree.menu[i].dep), OfBlock(v, places[i].parent),
       IF Whole(i) /\ v[tree.menu[Holder(i)].sym] # 2 THEN 0 ELSE 2})

(* A prompt needs every menu above it to be visible.                       *)
Declared(v, k) ==
  LET p == tree.prop[k]
      hidden == \E j \in ToSet(Tail(Above(p.menu))) :
                  expr_calc_value(v, tree.menu[j].visibility) = 0
  IN  IF p.type = "prompt" /\ hidden THEN 0
      ELSE Min({expr_calc_value(v, p.if), Needed(v, p.menu)})

Made(v, k) == expr_calc_value(v, result.prop[k].cond)

Selectors(s) == {k \in Props : tree.prop[k].type = "select"
                                /\ tree.prop[k].target = s}
Selected(v, s) ==
  Max({0} \cup {Min({v[tree.prop[k].sym], Declared(v, k)}) : k \in Selectors(s)})
SelectedByTree(v, s) ==
  IF result.rev_dep[s] = NULL THEN 0 ELSE expr_calc_value(v, result.rev_dep[s])

(* A bool in a tristate choice is n unless the choice is y.                *)
Possible(v) ==
  \A c \in Symbols : \A s \in ToSet(result.members[c]) :
    SymbolType[c] = "tristate" /\ SymbolType[s] = "bool" /\ v[s] # 0
      => v[c] = 2

(* What is on stays on and what is off stays off; where nothing is m the   *)
(* two are the same.                                                       *)
Agree(v, declared, made) ==
  /\ declared # 1 => (made = 0) = (declared = 0)
  /\ NoModules(v) => made = declared

EntriesOf(s) == {i \in Entries : tree.menu[i].sym = s}
Plain(s) == s \in Symbols /\ ~ IsChoice(s) /\ EntriesOf(s) # {}
Unconditional(s) == \E i \in EntriesOf(s) : result.menu[i].dep = NULL
(* After menus and ifs have passed on their conditions, and every one of   *)
(* them was simplified, turned round and joined, an option is visible,     *)
(* has its defaults, may be set and is selected under the conditions that  *)
(* the files state for it (menu.c:292-318, 360; an entry that depends on   *)
(* nothing is forgotten when another of its symbol does).                  *)
ConditionsAsDeclared ==
  Finalized /\ result.freed = {} =>
    \A v \in {v \in Values : Possible(v)} :
      /\ \A k \in Props : Agree(v, Declared(v, k), Made(v, k))
      /\ \A s \in Symbols :
           Plain(s) =>
             /\ Agree(v, Selected(v, s), SelectedByTree(v, s))
             /\ IsMember(result, s) \/ Unconditional(s) \/
                  Agree(v, Max({Needed(v, i) : i \in EntriesOf(s)}),
                        expr_calc_value(v, result.dir_dep[s]))

(* Options are put below others and blocks dissolved, but no entry is lost *)
(* or repeated, the order stays that of the files, and the two ways        *)
(* through the tree agree (menu.c:320-353, 396-405).                       *)
RECURSIVE Walk(_, _)
Walk(t, i) ==
  <<i>> \o FlattenSeq([j \in DOMAIN Siblings(t, t.menu[i].list) |->
                        Walk(t, Siblings(t, t.menu[i].list)[j])])
TreeKept ==
  Finalized =>
    /\ Walk(result, 1) = [i \in Entries |-> i]
    /\ \A i \in Entries : \A c \in ToSet(Siblings(result, result.menu[i].list)) :
         result.menu[c].parent = i

(* An option that was put below another and could be set can be found:     *)
(* the other one is shown too, or set, which shows it (menu.c:320-347,     *)
(* 436-470).  That of what lies below an option without a prompt between   *)
(* the two may be out of the other's conditions.                           *)
CanBeFound(i) ==
  LET p == result.menu[i].parent
      s == result.menu[p].sym
  IN  Plain(s) /\ result.menu[i].prompt # 0 =>
        \A v \in Values :
          NoModules(v) /\ expr_calc_value(v, PromptCond(result, i)) # 0 =>
            v[s] # 0 \/ expr_calc_value(v, PromptCond(result, p)) # 0
AfterUnseen(i) ==
  \E j \in result.menu[i].parent + 1 .. i - 1 :
    tree.menu[j].sym # NoSymbol /\ tree.menu[j].prompt = 0
NothingHidden ==
  Finalized /\ result.freed = {} =>
    \A i \in Entries \ {1} : AfterUnseen(i) \/ CanBeFound(i)

(* An option whose dependencies hold is visible in the menu (mconf.c:256,  *)
(* "The 'Depends on:' line tell what symbols needs to be defined for this  *)
(* symbol to be visible in the menu (selectable)").                        *)
DependsShowsIt ==
  Finalized /\ result.freed = {} => \A i \in Entries \ {1} : CanBeFound(i)

(* Every prompt below a menu has the menu's visibility                     *)
(* (menu.c:144, "Apply all upper menus' visibilities to actual prompts"):  *)
(* the expression they share is not freed while one is simplified.         *)
VisibilityKept == Finalized => result.freed = {}

(* A select whose condition is y selects as far as its option is set,      *)
(* whatever comparisons are simplified on the way (expr.c:302, "bool       *)
(* FOO!=n => FOO").                                                        *)
SelectsAsDeclared ==
  Finalized =>
    \A v \in Values, s \in Symbols :
      Plain(s) => SelectedByTree(v, s) = Selected(v, s)
=============================================================================
