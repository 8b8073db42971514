---------------------------- MODULE KconfigFile ----------------------------
(***************************************************************************)
(* Reading and writing configurations (tools/menuconfig/confdata.c), and   *)
(* the menus they are written in the order of (menu.c).                    *)
(*                                                                         *)
(* A file is the value of each symbol that has a line in it.  The lines    *)
(* are in the order of the menus, which is the order files are written in. *)
(* A menu is a sequence of nodes; a node is a symbol with the nodes that   *)
(* menu_finalize put below it, or the entry of another menu.               *)
(***************************************************************************)
EXTENDS KconfigSymbols

CONSTANTS
  Menus,          \* the nodes of each menu
  rootmenu        \* the menu the others are entered from

Node(s, list) == [kind |-> "symbol", sym |-> s, list |-> list]
Entry(m, cond) == [kind |-> "menu", menu |-> m, cond |-> cond]

(* The symbols below some nodes, depth first.                              *)
RECURSIVE Below(_)
Below(nodes) ==
  IF nodes = <<>> THEN <<>>
  ELSE LET node == Head(nodes)
           here == IF node.kind = "menu" THEN Below(Menus[node.menu])
                   ELSE <<node.sym>> \o Below(node.list)
       IN  here \o Below(Tail(nodes))

Written == SelectSeq(Below(Menus[rootmenu]), LAMBDA s : ~IsChoice(s))

(* Whether a node is visible.  A symbol that is on although its prompt is  *)
(* not visible counts as set by the user once a node below it is visible.  *)
RECURSIVE AnyVisible(_, _)
EntryVisible(t, node) ==
  [t |-> t, on |-> expr_calc_value(t, node.cond) # no]

WithMark(below, s) ==
  IF below.on THEN [below EXCEPT !.t.has = @ \cup {s}] ELSE below

SymbolVisible(t, node) ==
  LET s == node.sym
  IN  IF t.visible[s] # no THEN [t |-> t, on |-> TRUE]
      ELSE IF Type[s] = "number" \/ t.curr[s] = no
           THEN [t |-> t, on |-> FALSE]
           ELSE WithMark(AnyVisible(t, node.list), s)

menu_is_visible(t, node) ==
  IF node.kind = "menu" THEN EntryVisible(Calc(t, node.cond), node)
  ELSE IF Prompts[node.sym] = <<>> THEN [t |-> t, on |-> FALSE]
  ELSE SymbolVisible(sym_calc_value(t, node.sym), node)

AnyOf(first, nodes) ==
  IF first.on THEN first ELSE AnyVisible(first.t, nodes)

AnyVisible(t, nodes) ==
  IF nodes = <<>> THEN [t |-> t, on |-> FALSE]
  ELSE AnyOf(menu_is_visible(t, Head(nodes)), Tail(nodes))

-----------------------------------------------------------------------------
(* Reading.                                                                *)

(* Every value of the user is forgotten; a choice counts as set, to n.     *)
Forgotten(t) ==
  [t EXCEPT !.def = NoValues,
            !.pick = [c \in ChoiceSymbols |-> NULL],
            !.has = ChoiceSymbols,
            !.valid = {}]

Readable(s, val) ==
  CASE Type[s] = "bool" -> val \in {no, yes}
    [] Type[s] = "tristate" -> val \in no .. yes
    [] Type[s] = "number" -> val # Empty
    [] Type[s] = "unknown" -> FALSE

(* One line, and whether it is warned of.  A member tells its choice: the  *)
(* last one that is y is its pick, one that is m beside one that is y      *)
(* takes its mark away.                                                    *)
ReadLine(r, s, val) ==
  LET t1 == [r.t EXCEPT !.def[s] = val, !.has = @ \cup {s}]
      c == ChoiceOf(s)
      clash == \/ val = mod /\ r.t.def[c] = yes
               \/ val = yes /\ r.t.def[c] # no
      t2 == [t1 EXCEPT !.pick[c] = IF val = yes THEN s ELSE @,
                       !.has = IF val = mod /\ clash THEN @ \ {c} ELSE @,
                       !.def[c] = EXPR_OR(@, val)]
  IN  IF ~Readable(s, val) THEN [r EXCEPT !.warned = TRUE]
      ELSE IF IsMember(s) THEN [t |-> t2, warned |-> r.warned \/ clash]
           ELSE [r EXCEPT !.t = t1]

(* A line of a symbol that is not there any more is something to save.     *)
conf_read_simple(t, file) ==
  LET r == FoldLeft(LAMBDA acc, s : IF s \in DOMAIN file
                                    THEN ReadLine(acc, s, file[s]) ELSE acc,
                    [t |-> Forgotten(t),
                     warned |-> ~(DOMAIN file \subseteq ToSet(Written))],
                    Written)
  IN  [r EXCEPT !.t = sym_calc_value(@, modules_sym)]

(* A symbol whose line is not the one its value would be written as.       *)
Unsaved(t, s) ==
  /\ ~IsChoice(s) /\ s # modules_sym
  /\ IF s \in t.has /\ s \in t.write THEN t.def[s] # t.curr[s]
     ELSE s \in t.has \/ s \in t.write

(* After the values are calculated: a symbol that is not visible counts as *)
(* new when all agreed, and a number out of its range does too and is to   *)
(* be calculated again, alone (confdata.c:439-463).                        *)
ResetNumber(within, r, s) ==
  IF within.ok THEN [r EXCEPT !.t = within.t]
  ELSE [t |-> [within.t EXCEPT !.has = @ \ {s}, !.valid = @ \ {s}],
        unsaved |-> TRUE]

Reset(r, s) ==
  LET hide == r.t.visible[s] = no /\ ~r.unsaved
      t1 == IF hide THEN [r.t EXCEPT !.has = @ \ {s}] ELSE r.t
  IN  IF s \notin r.t.has \/ IsMember(s) THEN r
      ELSE IF Type[s] # "number" THEN [r EXCEPT !.t = t1]
      ELSE ResetNumber(sym_string_within_range(t1, s, t1.def[s]), r, s)

Checked(t) ==
  FoldLeft(Reset, [t |-> t, unsaved |-> \E s \in Names : Unsaved(t, s)],
           Symbols)

Counted(r, warned) == [r.t EXCEPT !.changed = warned \/ r.unsaved]

CheckedRead(read) ==
  Counted(Checked(CalcEach(read.t, Symbols)), read.warned)

(* The mark of what there is to save goes before the file is looked for.   *)
conf_read(t, disk, name) ==
  LET t0 == [t EXCEPT !.changed = FALSE]
  IN  IF name \notin DOMAIN disk THEN t0
      ELSE CheckedRead(conf_read_simple(t0, disk[name]))

Blank ==
  [def |-> NoValues, pick |-> [c \in ChoiceSymbols |-> NULL],
   has |-> {}, valid |-> {}, write |-> {},
   curr |-> NoValues, chosen |-> [c \in ChoiceSymbols |-> NULL],
   visible |-> [s \in Names |-> no], revDep |-> [s \in Names |-> no],
   modules |-> no, changed |-> TRUE]

(* conf_read(NULL): without a file the session starts from the defaults,   *)
(* and has something to save.                                              *)
Started(d, config) ==
  IF config \in DOMAIN d THEN conf_read(Blank, d, config)
  ELSE sym_calc_value(Blank, modules_sym)

-----------------------------------------------------------------------------
(* Writing.                                                                *)

(* The symbols are calculated in turn and lose their mark when written, so *)
(* that a symbol is written once.                                          *)
WriteCalculated(t, file, s) ==
  IF s \in t.write
  THEN [t |-> [t EXCEPT !.write = @ \ {s}],
        file |-> (s :> sym_get_string_value(t, s)) @@ file]
  ELSE [t |-> t, file |-> file]

WriteSymbol(r, s) == WriteCalculated(sym_calc_value(r.t, s), r.file, s)

(* Mutant: the values are not calculated anew before they are written.     *)
ConfWrittenAsIs(t) == FoldLeft(WriteSymbol, [t |-> t, file |-> <<>>], Written)

(* The table and the file of a conf_write that comes to the renaming.      *)
(* Without a change to save every value is calculated anew; with one the   *)
(* values are taken to be fresh, and the marks to be there.                *)
ConfWritten(t) ==
  LET t1 == IF t.changed THEN t ELSE sym_clear_all_valid(t)
  IN  FoldLeft(WriteSymbol, [t |-> t1, file |-> <<>>], Written)

-----------------------------------------------------------------------------
(* What the front ends' properties are about: the values there would be    *)
(* were they all calculated anew; that those that count as calculated are  *)
(* these; that a choice that is y has one member that is; and that two     *)
(* calculations agree on what is written.                                  *)
Current(t) == CalcEach(sym_clear_all_valid(t), Symbols).curr

Fresh(t) ==
  LET now == Current(t)
  IN  \A s \in t.valid : t.curr[s] = now[s]

Exclusive(t) ==
  \A c \in ChoiceSymbols \cap t.valid :
    {s \in MembersOf[c] \cap t.valid : t.curr[s] = yes}
      = IF t.curr[c] = yes /\ t.chosen[c] # NULL
        THEN {t.chosen[c]} \cap t.valid ELSE {}

SameWritten(values, others) ==
  \A s \in ToSet(Written) : values[s] = others[s]
=============================================================================
