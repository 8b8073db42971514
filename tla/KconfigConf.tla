----------------------------- MODULE KconfigConf -----------------------------
(***************************************************************************)
(* A run of the batch front end (tools/menuconfig/conf.c), and what of     *)
(* confdata.c only it calls: values for all new symbols, the minimal       *)
(* configuration and the header for the compiler.                          *)
(*                                                                         *)
(* conf and check_conf call each other down the tree and stop to ask; the  *)
(* calls that are still to be made are a sequence of the kind of call and  *)
(* its entry, the next one first.  What is typed comes line by line, and   *)
(* after MaxLines of them the input has ended: a question finds an empty   *)
(* line then.                                                              *)
(***************************************************************************)
EXTENDS KconfigFile

CONSTANTS
  Modes,          \* the options the tool may be called with
  InitialDisks,   \* the files there may be, by the names below
  config, config_old, header, defconfig_file, seed,
  Optional,       \* the choices that may be n
  Numbers,        \* the numbers that may be typed
  MaxLines        \* bound on the lines that are typed

VARIABLES
  input_mode,
  sync_kconfig,   \* called to write the header
  valid_stdin,
  tbl,            \* the table of the symbols
  disk,           \* the files, by name
  status,         \* "started", "read", "asking", "asked" and, when main has
                  \* returned, "ended" or, with an error, "failed"
  calls,          \* the calls of conf and check_conf to be made
  rootEntry,      \* the menu that was restarted
  restarted,      \* whether one was in this pass of check_conf, conf_cnt
  passes,         \* how many passes there were
  lines,          \* how many were typed
  shown           \* the values there were when a file was written, by name

vars == <<input_mode, sync_kconfig, valid_stdin, tbl, disk, status, calls,
          rootEntry, restarted, passes, lines, shown>>

Setting == {"allno", "allyes", "allmod", "alldef", "random", "defconfig"}
Seeded == Setting \ {"defconfig"}
Asking == {"oldask", "old", "silentold", "listnew", "olddef"}
Quiet == {"silentold", "listnew", "olddef"}    \* menus are not gone into

-----------------------------------------------------------------------------
(* conf_set_all_new_symbols                                                *)

(* The value a mode gives; random has one of as many as the symbol has     *)
(* values, so that what can only be n or y gets n or m.                    *)
NewValue(mode, values, s) ==
  CASE mode = "allno" -> no
    [] mode = "allyes" -> yes
    [] mode = "allmod" -> mod
    [] mode = "random" -> values[s]

NewSymbols(t, mode) ==
  IF mode \in {"alldef", "defconfig"} THEN {}
  ELSE {s \in Names \ t.has : Type[s] \in {"bool", "tristate"}}

RandomValues(t) ==
  {values \in [NewSymbols(t, "random") -> no .. yes] :
     \A s \in DOMAIN values : sym_get_type(t, s) = "bool" => values[s] # yes}

WithNewValues(t, mode, values) ==
  LET new == NewSymbols(t, mode)
  IN  [t EXCEPT !.def = [s \in Names |-> IF s \in new
                                         THEN NewValue(mode, values, s) ELSE @[s]],
                !.has = @ \cup (IF mode = "random" THEN new \ ChoiceSymbols
                                                   ELSE new)]

(* Of a choice that is y one member becomes y; the choice, and it only, is *)
(* to be calculated again.                                                 *)
randomize_choice_values(t, c, pick) ==
  IF t.curr[c] # yes THEN t
  ELSE [t EXCEPT !.def = [s \in Names |-> IF s \notin MembersOf[c] THEN @[s]
                                          ELSE IF s = pick THEN yes ELSE no],
                 !.pick[c] = pick,
                 !.has = @ \cup {c},
                 !.valid = @ \ {c}]

set_all_choice_values(t, c) ==
  [t EXCEPT !.def = [s \in Names |-> IF s \in MembersOf[c] \ t.has
                                     THEN no ELSE @[s]],
            !.has = @ \cup {c},
            !.valid = @ \ {c}]

conf_set_all_new_symbols(t, mode, values, picks) ==
  LET OfChoice(acc, c) ==
        IF c \in acc.has \/ ~ IsChoice(c) THEN acc
        ELSE IF mode = "random"
        THEN randomize_choice_values(sym_calc_value(acc, c), c, picks[c])
        ELSE set_all_choice_values(sym_calc_value(acc, c), c)
  IN  FoldLeft(OfChoice, sym_clear_all_valid(WithNewValues(t, mode, values)),
               Symbols)

-----------------------------------------------------------------------------
(* conf_write_defconfig: what differs from its default.                    *)

WithDefault(d, s) ==
  LET val == EXPR_OR(IF d.found THEN d.value ELSE no, d.t.revDep[s])
  IN  IF Type[s] = "number" THEN IF d.found THEN d.value ELSE Empty
      ELSE Promote(val, Type[s] = "bool"
                          \/ (~ IsMember(s) /\ d.t.curr[modules_sym] = no))

(* The default does not go into the file for being looked up.              *)
sym_get_string_default(t, s) ==
  LET d == DefaultOf(sym_calc_value(sym_calc_visibility(t, s), modules_sym), s)
  IN  [t |-> [d.t EXCEPT !.write = t.write], value |-> WithDefault(d, s)]

(* The member a choice has by itself need not be written.                  *)
IsOwnDefault(t, s) ==
  /\ IsMember(s)
  /\ ChoiceOf(s) \notin Optional
  /\ sym_choice_default(t, ChoiceOf(s)).chosen[ChoiceOf(s)] = s
  /\ Type[s] = "bool" /\ t.curr[s] = yes

MinimalLine(t, file, s, default) ==
  IF sym_get_string_value(t, s) = default.value \/ IsOwnDefault(default.t, s)
  THEN [t |-> default.t, file |-> file]
  ELSE [t |-> default.t, file |-> (s :> sym_get_string_value(t, s)) @@ file]

(* Mutant: numbers are left out.                                           *)
MinimalSymbolOfTristates(t, file, s) ==
  LET t1 == [t EXCEPT !.write = @ \ {s}]
  IN  IF s \notin t.write \/ Type[s] = "number" \/ ~sym_is_changable(t1, s)
      THEN [t |-> t, file |-> file]
      ELSE MinimalLine(t1, file, s, sym_get_string_default(t1, s))

MinimalSymbol(t, file, s) ==
  LET t1 == [t EXCEPT !.write = @ \ {s}]
  IN  IF s \notin t.write THEN [t |-> t, file |-> file]
      ELSE IF ~ sym_is_changable(t1, s) THEN [t |-> t1, file |-> file]
      ELSE MinimalLine(t1, file, s, sym_get_string_default(t1, s))

conf_write_defconfig(t) ==
  FoldLeft(LAMBDA r, s : MinimalSymbol(sym_calc_value(r.t, s), r.file, s),
           [t |-> sym_clear_all_valid(t), file |-> <<>>], Written)

(* conf_write_autoconf: no line of a header is one of a configuration, so  *)
(* all that reading it does is to drop the values; a file that is not      *)
(* there does not.  A symbol that is n has no line.                        *)
conf_split_config(t, d) ==
  CalcEach(IF header \in DOMAIN d
           THEN sym_calc_value([t EXCEPT !.valid = {}], modules_sym) ELSE t,
           Symbols)
HeaderOf(t) ==
  LET written == {s \in t.write \ ChoiceSymbols :
                    Type[s] = "number" \/ sym_get_string_value(t, s) # no}
  IN  [s \in written |-> sym_get_string_value(t, s)]

-----------------------------------------------------------------------------
(* The tree the calls go down: an entry with the menu entry around it.     *)

root == Entry(rootmenu, Const(yes))

Call(kind, node, within) == [kind |-> kind, node |-> node, within |-> within]

Children(kind, call) ==
  LET node == call.node
      menu == node.kind = "menu"
      list == IF menu THEN Menus[node.menu] ELSE node.list
  IN  [i \in DOMAIN list |->
         Call(kind, list[i], IF menu THEN node ELSE call.within)]

Init ==
  /\ input_mode \in Modes
  /\ sync_kconfig = (input_mode = "silentold")
  /\ disk \in InitialDisks
  /\ valid_stdin = TRUE
  /\ tbl = [Blank EXCEPT !.changed = FALSE]
  /\ status = "started"
  /\ calls = <<>>
  /\ rootEntry = root
  /\ restarted = FALSE
  /\ passes = 0
  /\ lines = 0
  /\ shown = <<>>

Fail ==
  /\ status' = "failed"
  /\ UNCHANGED <<input_mode, sync_kconfig, valid_stdin, tbl, disk, calls,
                 rootEntry, restarted, passes, lines, shown>>

(* What a mode reads: silentoldconfig and defconfig want their file, the   *)
(* others do without; a seed is read only when there is one to be.         *)
WantedFile == CASE input_mode = "silentold" -> {config}
                [] input_mode = "defconfig" -> {defconfig_file}
                [] OTHER -> {}

ReadFor(mode) ==
  CASE mode = "defconfig" -> conf_read(tbl, disk, defconfig_file)
    [] mode \in Seeded -> IF seed \in DOMAIN disk
                          THEN conf_read_simple(tbl, disk[seed]).t ELSE tbl
    [] OTHER -> Started(disk, config)

(* With a terminal or without one; without, only silentoldconfig notices.  *)
ReadFiles ==
  /\ status = "started"
  /\ WantedFile \subseteq DOMAIN disk
  /\ tbl' = ReadFor(input_mode)
  /\ valid_stdin' \in IF sync_kconfig THEN BOOLEAN ELSE {TRUE}
  /\ status' = "read"
  /\ UNCHANGED <<input_mode, sync_kconfig, disk, calls, rootEntry, restarted,
                 passes, lines, shown>>

FileIsMissing == status = "started" /\ ~(WantedFile \subseteq DOMAIN disk) /\ Fail

(* KCONFIG_NOSILENTUPDATE is set.                                          *)
RefuseUpdate == status = "read" /\ sync_kconfig /\ tbl.changed /\ Fail

SetNew ==
  /\ status = "read"
  /\ input_mode \in Setting
  /\ \E values \in IF input_mode = "random" THEN RandomValues(tbl) ELSE {<<>>},
        picks \in {f \in [ChoiceSymbols -> Names] :
                     \A c \in ChoiceSymbols : f[c] \in MembersOf[c]} :
       tbl' = conf_set_all_new_symbols(tbl, input_mode, values, picks)
  /\ status' = "asked"
  /\ UNCHANGED <<input_mode, sync_kconfig, valid_stdin, disk, calls, rootEntry,
                 restarted, passes, lines, shown>>

Begin ==
  /\ status = "read"
  /\ input_mode \notin Setting
  /\ status' = IF input_mode = "savedefconfig" THEN "asked" ELSE "asking"
  /\ calls' = CASE input_mode = "savedefconfig" -> <<>>
                [] input_mode = "oldask" -> <<Call("conf", root, root)>>
                [] OTHER -> <<Call("check", root, root)>>
  /\ UNCHANGED <<input_mode, sync_kconfig, valid_stdin, tbl, disk, rootEntry,
                 restarted, passes, lines, shown>>

-----------------------------------------------------------------------------
(* One call: next are the ones it makes, in the table t.                   *)

Making(t, next) ==
  /\ tbl' = t
  /\ calls' = next \o Tail(calls)
  /\ UNCHANGED <<input_mode, sync_kconfig, valid_stdin, disk, status>>

Made(t, next) == Making(t, next) /\ UNCHANGED <<rootEntry, restarted, passes, lines, shown>>

IsNext(kind) == calls # <<>> /\ Head(calls).kind = kind

(* Mutant: what is visible is asked for.                                   *)
AsksForVisible(t, node) ==
  /\ node.kind = "symbol"
  /\ node.sym \notin t.has

(* A new symbol that can be set, or a new choice that is y.                *)
AsksFor(t, node) ==
  /\ node.kind = "symbol"
  /\ node.sym \notin t.has
  /\ \/ sym_is_changable(t, node.sym)
     \/ IsChoice(node.sym) /\ t.curr[node.sym] = yes

(* A new symbol has the menu it is in gone through first.                  *)
Restarts(v, node) ==
  v.on /\ input_mode \notin {"listnew", "olddef"} /\ AsksFor(v.t, node)

CheckBelow(call, v, restart) ==
  LET below == Children("check", call)
  IN  /\ Making(v.t, IF restart
                     THEN <<Call("conf", call.within, call.within)>> \o below
                     ELSE IF v.on THEN below ELSE <<>>)
      /\ rootEntry' = IF restart THEN call.within ELSE rootEntry
      /\ restarted' = (restarted \/ restart)
      /\ UNCHANGED <<passes, lines, shown>>

CheckVisible(call, v) == CheckBelow(call, v, Restarts(v, call.node))

check_conf ==
  /\ IsNext("check")
  /\ CheckVisible(Head(calls), menu_is_visible(tbl, Head(calls).node))

(* Whether a choice is new is asked before the choice itself is.           *)
ChoiceCalls(t, call) ==
  LET c == call.node.sym
      member == <<[call EXCEPT !.kind = IF c \in t.has THEN "choice"
                                                       ELSE "new choice"]>>
  IN  IF sym_is_changable(t, c)
      THEN <<Call("ask", call.node, call.within)>> \o member ELSE member

SymbolCalls(t, call) ==
  IF IsChoice(call.node.sym) THEN ChoiceCalls(t, call)
  ELSE <<Call("ask", call.node, call.within)>> \o Children("conf", call)

MenuCalls(call) ==
  IF input_mode \in Quiet /\ rootEntry # call.node
  THEN <<Call("check", call.node, call.within)>> ELSE Children("conf", call)

ConfVisible(call, v) ==
  Made(v.t, IF ~v.on THEN <<>>
            ELSE IF call.node.kind = "symbol" THEN SymbolCalls(v.t, call)
                                              ELSE MenuCalls(call))

conf ==
  /\ IsNext("conf")
  /\ ConfVisible(Head(calls), menu_is_visible(tbl, Head(calls).node))

-----------------------------------------------------------------------------
(* conf_askvalue: a question that is put, and a line to it.  The end of    *)
(* the input is an empty line.                                             *)

Other == -2       \* a line that is no answer, or asks for the help

Asked == Head(calls).node.sym
Answered(s) == input_mode \in {"old", "silentold"} /\ s \in tbl.has
IsPut(s) == sym_is_changable(tbl, s) /\ ~Answered(s)
Aborts == input_mode \in {"old", "silentold"} /\ ~valid_stdin

Typed(t, next) ==
  /\ Making(t, next)
  /\ lines' = Min({lines + 1, MaxLines})
  /\ UNCHANGED <<rootEntry, restarted, passes, shown>>

Line(answers) == IF lines < MaxLines THEN answers \cup {Empty, Other} ELSE {Empty}

NotPut == IsNext("ask") /\ ~IsPut(Asked) /\ Made(tbl, <<>>)

AbortAsking == IsNext("ask") /\ IsPut(Asked) /\ Aborts /\ Fail

(* The question is put again when its answer was not taken.                *)
Set(asked) == Typed(asked.t, IF asked.ok THEN <<>> ELSE <<Head(calls)>>)

SetNumber(s, def) ==
  Set(IF def \in {Empty, Other} THEN [t |-> tbl, ok |-> FALSE]
      ELSE sym_set_number_value(tbl, s, def))

conf_string ==
  /\ IsNext("ask") /\ IsPut(Asked) /\ ~Aborts
  /\ Type[Asked] = "number"
  /\ \E line \in Line(Numbers) :
       SetNumber(Asked, IF line = Empty THEN tbl.curr[Asked] ELSE line)

SetTristate(s, newval) ==
  Set(IF newval = Other THEN [t |-> tbl, ok |-> FALSE]
      ELSE sym_set_tristate_value(tbl, s, newval))

conf_sym ==
  /\ IsNext("ask") /\ IsPut(Asked) /\ ~Aborts
  /\ Type[Asked] # "number"
  /\ \E line \in Line(no .. yes) :
       SetTristate(Asked, IF line = Empty THEN tbl.curr[Asked] ELSE line)

-----------------------------------------------------------------------------
(* conf_choice, after the choice itself was asked.                         *)

(* The members that are listed, and the table when they are.               *)
ListMember(acc, node, v) ==
  [t |-> v.t, nodes |-> IF v.on /\ node.kind = "symbol"
                        THEN Append(acc.nodes, node) ELSE acc.nodes]

Listed(t, nodes) ==
  FoldLeft(LAMBDA acc, node : ListMember(acc, node, menu_is_visible(acc.t, node)),
           [t |-> t, nodes |-> <<>>], nodes)

Default(listed, c) ==
  CHOOSE i \in DOMAIN listed.nodes : listed.nodes[i].sym = listed.t.chosen[c]

(* The member becomes y, and what is below it is asked.                    *)
Picked(t, node) == sym_set_tristate_value(t, node.sym, yes).t
AfterPick(call, node) ==
  Append(Children("conf", [call EXCEPT !.node = node]),
         [call EXCEPT !.kind = "rest"])

PickItself(call, listed, node) ==
  Made(Picked(listed.t, node), AfterPick(call, node))

TypePick(call, listed, i) ==
  IF i \in DOMAIN listed.nodes
  THEN Typed(Picked(listed.t, listed.nodes[i]), AfterPick(call, listed.nodes[i]))
  ELSE Typed(listed.t, <<call>>)

PickMember(call, listed, default) ==
  \/ /\ Len(listed.nodes) = 1
     /\ PickItself(call, listed, listed.nodes[1])
  \/ /\ Len(listed.nodes) # 1
     /\ input_mode \in {"old", "silentold"} /\ call.kind = "choice"
     /\ PickItself(call, listed, listed.nodes[default])
  \/ /\ Len(listed.nodes) # 1
     /\ input_mode = "oldask" \/ call.kind = "new choice"
     /\ IF Aborts THEN Fail
        ELSE \E line \in Line(0 .. Len(listed.nodes) + 1) :
               TypePick(call, listed, IF line = Empty THEN default ELSE line)

ListMembers(call, listed) ==
  PickMember(call, listed, Default(listed, call.node.sym))

(* A choice that is m has its members asked one by one, also one that      *)
(* became m when what is below its member was asked.                       *)
Rest(call, t) ==
  Made(t, IF t.curr[call.node.sym] = mod THEN Children("conf", call) ELSE <<>>)

OfChoice(call, t) ==
  \/ t.curr[call.node.sym] # yes /\ Rest(call, t)
  \/ t.curr[call.node.sym] = yes /\ ListMembers(call, Listed(t, call.node.list))

conf_choice ==
  /\ IsNext("choice") \/ IsNext("new choice")
  /\ OfChoice(Head(calls), sym_calc_value(tbl, Asked))

AfterChoice == IsNext("rest") /\ Rest(Head(calls), tbl)

-----------------------------------------------------------------------------
(* Mutant: the checks are made once.                                       *)
RepeatsNever == input_mode = "oldask"

(* The checks are repeated until nothing was new.                          *)
Repeats ==
  \/ input_mode = "oldask"
  \/ restarted /\ input_mode \notin {"listnew", "olddef"}

CheckAgain ==
  LET again == Repeats
  IN  /\ status = "asking" /\ calls = <<>>
      /\ input_mode' = IF input_mode = "oldask" THEN "silentold" ELSE input_mode
      /\ calls' = IF again THEN <<Call("check", root, root)>> ELSE <<>>
      /\ status' = IF again THEN "asking" ELSE "asked"
      /\ restarted' = FALSE
      /\ passes' = passes + 1
      /\ UNCHANGED <<sync_kconfig, valid_stdin, tbl, disk, rootEntry, lines, shown>>

(* The end of main.                                                        *)
Ends(end, t, d, s) ==
  /\ status' = end
  /\ tbl' = t
  /\ disk' = d
  /\ shown' = s
  /\ UNCHANGED <<input_mode, sync_kconfig, valid_stdin, calls, rootEntry,
                 restarted, passes, lines>>

WritesConfig ==
  IF sync_kconfig THEN tbl.changed
  ELSE input_mode \notin {"savedefconfig", "listnew"}

WithOld(d) == IF config \in DOMAIN d THEN (config_old :> d[config]) @@ d ELSE d

(* What there is after conf_write.                                         *)
Result(t, d, s) == [t |-> t, disk |-> d, shown |-> s]
Wrote(written, values) ==
  Result([written.t EXCEPT !.changed = FALSE],
         (config :> written.file) @@ WithOld(disk), (config :> values) @@ shown)

AfterWrite(values) ==
  IF WritesConfig THEN Wrote(ConfWritten(tbl), values) ELSE Result(tbl, disk, shown)

(* A configuration with nothing to save stays as it is; the header is      *)
(* written whatever it held.                                               *)
HeaderWritten(split, d, s) ==
  Ends("ended", split, (header :> HeaderOf(split)) @@ d, s)

SyncAfter(r, values) ==
  HeaderWritten(conf_split_config(r.t, r.disk), r.disk, (header :> values) @@ r.shown)

SyncWith(values) == SyncAfter(AfterWrite(values), values)

WriteHeader == status = "asked" /\ sync_kconfig /\ SyncWith(Current(tbl))

EndAs(r) == Ends("ended", r.t, r.disk, r.shown)

WriteConfig ==
  status = "asked" /\ ~sync_kconfig /\ WritesConfig
    /\ EndAs(AfterWrite(Current(tbl)))

Minimal(written) ==
  Ends("ended", written.t, (defconfig_file :> written.file) @@ disk,
       (defconfig_file :> Current(tbl)) @@ shown)

WriteMinimal ==
  /\ status = "asked" /\ input_mode = "savedefconfig"
  /\ Minimal(conf_write_defconfig(tbl))

ListOnly ==
  /\ status = "asked" /\ input_mode = "listnew"
  /\ Ends("ended", tbl, disk, shown)

(* A renaming fails, after the old file was moved away.                    *)
WriteFails ==
  /\ status = "asked" /\ WritesConfig
  /\ Ends("failed", ConfWritten(tbl).t,
          Restrict(WithOld(disk), DOMAIN WithOld(disk) \ {config}), shown)

Next ==
  \/ ReadFiles \/ FileIsMissing \/ RefuseUpdate \/ SetNew \/ Begin
  \/ check_conf \/ conf
  \/ NotPut \/ AbortAsking \/ conf_string \/ conf_sym
  \/ conf_choice \/ AfterChoice
  \/ CheckAgain
  \/ WriteHeader \/ WriteConfig \/ WriteMinimal \/ ListOnly \/ WriteFails

Spec == Init /\ [][Next]_vars

-----------------------------------------------------------------------------
(* What a configuration gives when it is read, and a minimal one as a      *)
(* default configuration.                                                  *)
Configured(name) == conf_read(Blank, disk, name)
AsDefault(name) ==
  conf_set_all_new_symbols(Configured(name), "defconfig", <<>>, <<>>)

(* The configuration a run leaves gives, when it is read, the values there *)
(* were when it was written, and so does the minimal one as a default      *)
(* configuration (confdata.c:656-727, 732-830; conf.c:668-693).            *)
WrittenReadsBack ==
  status = "ended" =>
    /\ config \in DOMAIN shown
         => SameWritten(Configured(config).curr, shown[config])
    /\ defconfig_file \in DOMAIN shown
         => SameWritten(Current(AsDefault(defconfig_file)), shown[defconfig_file])

(* "Update until a loop caused no more changes" (conf.c:658): when the     *)
(* checks are over nothing that could be set is without a value, whatever  *)
(* the answers brought up.                                                 *)
AllAsked ==
  status = "asked" /\ input_mode \in {"old", "silentold"}
    => LET t == CalcEach(tbl, Symbols)
       IN  \A s \in Names : sym_is_changable(t, s) => s \in t.has

NumberHasAnswer ==
  IsNext("ask") /\ IsPut(Asked) /\ Type[Asked] = "number"
    => /\ tbl.curr[Asked] # Empty
       /\ sym_set_number_value(tbl, Asked, tbl.curr[Asked]).ok

DefaultListed(c, t, listed) ==
  t.curr[c] = yes => \E node \in ToSet(listed.nodes) : node.sym = listed.t.chosen[c]
DefaultAmong(call, t) == DefaultListed(call.node.sym, t, Listed(t, call.node.list))

MemberHasAnswer ==
  IsNext("choice") \/ IsNext("new choice")
    => DefaultAmong(Head(calls), sym_calc_value(tbl, Asked))

(* Without a terminal or at the end of its input the tool comes to its     *)
(* end: what an empty line stands for is an answer to each question        *)
(* (conf.c:129-159, 231-348), and each pass of the checks leaves fewer     *)
(* symbols to ask for (conf.c:659-663).                                    *)
QuestionsEnd == NumberHasAnswer /\ MemberHasAnswer /\ passes <= Cardinality(Names)

(* "Same as oldconfig, but quietly; write header to <file>" (conf.c:475):  *)
(* the header has the values of the configuration.                         *)
HeaderAsConfig ==
  header \in DOMAIN shown
    => \A s \in ToSet(Written) :
         IF s \in DOMAIN disk[header] THEN disk[header][s] = shown[header][s]
         ELSE shown[header][s] \in {no, Empty}
=============================================================================
