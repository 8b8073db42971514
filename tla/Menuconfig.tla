----------------------------- MODULE Menuconfig -----------------------------
(***************************************************************************)
(* Sessions of the menu front end (tools/menuconfig/mconf.c), each from    *)
(* its start to its end, with the files left by the one before.            *)
(*                                                                         *)
(* conf() shows the menu before it waits for each key, which calculates    *)
(* what is shown; an action is one answer of the user with everything it   *)
(* sets off up to the next wait, the showing of the menu included.  A menu *)
(* entered from the root leads back to the root.                           *)
(*                                                                         *)
(* What happens to the files in a save, what can go wrong with it, and     *)
(* what the table, the name and the end of a session have to do with it is *)
(* in SavedFiles.  A save whose temporary file cannot be opened changes    *)
(* nothing and is left out, and so is the answer to a question that leads  *)
(* back to it.                                                             *)
(***************************************************************************)
EXTENDS KconfigFile, SavedFiles

CONSTANTS
  InitialDisks,   \* the files there may be at the start, by name
  LoadNames,      \* the names the user enters for a file to load
  SaveNames,      \* and for one to save to
  Numbers,        \* the numbers the user enters
  MaxKeys,        \* bound on the answers of the user
  MaxFaults       \* bound on the kinds of what goes wrong

ASSUME NamesAssumption ==
  LoadNames \cup SaveNames \cup {config} \subseteq FileNames

VARIABLES
  menu,           \* the menu shown
  keys            \* the answers so far

vars == <<sessions, menu, keys>>

(* What a file gives when it is read, and whether that is what was saved:  *)
(* the ReadsBack of SavedFiles, whose ValuesIn is Current.                 *)
ReadBack(file) == conf_read(Blank, config :> file, config).curr
FileReadsBack(file, values) == SameWritten(ReadBack(file), values)

-----------------------------------------------------------------------------
(* Showing a menu.                                                         *)

(* The nodes shown, added to r.items, and the table when they are.  Of a   *)
(* choice that is y every member is looked at, and the chosen one is gone  *)
(* into when there is something below it.                                  *)
RECURSIVE BuildEach(_, _)
Looked(t, nodes) ==
  FoldLeft(LAMBDA a, node : menu_is_visible(a, node).t, t, nodes)

BuildChoice(r, node) ==
  LET c == node.sym
      inside == SelectSeq(node.list,
                          LAMBDA m : /\ m.kind = "symbol"
                                     /\ m.sym = r.t.chosen[c]
                                     /\ r.t.visible[m.sym] # no
                                     /\ m.list # <<>>)
  IN  BuildEach(r, IF r.t.curr[c] = yes THEN inside ELSE node.list)

BuildNode(r, v, node) ==
  LET items == r.items \cup {node}
  IN  IF ~v.on THEN [t |-> v.t, items |-> r.items]
      ELSE IF node.kind = "menu" THEN [t |-> v.t, items |-> items]
      ELSE IF IsChoice(node.sym)
           THEN BuildChoice([t |-> Looked(v.t, node.list), items |-> items],
                            node)
           ELSE BuildEach([t |-> v.t, items |-> items], node.list)

build_conf(r, node) == BuildNode(r, menu_is_visible(r.t, node), node)

BuildEach(r, nodes) ==
  IF nodes = <<>> THEN r
  ELSE BuildEach(build_conf(r, Head(nodes)), Tail(nodes))

Show(a, m) == BuildEach([t |-> a, items |-> {}], Menus[m])

Items == Show(tbl, menu).items
ItemSymbols == {node.sym : node \in {n \in Items : n.kind = "symbol"}}
ItemMenus == {node.menu : node \in {n \in Items : n.kind = "menu"}}
NumberItems == {s \in ItemSymbols : Type[s] = "number"}

(* What a key can be pressed on: not a choice without a visible member     *)
(* that cannot be changed, nor a member that is y.                         *)
Togglable ==
  {s \in ItemSymbols :
     /\ Type[s] # "number"
     /\ IF IsChoice(s)
        THEN sym_is_changable(tbl, s) \/ tbl.chosen[s] # NULL
        ELSE ~(IsMember(s) /\ tbl.curr[s] = yes)}

-----------------------------------------------------------------------------
Init ==
  /\ disk \in InitialDisks
  /\ FilesInit
  /\ tbl = Show(Started(disk, config), rootmenu).t
  /\ menu = rootmenu
  /\ filename = config
  /\ session = "running"
  /\ keys = 0

Asked == session = "running" /\ keys < MaxKeys
Answer == Asked /\ keys' = keys + 1

WithinFaults == Cardinality(faults') <= MaxFaults

(* The answer leaves the table a and the menu stays.                       *)
Edited(a) ==
  /\ tbl' = Show(a, menu).t
  /\ UNCHANGED <<menu, filename, session, files>>

PressY(s) ==
  LET asked == sym_set_tristate_value(tbl, s, yes)
  IN  /\ Answer
      /\ Edited(IF asked.ok THEN asked.t
                ELSE sym_set_tristate_value(tbl, s, mod).t)

PressM(s) == Answer /\ Edited(sym_set_tristate_value(tbl, s, mod).t)

PressN(s) == Answer /\ Edited(sym_set_tristate_value(tbl, s, no).t)

PressSpace(s) == Answer /\ Edited(sym_toggle_tristate_value(tbl, s))

(* The list of a choice's members, conf_choice().                          *)
PickMember(c, s) ==
  /\ Answer
  /\ tbl.curr[c] = yes
  /\ tbl.visible[s] # no
  /\ Edited(sym_set_tristate_value(tbl, s, yes).t)

(* A number that is out of range is asked for again, or given up.          *)
EnterNumber(s, n) ==
  /\ Answer
  /\ Edited(sym_set_number_value(tbl, s, n).t)

EnterMenu(m) ==
  /\ Answer
  /\ menu' = m
  /\ tbl' = Show(tbl, m).t
  /\ UNCHANGED <<filename, session, files>>

LeaveMenu ==
  /\ Answer
  /\ menu # rootmenu
  /\ menu' = rootmenu
  /\ tbl' = Show(tbl, rootmenu).t
  /\ UNCHANGED <<filename, session, files>>

-----------------------------------------------------------------------------
(* A name that is not there is asked for again, or given up.               *)
conf_load(name) ==
  LET read == conf_read(tbl, disk, name)
      found == name \in DOMAIN disk
  IN  /\ Answer
      /\ menu = rootmenu
      /\ tbl' = Show([read EXCEPT !.changed = found], rootmenu).t
      /\ filename' = IF found THEN name ELSE filename
      /\ IF found THEN UNCHANGED files ELSE NotFound
      /\ WithinFaults
      /\ UNCHANGED <<menu, session>>

(* conf_write up to its end: the table has no change to save any more.     *)
Write(name) ==
  LET written == ConfWritten(tbl)
  IN  /\ tbl' = Show([written.t EXCEPT !.changed = FALSE], rootmenu).t
      /\ \/ WriteWhole(name, written.file, Current(tbl))
         \/ WriteToFullDisk(name)

(* The renaming fails, and the symbols have lost the marks.                *)
WriteFails(name) ==
  /\ tbl' = Show(ConfWritten(tbl).t, rootmenu).t
  /\ WriteInterrupted(name, "rename")

(* The process is gone when the old file is out of the way.                *)
KilledInSave(name) ==
  /\ WriteInterrupted(name, "killed")
  /\ session' = "killed"
  /\ UNCHANGED <<tbl, filename>>

conf_save(name) ==
  /\ Answer
  /\ menu = rootmenu
  /\ \/ Write(name) /\ filename' = name /\ UNCHANGED session
     \/ WriteFails(name) /\ UNCHANGED <<filename, session>>
     \/ KilledInSave(name)
  /\ WithinFaults
  /\ UNCHANGED menu

(* handle_exit(), when the main menu is left and, in any menu, when an     *)
(* interrupt arrives: without a change to save the session ends with no    *)
(* more questions; with one the user is asked.                             *)
ExitUnchanged ==
  /\ Answer
  /\ ~tbl.changed
  /\ session' = "unchanged"
  /\ UNCHANGED <<tbl, menu, filename, files>>

ExitSaving ==
  /\ Answer
  /\ tbl.changed
  /\ \/ Write(filename) /\ session' = "saved" /\ UNCHANGED filename
     \/ WriteFails(filename) /\ session' = "failed" /\ UNCHANGED filename
     \/ KilledInSave(filename)
  /\ WithinFaults
  /\ UNCHANGED menu

ExitDiscarding ==
  /\ Answer
  /\ tbl.changed
  /\ session' = "discarded"
  /\ UNCHANGED <<tbl, menu, filename, files>>

(* A new process, with the files there are.                                *)
Restart ==
  /\ session # "running" /\ keys < MaxKeys
  /\ tbl' = Show(Started(disk, config), rootmenu).t
  /\ menu' = rootmenu
  /\ filename' = config
  /\ session' = "running"
  /\ UNCHANGED <<keys, files>>

Next ==
  \/ /\ Asked
     /\ \/ \E s \in Togglable :
             \/ PressY(s) \/ PressM(s) \/ PressN(s) \/ PressSpace(s)
             \/ IsChoice(s) /\ \E m \in MembersOf[s] : PickMember(s, m)
        \/ \E s \in NumberItems, n \in Numbers : EnterNumber(s, n)
        \/ \E m \in ItemMenus : EnterMenu(m)
  \/ LeaveMenu
  \/ \E name \in LoadNames : conf_load(name)
  \/ \E name \in SaveNames : conf_save(name)
  \/ ExitUnchanged
  \/ ExitSaving
  \/ ExitDiscarding
  \/ Restart

Spec == Init /\ [][Next]_vars

-----------------------------------------------------------------------------
(* The table is one, and a session that has ended did so in one of the     *)
(* ways handle_exit has (mconf.c:869-910).                                 *)
TypeOK ==
  /\ tbl \in SymbolTable
  /\ menu \in DOMAIN Menus
  /\ DOMAIN shown \subseteq FileNames
  /\ filename \in FileNames
  /\ session \in {"running", "unchanged", "saved", "failed", "discarded", "killed"}
  /\ faults \subseteq {"rename", "killed", "full", "missing"}

(* A value that counts as calculated is the one a calculation of all       *)
(* values from the user's would give (symbol.c:292-440): no setting,       *)
(* loading or saving leaves behind a value that no longer follows.  So of  *)
(* a choice that is y one member is y, the one the choice has, and of a    *)
(* choice that is not none is, as far as they are calculated               *)
(* (symbol.c:260-290, 331-334).                                            *)
ValuesFollow == Fresh(tbl) /\ Exclusive(tbl)

(* Sessions leave the files that SavedFiles says, in which what is saved   *)
(* reads back: a configuration that was saved is there when the file is    *)
(* read, with the values there were when it was written, even if sessions  *)
(* were killed (confdata.c:732-830).  They begin and end as it says, too:  *)
(* nothing changes a value or loads a file that is not marked to be saved, *)
(* and only a save takes the mark away (mconf.c:869-910).                  *)
FilesSaved == SessionsSpec

(* "Enter a filename to which this configuration should be saved"          *)
(* (mconf.c:218), asked again after a save that failed: a save that        *)
(* follows one that failed does save the configuration.                    *)
RetriesReadBack == faults \subseteq {"rename"} => SavedIsRead

(* "Do you wish to save your new configuration ?" (mconf.c:876) is asked   *)
(* when there is one, whatever names were entered for a file to load.      *)
AskedAfterMissing ==
  session = "unchanged" /\ faults \subseteq {"missing"} => FileIsCurrent
=============================================================================
