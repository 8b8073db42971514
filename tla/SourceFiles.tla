---------------------------- MODULE SourceFiles ----------------------------
(***************************************************************************)
(* The files of a configuration and how the scanner goes from one to       *)
(* another (zconf.lex.c; file_lookup of util.c); and the blocks that the   *)
(* parser opens and ends meanwhile, whatever is in them (the rules of      *)
(* zconf.tab.c, menu_add_entry, menu_add_menu and menu_end_menu of         *)
(* menu.c).                                                                *)
(*                                                                         *)
(* A file is its record in file_list: however often it is included there   *)
(* is one, with one parent.  Of its text only the source lines matter      *)
(* here, and they are the same each time it is read.  An entry is a        *)
(* number, the order it was read in, and 1 is rootmenu; 0 is the null      *)
(* pointer.                                                                *)
(***************************************************************************)
EXTENDS Integers, Sequences, SequencesExt

CONSTANTS
  Files, Root,
  Texts,         \* the source lines every file may have: functions from Files
  Missing        \* the files that cannot be opened

None == "none"

ASSUME FilesAssumption ==
  /\ Root \in Files /\ None \notin Files
  /\ \A t \in Texts : t \in [Files -> Seq(Files)]

VARIABLES
  status,        \* "reading", "read" or "exited"
  text,
  current_file,
  parent,        \* of each file, where it was included from last
  buffers        \* the files that are open, with the lines read of each

scanner == <<status, text, current_file, parent, buffers>>

(* zconf_initscan                                                          *)
ScanInit ==
  /\ status = "reading" /\ text \in Texts
  /\ current_file = Root /\ parent = [f \in Files |-> None]
  /\ buffers = <<[file |-> Root, read |-> 0]>>

Up(f) == IF f = None THEN None ELSE parent[f]

(* What the walk from a file's parent upwards comes to: no fewer than hold *)
(* every parent.  It goes round for ever if it comes to no file without a  *)
(* parent, unless it ends on the way.                                      *)
Upwards(f, walk) ==
  /\ Up(f) \in walk \cup {None}
  /\ \A g \in walk : Up(g) \in walk \cup {None}
Includers(f) ==
  {g \in Files : \A walk \in SUBSET Files : Upwards(f, walk) => g \in walk}
Endless(walk) == walk # {} /\ \A f \in walk : parent[f] # None

Top == Last(buffers)
Opens(f) == text[Top.file][Top.read + 1] = f

Exit == status' = "exited" /\ UNCHANGED <<text, current_file, parent, buffers>>

(* The walk is over the includers of the file that has the source line,    *)
(* not of the one it names.                                                *)
zconf_nextfile(f) ==
  /\ status = "reading" /\ buffers # <<>> /\ Top.read < Len(text[Top.file])
  /\ Opens(f)
  /\ IF f \in Missing \/ current_file \in Includers(current_file) THEN Exit
     ELSE /\ ~ Endless(Includers(current_file))
          /\ parent' = [parent EXCEPT ![f] = current_file]
          /\ current_file' = f
          /\ buffers' = Append(Front(buffers) \o <<[Top EXCEPT !.read = @ + 1]>>,
                               [file |-> f, read |-> 0])
          /\ UNCHANGED <<status, text>>

(* Mutant: the file ended stays the current one.                           *)
zconf_endfileInPlace ==
  /\ status = "reading" /\ buffers # <<>> /\ Top.read = Len(text[Top.file])
  /\ buffers' = Front(buffers)
  /\ UNCHANGED <<status, text, parent, current_file>>

zconf_endfile ==
  /\ status = "reading" /\ buffers # <<>> /\ Top.read = Len(text[Top.file])
  /\ current_file' = parent[current_file]
  /\ buffers' = Front(buffers)
  /\ UNCHANGED <<status, text, parent>>

(* The end of the last file is an end of line, and then the end.           *)
ScanEnd ==
  /\ status = "reading" /\ current_file = None
  /\ status' = "read"
  /\ UNCHANGED <<text, current_file, parent, buffers>>

ScanNext == (\E f \in Files : zconf_nextfile(f)) \/ zconf_endfile \/ ScanEnd
ScanSpec == ScanInit /\ [][ScanNext]_scanner /\ WF_scanner(ScanNext)

-----------------------------------------------------------------------------
(* The file that lines are counted in, that names are relative to and that *)
(* blocks are ascribed to is the one being read, though a record has but   *)
(* one parent (zconf.lex.c:2353-2409).                                     *)
FileIsRead ==
  status = "reading" =>
    current_file = IF buffers = <<>> THEN None ELSE Top.file

(* Whatever files include each other, reading them comes to an end.        *)
ReadingEnds == <>(status # "reading")

-----------------------------------------------------------------------------
(* The blocks.                                                             *)

VARIABLES
  places,         \* of each entry, the one it is in and the file it is from
  current_menu,
  last_entry_ptr, \* the pointer that the next entry is hung on
  blocks,         \* the parser's, of the kinds of the blocks it is in
  included,       \* where the files that are open were included (history)
  errors          \* zconfnerrs

nesting == <<places, current_menu, last_entry_ptr, blocks, included, errors>>

Kinds == {"menu", "choice", "if"}
Place(up, file) == [parent |-> up, file |-> file]

NestingInit ==
  /\ ScanInit
  /\ places = <<Place(0, Root)>>
  /\ current_menu = 1 /\ last_entry_ptr = <<"list", 1>>
  /\ blocks = <<>> /\ included = <<1>> /\ errors = 0

Parses == status = "reading" /\ buffers # <<>>

AddPlace ==
  /\ Parses
  /\ places' = Append(places, Place(current_menu, current_file))
  /\ UNCHANGED <<scanner, included, errors>>

AddEntry ==
  /\ AddPlace
  /\ last_entry_ptr' = <<"next", Len(places) + 1>>
  /\ UNCHANGED <<current_menu, blocks>>

OpenBlock(kind) ==
  /\ AddPlace
  /\ current_menu' = Len(places) + 1
  /\ last_entry_ptr' = <<"list", Len(places) + 1>>
  /\ blocks' = Append(blocks, kind)

menu_end_menu ==
  /\ last_entry_ptr' = <<"next", current_menu>>
  /\ current_menu' = places[current_menu].parent

(* Mutant: a block may be ended in another file.                           *)
EndBlockAnywhere ==
  /\ Parses /\ blocks # <<>>
  /\ blocks' = Front(blocks)
  /\ menu_end_menu
  /\ UNCHANGED <<scanner, places, included, errors>>

(* zconf_endtoken: the block ends for the parser even if its entry stays   *)
(* the current menu.                                                       *)
EndBlock ==
  /\ Parses /\ blocks # <<>>
  /\ blocks' = Front(blocks)
  /\ \E kind \in Kinds :
       IF kind = Last(blocks) /\ places[current_menu].file = current_file
       THEN menu_end_menu /\ UNCHANGED errors
       ELSE errors' = 1 /\ UNCHANGED <<current_menu, last_entry_ptr>>
  /\ UNCHANGED <<scanner, places, included>>

Source ==
  /\ \E f \in Files : zconf_nextfile(f)
  /\ included' = IF status' = "exited" THEN included
                 ELSE Append(included, current_menu)
  /\ UNCHANGED <<places, current_menu, last_entry_ptr, blocks, errors>>

EndSource ==
  /\ zconf_endfile
  /\ included' = Front(included)
  /\ UNCHANGED <<places, current_menu, last_entry_ptr, blocks, errors>>

EndOfInput == ScanEnd /\ UNCHANGED nesting

(* conf_parse: with an error, or a block left open, there is no menu.      *)
Refuse ==
  /\ status = "read" /\ ~ (errors = 0 /\ blocks = <<>>)
  /\ status' = "exited"
  /\ UNCHANGED <<text, current_file, parent, buffers, nesting>>

NestingNext ==
  \/ AddEntry
  \/ \E kind \in Kinds : OpenBlock(kind)
  \/ EndBlock
  \/ Source \/ EndSource \/ EndOfInput
  \/ Refuse

NestingSpec == NestingInit /\ [][NestingNext]_<<scanner, nesting>>

-----------------------------------------------------------------------------
(* The entries that an entry is in, itself included: no fewer than hold    *)
(* what each of them is in.                                                *)
Closed(S, p) == \A j \in S : p[j].parent \in S \cup {0}
Enclosing(i, p) ==
  {j \in DOMAIN p : \A S \in SUBSET DOMAIN p : i \in S /\ Closed(S, p) => j \in S}

(* No file is named by two source lines, and none names the first file: so *)
(* it is with the configuration files here.                                *)
EachFileOnce ==
  \A t \in Texts, f, g \in Files :
    \A i \in DOMAIN t[f], j \in DOMAIN t[g] :
      /\ t[f][i] # Root
      /\ t[f][i] = t[g][j] => f = g /\ i = j

(* No end statement of an included file ends a block that was begun before *)
(* it was included (zconf.tab.c:2321-2330).                                *)
IncludedStaysInside == ToSet(included) \subseteq Enclosing(current_menu, places)
=============================================================================
