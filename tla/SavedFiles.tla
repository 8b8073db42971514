----------------------------- MODULE SavedFiles -----------------------------
(***************************************************************************)
(* The files conf_write leaves (tools/menuconfig/confdata.c:732-830), and  *)
(* what the sessions of a front end do to them and to their mark of a      *)
(* change to save, without what they do to the values.  A save writes a    *)
(* temporary file, moves the old file out of the way and the new one in    *)
(* its place.                                                              *)
(*                                                                         *)
(* What can go wrong is collected in faults: "rename", the second renaming *)
(* failed; "killed", the process was gone by then; "full", nothing of the  *)
(* temporary file got to the disk, which is not noticed, and happens once  *)
(* here; "missing", there was no file to load.  A save whose temporary     *)
(* file cannot be opened changes nothing and is left out.                  *)
(***************************************************************************)
EXTENDS Functions

CONSTANTS
  FileNames,        \* of files
  config,           \* the one a session starts with
  ValuesIn(_),      \* the values a table of symbols has
  ReadsBack(_, _)   \* does a file give these values when it is read?

VARIABLES
  disk,           \* the files, by name
  old,            \* the .old files, by the name they had
  shown,          \* the values there were when a file was saved, by name
  faults,         \* what has gone wrong
  tbl,            \* the table of the symbols, and if it has a change to save
  filename,       \* where the session saves to
  session         \* "running", or how the session ended

files == <<disk, old, shown, faults>>
sessions == <<tbl, filename, session, files>>

With(f, name, x) ==
  [n \in DOMAIN f \cup {name} |-> IF n = name THEN x ELSE f[n]]
Removed(f, name) == Restrict(f, DOMAIN f \ {name})

FilesInit == old = <<>> /\ shown = <<>> /\ faults = {}

Fails(kind) == faults' = faults \cup {kind}

(* Mutant: the .old file is removed first.                                 *)
MovedAwayAfterRemoval(name) ==
  old' = IF name \in DOMAIN disk THEN With(old, name, disk[name])
         ELSE Removed(old, name)

MovedAway(name) ==
  old' = IF name \in DOMAIN disk THEN With(old, name, disk[name]) ELSE old

Renamed(name, file) == MovedAway(name) /\ disk' = With(disk, name, file)
NotRenamed(name) == MovedAway(name) /\ disk' = Removed(disk, name)

WriteWhole(name, file, values) ==
  /\ Renamed(name, file)
  /\ shown' = With(shown, name, values)
  /\ UNCHANGED faults

WriteToFullDisk(name) ==
  /\ "full" \notin faults
  /\ Renamed(name, <<>>)
  /\ Fails("full")
  /\ UNCHANGED shown

(* The renaming fails, or the process is gone before it: the file is not   *)
(* in its place.                                                           *)
WriteInterrupted(name, kind) ==
  /\ NotRenamed(name)
  /\ Fails(kind)
  /\ UNCHANGED shown

NotFound == Fails("missing") /\ UNCHANGED <<disk, old, shown>>

-----------------------------------------------------------------------------
(* What a front end may do to its files: save any values under any name,   *)
(* but in a file that does have them.  After a renaming that failed it     *)
(* does not keep to this (confdata.c:796), and after a name that was not   *)
(* found none of the properties is about values.                           *)
Survivable == faults \subseteq {"killed"} \/ faults = {"full"}

SaveWhole(name) ==
  /\ name \in DOMAIN disk' /\ name \in DOMAIN shown'
  /\ WriteWhole(name, disk'[name], shown'[name])
  /\ Survivable => ReadsBack(disk'[name], shown'[name])

Save(name) ==
  \/ SaveWhole(name)
  \/ WriteToFullDisk(name)
  \/ \E kind \in {"rename", "killed"} : WriteInterrupted(name, kind)

FilesNext ==
  \/ \E name \in FileNames : Save(name)
  \/ NotFound

FilesSpec == FilesInit /\ [][FilesNext]_files

-----------------------------------------------------------------------------
(* What a session of the menu tool may do beside.  It has nothing to save  *)
(* at its start only if its file gives the values it has, and no edit      *)
(* takes the mark away or changes the values without it.  A file loaded is *)
(* one to be saved; of one that is not there nothing is said.              *)
HasValues(name, values) ==
  name \in DOMAIN disk /\ ReadsBack(disk[name], values)
FileIsCurrent == HasValues(filename, ValuesIn(tbl))

Begun ==
  /\ filename = config /\ session = "running"
  /\ ~tbl.changed => FileIsCurrent

Runs == session = "running"
SameValues == ValuesIn(tbl') = ValuesIn(tbl)

Edit ==
  /\ Runs
  /\ ~tbl'.changed => ~tbl.changed /\ SameValues
  /\ UNCHANGED <<filename, session, files>>

Load(name) ==
  /\ Runs
  /\ name \in DOMAIN disk /\ tbl'.changed
  /\ filename' = name
  /\ UNCHANGED <<session, files>>

LoadMissing == Runs /\ NotFound /\ UNCHANGED <<filename, session>>

(* All that is known of a save is that it came to its end.                 *)
SaveEnds(name) ==
  /\ Runs
  /\ \/ SaveWhole(name) /\ shown'[name] = ValuesIn(tbl)
     \/ WriteToFullDisk(name)
  /\ ~tbl'.changed /\ SameValues
  /\ filename' = name
  /\ session' \in {"running", "saved"}

SaveFails(name) ==
  /\ Runs
  /\ WriteInterrupted(name, "rename")
  /\ tbl.changed => tbl'.changed
  /\ session' \in {"running", "failed"}
  /\ UNCHANGED filename

SaveIsKilled(name) ==
  /\ Runs
  /\ WriteInterrupted(name, "killed")
  /\ session' = "killed"
  /\ UNCHANGED <<tbl, filename>>

(* The user is asked if there is a change to save, and only then.          *)
Quit ==
  /\ Runs
  /\ session' = IF tbl.changed THEN "discarded" ELSE "unchanged"
  /\ UNCHANGED <<tbl, filename, files>>

Start ==
  /\ ~Runs
  /\ filename' = config /\ session' = "running"
  /\ ~tbl'.changed => HasValues(config, ValuesIn(tbl'))
  /\ UNCHANGED files

SessionsNext ==
  \/ Edit
  \/ \E name \in FileNames :
       Load(name) \/ SaveEnds(name) \/ SaveFails(name) \/ SaveIsKilled(name)
  \/ LoadMissing
  \/ Quit
  \/ Start

SessionsSpec == FilesInit /\ Begun /\ [][SessionsNext]_sessions

-----------------------------------------------------------------------------
Kept(f, name) == name \in DOMAIN f /\ ReadsBack(f[name], shown[name])

SavedIsRead == \A name \in DOMAIN shown \cap DOMAIN disk : Kept(disk, name)

(* A configuration that was saved is there when the file is read: the      *)
(* values of its symbols are those there were when it was written, even if *)
(* sessions were killed (confdata.c:732-830).                              *)
SavesReadBack == faults \subseteq {"killed"} => SavedIsRead

(* Whatever the sessions after it do, what was last saved under a name can *)
(* be read from it or from its .old name, although sessions are killed     *)
(* between the renamings or, once, a save comes to a full disk; and one of *)
(* the two files is there however often the renaming fails                 *)
(* (confdata.c:816-824).                                                   *)
LastCopyKept ==
  \A name \in DOMAIN shown :
    /\ name \in DOMAIN disk \cup DOMAIN old
    /\ Survivable => Kept(disk, name) \/ Kept(old, name)

(* A session that ends without a question whether to save leaves a file    *)
(* that has its values, after a killed session too (mconf.c:869-900).      *)
NothingForgotten ==
  session = "unchanged" /\ faults \subseteq {"killed"} => FileIsCurrent
=============================================================================
