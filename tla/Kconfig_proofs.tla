--------------------------- MODULE Kconfig_proofs ---------------------------
(***************************************************************************)
(* The files of the configuration tool.  What was saved is not lost, for   *)
(* all names, files and values, however sessions end; and whatever files   *)
(* include each other, the one that lines are counted in, that names are   *)
(* relative to and that blocks belong to is the one being read.  What is   *)
(* made of an expression is worth what the expression was.                 *)
(***************************************************************************)
EXTENDS SourceFiles, SavedFiles, ExprRules, BlockArithmetic,
        SequenceTheorems, FiniteSetTheorems, TLAPS

-----------------------------------------------------------------------------
(* Files that are saved.  The one place is enough for a name as long as    *)
(* sessions are only killed, for then its file is gone only if the .old    *)
(* file is what it was; a full disk happens to one file, while the one     *)
(* before is good, and is over when a file is good again.                  *)

InOnePlace ==
  faults \subseteq {"killed"} =>
    \A name \in DOMAIN shown :
      IF name \in DOMAIN disk THEN ReadsBack(disk[name], shown[name])
      ELSE Kept(old, name)

NoneMissing == faults = {} => DOMAIN shown \subseteq DOMAIN disk

FilesInv == InOnePlace /\ NoneMissing /\ LastCopyKept

LEMMA RemovedIs ==
  ASSUME NEW f, NEW name
  PROVE  /\ DOMAIN Removed(f, name) = DOMAIN f \ {name}
         /\ \A n \in DOMAIN f : n # name => Removed(f, name)[n] = f[n]
BY DEF Removed, Restrict

(* The .old file is what the file was, and what it was if there was none.  *)
LEMMA MovedAwayIs ==
  ASSUME NEW name, MovedAway(name)
  PROVE  /\ DOMAIN old' = DOMAIN old \cup ({name} \cap DOMAIN disk)
         /\ name \in DOMAIN disk => old'[name] = disk[name]
         /\ name \notin DOMAIN disk => old' = old
         /\ \A n \in DOMAIN old : n # name => old'[n] = old[n]
<1>1. CASE name \in DOMAIN disk
  <2>1. old' = With(old, name, disk[name])
    BY <1>1 DEF MovedAway
  <2> QED BY <1>1, <2>1 DEF With
<1>2. CASE name \notin DOMAIN disk
  BY <1>2 DEF MovedAway
<1> QED BY <1>1, <1>2

LEMMA FilesAtFirst == FilesInit => FilesInv
BY DEF FilesInit, FilesInv, InOnePlace, NoneMissing, LastCopyKept

(* A file that is saved and is good.                                       *)
LEMMA WholeKeeps ==
  ASSUME FilesInv, NEW name, SaveWhole(name)
  PROVE  FilesInv'
<1> DEFINE file == disk'[name]
           values == shown'[name]
<1>1. /\ MovedAway(name) /\ faults' = faults
      /\ disk' = With(disk, name, file) /\ shown' = With(shown, name, values)
  BY DEF SaveWhole, WriteWhole, Renamed
<1> HIDE DEF file, values
<1>2. /\ DOMAIN disk' = DOMAIN disk \cup {name}
      /\ DOMAIN shown' = DOMAIN shown \cup {name}
      /\ \A n \in DOMAIN disk : n # name => disk'[n] = disk[n]
      /\ \A n \in DOMAIN shown : n # name => shown'[n] = shown[n]
  BY <1>1 DEF With
<1>3. /\ DOMAIN old \subseteq DOMAIN old'
      /\ \A n \in DOMAIN old : n # name => old'[n] = old[n]
  BY <1>1, MovedAwayIs
<1>4. Survivable' = Survivable
  BY <1>1 DEF Survivable
<1>5. InOnePlace'
  <2> SUFFICES ASSUME faults \subseteq {"killed"}, NEW n \in DOMAIN shown'
               PROVE  IF n \in DOMAIN disk' THEN ReadsBack(disk'[n], shown'[n])
                      ELSE Kept(old, n)'
    BY <1>1 DEF InOnePlace
  <2>1. CASE n = name
    BY <1>2, <2>1 DEF SaveWhole, Survivable
  <2>2. CASE n # name
    BY <1>2, <1>3, <2>2 DEF FilesInv, InOnePlace, Kept
  <2> QED BY <2>1, <2>2
<1>6. NoneMissing'
  BY <1>1, <1>2 DEF FilesInv, NoneMissing
<1>7. LastCopyKept'
  <2> SUFFICES ASSUME NEW n \in DOMAIN shown'
               PROVE  /\ n \in DOMAIN disk' \cup DOMAIN old'
                      /\ Survivable => Kept(disk, n)' \/ Kept(old, n)'
    BY <1>4 DEF LastCopyKept
  <2>1. CASE n = name
    BY <1>2, <2>1 DEF SaveWhole, Kept
  <2>2. CASE n # name
    <3>1. n \in DOMAIN shown /\ shown'[n] = shown[n]
      BY <1>2, <2>2
    <3>2. /\ n \in DOMAIN disk \cup DOMAIN old
          /\ Survivable => Kept(disk, n) \/ Kept(old, n)
      BY <3>1 DEF FilesInv, LastCopyKept
    <3> QED BY <1>2, <1>3, <2>2, <3>1, <3>2 DEF Kept
  <2> QED BY <2>1, <2>2
<1> QED BY <1>5, <1>6, <1>7 DEF FilesInv

(* A file of which nothing gets to the disk: the one before it is good, as *)
(* nothing has gone wrong until now.                                       *)
LEMMA FullDiskKeeps ==
  ASSUME FilesInv, NEW name, WriteToFullDisk(name)
  PROVE  FilesInv'
<1>1. /\ MovedAway(name) /\ disk' = With(disk, name, <<>>) /\ shown' = shown
      /\ "full" \notin faults /\ faults' = faults \cup {"full"}
  BY DEF WriteToFullDisk, Renamed, Fails
<1>2. /\ DOMAIN disk' = DOMAIN disk \cup {name}
      /\ \A n \in DOMAIN disk : n # name => disk'[n] = disk[n]
  BY <1>1 DEF With
<1>3. /\ DOMAIN old \subseteq DOMAIN old'
      /\ \A n \in DOMAIN old : n # name => old'[n] = old[n]
      /\ name \in DOMAIN disk => name \in DOMAIN old' /\ old'[name] = disk[name]
  BY <1>1, MovedAwayIs
<1>4. InOnePlace' /\ NoneMissing'
  BY <1>1 DEF InOnePlace, NoneMissing
<1>5. Survivable' => faults = {}
  BY <1>1 DEF Survivable
<1>6. LastCopyKept'
  <2> SUFFICES ASSUME NEW n \in DOMAIN shown
               PROVE  /\ n \in DOMAIN disk' \cup DOMAIN old'
                      /\ Survivable' => Kept(disk, n)' \/ Kept(old, n)'
    BY <1>1 DEF LastCopyKept
  <2>1. n \in DOMAIN disk' \cup DOMAIN old'
    BY <1>2, <1>3 DEF FilesInv, LastCopyKept
  <2>2. ASSUME Survivable' PROVE Kept(disk, n)' \/ Kept(old, n)'
    <3>1. n \in DOMAIN disk /\ ReadsBack(disk[n], shown[n])
      BY <1>5, <2>2 DEF FilesInv, InOnePlace, NoneMissing
    <3> QED BY <1>1, <1>2, <1>3, <3>1 DEF Kept
  <2> QED BY <2>1, <2>2
<1> QED BY <1>4, <1>6 DEF FilesInv

(* A file that is not put in its place.                                    *)
LEMMA NotRenamedKeeps ==
  ASSUME FilesInv, NEW name, NEW kind \in {"rename", "killed"},
         WriteInterrupted(name, kind)
  PROVE  FilesInv'
<1>1. /\ MovedAway(name) /\ disk' = Removed(disk, name) /\ shown' = shown
      /\ faults' = faults \cup {kind}
  BY DEF WriteInterrupted, NotRenamed, Fails
<1>2. /\ DOMAIN disk' = DOMAIN disk \ {name}
      /\ \A n \in DOMAIN disk : n # name => disk'[n] = disk[n]
  BY <1>1, RemovedIs
<1>3. /\ DOMAIN old \subseteq DOMAIN old'
      /\ \A n \in DOMAIN old : n # name => old'[n] = old[n]
      /\ name \in DOMAIN disk => name \in DOMAIN old' /\ old'[name] = disk[name]
      /\ name \notin DOMAIN disk => old' = old
  BY <1>1, MovedAwayIs
<1>4. /\ NoneMissing'
      /\ Survivable' => faults' \subseteq {"killed"}
      /\ faults' \subseteq {"killed"} => faults \subseteq {"killed"}
  BY <1>1 DEF NoneMissing, Survivable
<1>5. InOnePlace'
  <2> SUFFICES ASSUME faults' \subseteq {"killed"}, NEW n \in DOMAIN shown
               PROVE  IF n \in DOMAIN disk' THEN ReadsBack(disk'[n], shown[n])
                      ELSE Kept(old, n)'
    BY <1>1 DEF InOnePlace
  <2>1. IF n \in DOMAIN disk THEN ReadsBack(disk[n], shown[n])
        ELSE Kept(old, n)
    BY <1>4 DEF FilesInv, InOnePlace
  <2> QED BY <1>1, <1>2, <1>3, <2>1 DEF Kept
<1>6. LastCopyKept'
  <2> SUFFICES ASSUME NEW n \in DOMAIN shown
               PROVE  /\ n \in DOMAIN disk' \cup DOMAIN old'
                      /\ Survivable' => Kept(disk, n)' \/ Kept(old, n)'
    BY <1>1 DEF LastCopyKept
  <2>1. n \in DOMAIN disk' \cup DOMAIN old'
    BY <1>2, <1>3 DEF FilesInv, LastCopyKept
  <2>2. Survivable' => Kept(disk, n)' \/ Kept(old, n)'
    BY <1>1, <1>4, <1>5 DEF InOnePlace, Kept
  <2> QED BY <2>1, <2>2
<1> QED BY <1>4, <1>5, <1>6 DEF FilesInv

LEMMA FilesInductive == FilesInv /\ [FilesNext]_files => FilesInv'
<1> SUFFICES ASSUME FilesInv, [FilesNext]_files PROVE FilesInv'
  OBVIOUS
<1>1. ASSUME NEW name \in FileNames, Save(name) PROVE FilesInv'
  BY <1>1, WholeKeeps, FullDiskKeeps, NotRenamedKeeps DEF Save
<1>2. CASE NotFound
  <2>1. UNCHANGED <<disk, old, shown>> /\ faults' = faults \cup {"missing"}
    BY <1>2 DEF NotFound, Fails
  <2>2. ~ Survivable' /\ faults' # {} /\ ~ (faults' \subseteq {"killed"})
    BY <2>1 DEF Survivable
  <2> QED BY <2>1, <2>2
          DEF FilesInv, InOnePlace, NoneMissing, LastCopyKept
<1>3. CASE UNCHANGED files
  BY <1>3 DEF files, FilesInv, InOnePlace, NoneMissing, LastCopyKept, Kept,
              Survivable
<1> QED BY <1>1, <1>2, <1>3 DEF FilesNext

(* For any files, values and number of sessions: what was last saved under *)
(* a name can be read, from the file of that name or its .old one, even if *)
(* sessions are killed between the renamings or a save comes to a full     *)
(* disk; and one of the two is there however often the renaming fails      *)
(* (confdata.c:816-824).                                                   *)
THEOREM LastCopyIsKept == FilesSpec => []LastCopyKept
<1>1. FilesInv => LastCopyKept
  BY DEF FilesInv
<1> QED BY <1>1, FilesAtFirst, FilesInductive, PTL DEF FilesSpec

(* And a file that is there is the one that was saved, even if sessions    *)
(* were killed (confdata.c:732-830).                                       *)
THEOREM SavedFilesReadBack == FilesSpec => []SavesReadBack
<1>1. FilesInv => SavesReadBack
  BY DEF FilesInv, InOnePlace, SavesReadBack, SavedIsRead, Kept
<1> QED BY <1>1, FilesAtFirst, FilesInductive, PTL DEF FilesSpec

(* What the sessions do to the files is what a front end may do.           *)
LEMMA SessionsStepFiles ==
  ASSUME [SessionsNext]_sessions
  PROVE  [FilesNext]_files
<1>1. ASSUME NEW name \in FileNames,
             SaveEnds(name) \/ SaveFails(name) \/ SaveIsKilled(name)
      PROVE  FilesNext
  BY <1>1 DEF SaveEnds, SaveFails, SaveIsKilled, Save, FilesNext
<1>2. ASSUME Edit \/ Quit \/ Start \/ \E name \in FileNames : Load(name)
      PROVE  UNCHANGED files
  BY <1>2 DEF Edit, Quit, Start, Load
<1>3. CASE LoadMissing
  BY <1>3 DEF LoadMissing, FilesNext
<1>4. CASE UNCHANGED sessions
  BY <1>4 DEF sessions
<1> QED BY <1>1, <1>2, <1>3, <1>4 DEF SessionsNext

(* Sessions keep the files as a front end does that knows of nothing else. *)
THEOREM SessionsKeepFiles == SessionsSpec => FilesSpec
BY SessionsStepFiles, PTL DEF SessionsSpec, FilesSpec

(* A session that has no change to save has the values of its file, and so *)
(* has one that ended for that reason.  Whatever goes wrong but a kill is  *)
(* in faults, and a session that was killed has ended.                     *)
CurrentUnlessMarked ==
  /\ session \in {"running", "unchanged"}
  /\ session = "running" => ~tbl.changed
  /\ faults \subseteq {"killed"}
  => FileIsCurrent

(* Nothing changes a file behind a session's back: a step that leaves the  *)
(* files, the name and the values as they are leaves what the file gives.  *)
LEMMA CurrentStays ==
  ASSUME UNCHANGED <<filename, files>>, SameValues
  PROVE  FileIsCurrent' = FileIsCurrent
BY DEF files, SameValues, FileIsCurrent, HasValues

(* A file that was saved has the values.                                   *)
LEMMA CurrentOnceSaved ==
  ASSUME NEW name, SaveEnds(name), faults' \subseteq {"killed"}
  PROVE  FileIsCurrent'
<1>1. SaveWhole(name) /\ shown'[name] = ValuesIn(tbl)
  BY DEF SaveEnds, WriteToFullDisk, Fails
<1>2. name \in DOMAIN disk' /\ ReadsBack(disk'[name], shown'[name])
  BY <1>1 DEF SaveWhole, WriteWhole, Survivable
<1> QED BY <1>1, <1>2 DEF SaveEnds, SameValues, FileIsCurrent, HasValues

LEMMA MarkInductive ==
  CurrentUnlessMarked /\ [SessionsNext]_sessions => CurrentUnlessMarked'
<1> SUFFICES ASSUME CurrentUnlessMarked, [SessionsNext]_sessions,
                    session' \in {"running", "unchanged"},
                    session' = "running" => ~tbl'.changed,
                    faults' \subseteq {"killed"}
             PROVE  FileIsCurrent'
  BY DEF CurrentUnlessMarked
<1> USE DEF Runs
<1>1. CASE Edit
  <2>1. /\ UNCHANGED <<filename, files>> /\ SameValues
        /\ session = "running" /\ ~tbl.changed /\ faults' = faults
    BY <1>1 DEF Edit, files
  <2> QED BY <2>1, CurrentStays DEF CurrentUnlessMarked
<1>2. ASSUME NEW name \in FileNames, SaveEnds(name) PROVE FileIsCurrent'
  BY <1>2, CurrentOnceSaved
<1>3. CASE Quit
  <2>1. /\ UNCHANGED <<tbl, filename, files>> /\ faults' = faults
        /\ session = "running" /\ ~tbl.changed
    BY <1>3 DEF Quit, files
  <2> QED BY <2>1, CurrentStays DEF CurrentUnlessMarked, SameValues
<1>4. CASE Start
  BY <1>4 DEF Start, files, FileIsCurrent, HasValues
<1>5. ASSUME NEW name \in FileNames
      PROVE  ~Load(name) /\ ~SaveFails(name) /\ ~SaveIsKilled(name)
  BY DEF Load, SaveFails, SaveIsKilled, WriteInterrupted, Fails
<1>6. ~LoadMissing
  BY DEF LoadMissing, NotFound, Fails
<1>7. CASE UNCHANGED sessions
  <2>1. UNCHANGED <<tbl, filename, session, files>> /\ faults' = faults
    BY <1>7 DEF sessions, files
  <2> QED BY <2>1, CurrentStays DEF CurrentUnlessMarked, SameValues
<1> QED BY <1>1, <1>2, <1>3, <1>4, <1>5, <1>6, <1>7 DEF SessionsNext

(* For any values, files and number of sessions: one that ends without a   *)
(* question whether to save leaves a file that has its values, after a     *)
(* killed session too (mconf.c:869-900).                                   *)
THEOREM NothingIsForgotten == SessionsSpec => []NothingForgotten
<1>1. FilesInit /\ Begun => CurrentUnlessMarked
  BY DEF Begun, CurrentUnlessMarked
<1>2. CurrentUnlessMarked => NothingForgotten
  BY DEF CurrentUnlessMarked, NothingForgotten
<1> QED BY <1>1, <1>2, MarkInductive, PTL DEF SessionsSpec

-----------------------------------------------------------------------------
(* Files that are read.  A record has one parent, so the files open are    *)
(* told by the records only as long as no file is open twice (Straight).   *)
(* The scanner looks for that late: it opens the file again, and refuses   *)
(* the first source line of it, which there is, as it was opened from one  *)
(* before (Round).                                                         *)

FileOf(i) == buffers[i].file

Straight ==
  /\ FileIsRead
  /\ \A i \in 1 .. Len(buffers) - 1 : text[FileOf(i)] # <<>>
  /\ \A i, j \in 1 .. Len(buffers) : i # j => FileOf(i) # FileOf(j)
  /\ \A i \in 1 .. Len(buffers) :
       parent[FileOf(i)] = IF i = 1 THEN None ELSE FileOf(i - 1)

Round ==
  /\ buffers # <<>> /\ Top.read = 0 /\ text[Top.file] # <<>>
  /\ current_file = Top.file /\ current_file \in Includers(current_file)

ScanTyped ==
  /\ text \in [Files -> Seq(Files)]
  /\ parent \in [Files -> Files \cup {None}]
  /\ buffers \in Seq([file : Files, read : Nat])

ScanInv == ScanTyped /\ (status = "reading" => Straight \/ Round)

LEMMA ScanAtFirst == ScanInit => ScanInv
<1> SUFFICES ASSUME ScanInit PROVE ScanInv
  OBVIOUS
<1> USE DEF ScanInit
<1>1. ScanTyped
  BY FilesAssumption DEF ScanTyped
<1>2. /\ buffers # <<>> /\ Len(buffers) = 1 /\ FileOf(1) = Root
      /\ Top.file = Root
  BY DEF Top, Last, FileOf
<1>3. Straight
  BY <1>1, <1>2, FilesAssumption DEF Straight, FileIsRead, ScanTyped
<1> QED BY <1>1, <1>3 DEF ScanInv

(* A sequence without its last element, and with others in its place.      *)
LEMMA FrontAndLast ==
  ASSUME NEW S, NEW s \in Seq(S), s # <<>>
  PROVE  /\ Len(s) \in Nat \ {0} /\ Last(s) = s[Len(s)] /\ Last(s) \in S
         /\ Front(s) \in Seq(S) /\ Len(Front(s)) = Len(s) - 1
         /\ \A i \in 1 .. Len(s) - 1 : Front(s)[i] = s[i]
<1>1. Len(s) \in Nat \ {0}
  BY EmptySeq
<1>2. \A i \in 1 .. Len(s) : s[i] \in S
  BY ElementOfSeq
<1> DEFINE n == Len(s) - 1
<1>3. n \in Nat /\ 1 \in Int /\ n \in Int /\ n - 1 + 1 = n
      /\ \A i \in 1 .. n : s[i] \in S
  BY <1>1, <1>2
<1>4. /\ SubSeq(s, 1, n) \in Seq(S)
      /\ Len(SubSeq(s, 1, n)) = IF 1 <= n THEN n - 1 + 1 ELSE 0
      /\ \A i \in 1 .. n - 1 + 1 : SubSeq(s, 1, n)[i] = s[1 + i - 1]
  <2> HIDE DEF n
  <2> QED BY <1>3, SubSeqProperties
<1>5. Front(s) = SubSeq(s, 1, n) /\ Last(s) = s[Len(s)]
  BY DEF Front, Last
<1> HIDE DEF n
<1>6. Len(Front(s)) = n
  BY <1>3, <1>4, <1>5
<1>7. \A i \in 1 .. n : 1 + i - 1 = i
  BY <1>3
<1>8. \A i \in 1 .. n : Front(s)[i] = s[i]
  BY <1>3, <1>4, <1>5, <1>7
<1> QED BY <1>1, <1>2, <1>4, <1>5, <1>6, <1>8 DEF n

LEMMA LastReplaced ==
  ASSUME NEW S, NEW s \in Seq(S), s # <<>>, NEW x \in S, NEW y \in S
  PROVE  LET t == Append(Front(s) \o <<x>>, y)
         IN  /\ t \in Seq(S) /\ t # <<>> /\ Len(t) = Len(s) + 1
             /\ \A i \in 1 .. Len(s) - 1 : t[i] = s[i]
             /\ t[Len(s)] = x /\ t[Len(s) + 1] = y
<1> DEFINE n == Len(s)
           rest == Front(s)
           most == rest \o <<x>>
           t == Append(most, y)
<1>1. /\ n \in Nat \ {0} /\ rest \in Seq(S) /\ Len(rest) = n - 1
      /\ \A i \in 1 .. n - 1 : rest[i] = s[i]
  BY FrontAndLast
<1> HIDE DEF n, rest
<1>2. <<x>> \in Seq(S) /\ Len(<<x>>) = 1 /\ <<x>>[1] = x
  OBVIOUS
<1>3. /\ most \in Seq(S) /\ Len(most) = Len(rest) + 1
      /\ \A i \in 1 .. Len(rest) + 1 :
           most[i] = IF i <= Len(rest) THEN rest[i] ELSE <<x>>[i - Len(rest)]
  BY <1>1, <1>2, ConcatProperties
<1>4. most \in Seq(S) /\ Len(most) = n
  BY <1>1, <1>3
<1>5. \A i \in 1 .. n - 1 : most[i] = s[i]
  BY <1>1, <1>3
<1>6. most[n] = x
  <2>1. n \in 1 .. Len(rest) + 1 /\ ~ (n <= Len(rest)) /\ n - Len(rest) = 1
    BY <1>1
  <2> QED BY <1>2, <1>3, <2>1
<1> HIDE DEF most
<1>7. t \in Seq(S) /\ Len(t) = n + 1 /\ t[n + 1] = y
      /\ \A i \in 1 .. n : t[i] = most[i]
  BY <1>4, <1>1
<1>8. t # <<>>
  BY <1>1, <1>7
<1>9. n \in 1 .. n /\ \A i \in 1 .. n - 1 : i \in 1 .. n
  BY <1>1
<1> HIDE DEF t
<1>10. /\ t \in Seq(S) /\ t # <<>> /\ Len(t) = n + 1
       /\ \A i \in 1 .. n - 1 : t[i] = s[i]
       /\ t[n] = x /\ t[n + 1] = y
  BY <1>5, <1>6, <1>7, <1>8, <1>9
<1> QED BY <1>10 DEF n, rest, most, t

(* What is open: the last of it is at the top.                             *)
LEMMA Opened ==
  ASSUME ScanTyped, buffers # <<>>
  PROVE  LET L == Len(buffers)
         IN  /\ L \in Nat \ {0} /\ Top = buffers[L] /\ Top.file = FileOf(L)
             /\ Top.read \in Nat
             /\ \A i \in 1 .. L : FileOf(i) \in Files
<1> DEFINE R == [file : Files, read : Nat]
<1>1. buffers \in Seq(R) /\ \A r \in R : r.file \in Files /\ r.read \in Nat
  BY DEF ScanTyped
<1> HIDE DEF R
<1>2. \A i \in 1 .. Len(buffers) : buffers[i] \in R
  BY <1>1, ElementOfSeq
<1>3. /\ Len(buffers) \in Nat \ {0} /\ Top = buffers[Len(buffers)] /\ Top \in R
  BY <1>1, FrontAndLast DEF Top
<1> QED BY <1>1, <1>2, <1>3 DEF FileOf

(* The files that were open still are, with one more at the end.           *)
LEMMA OneMore ==
  ASSUME ScanTyped, buffers # <<>>, NEW f \in Files,
         buffers' = Append(Front(buffers) \o <<[Top EXCEPT !.read = @ + 1]>>,
                           [file |-> f, read |-> 0])
  PROVE  LET L == Len(buffers)
         IN  /\ Len(buffers') = L + 1
             /\ buffers' \in Seq([file : Files, read : Nat])
             /\ \A i \in 1 .. L : FileOf(i)' = FileOf(i)
             /\ \A i \in 1 .. L - 1 : buffers'[i] = buffers[i]
             /\ buffers'[L].read = Top.read + 1
             /\ buffers'[L + 1].file = f
             /\ Top'.file = f /\ Top'.read = 0 /\ buffers' # <<>>
<1> DEFINE R == [file : Files, read : Nat]
           L == Len(buffers)
           top == [Top EXCEPT !.read = @ + 1]
           new == [file |-> f, read |-> 0]
<1>1. buffers \in Seq(R) /\ new \in R /\ new.file = f /\ new.read = 0
  BY DEF ScanTyped
<1>2. L \in Nat \ {0} /\ Top = buffers[L] /\ Top \in R
  BY <1>1, FrontAndLast DEF Top
<1>3. top \in R /\ top.file = Top.file /\ top.read = Top.read + 1
  BY <1>2
<1> HIDE DEF R, top, new
<1>4. /\ buffers' \in Seq(R) /\ buffers' # <<>> /\ Len(buffers') = L + 1
      /\ \A i \in 1 .. L - 1 : buffers'[i] = buffers[i]
      /\ buffers'[L] = top /\ buffers'[L + 1] = new
  <2>1. buffers' = Append(Front(buffers) \o <<top>>, new)
    BY DEF top, new
  <2>2. ASSUME NEW s \in Seq(R), s # <<>>
        PROVE  LET t == Append(Front(s) \o <<top>>, new)
               IN  /\ t \in Seq(R) /\ t # <<>> /\ Len(t) = Len(s) + 1
                   /\ \A i \in 1 .. Len(s) - 1 : t[i] = s[i]
                   /\ t[Len(s)] = top /\ t[Len(s) + 1] = new
    BY <1>1, <1>3, <2>2, LastReplaced
  <2> QED BY <1>1, <2>1, <2>2
<1>5. Top' = new
  BY <1>2, <1>4 DEF Top, Last
<1>6. ASSUME NEW i \in 1 .. L PROVE buffers'[i].file = buffers[i].file
  <2>1. i = L \/ i \in 1 .. L - 1
    BY <1>2
  <2> QED BY <1>2, <1>3, <1>4, <2>1
<1>7. \A i \in 1 .. L : FileOf(i)' = FileOf(i)
  BY <1>6 DEF FileOf
<1> QED BY <1>1, <1>3, <1>4, <1>5, <1>7 DEF R

(* A file that is opened while it is open comes upon itself on the way up. *)
LEMMA ComesRound ==
  ASSUME Straight, ScanTyped, NEW f \in Files, buffers # <<>>,
         NEW k \in 1 .. Len(buffers), FileOf(k) = f,
         parent' = [parent EXCEPT ![f] = FileOf(Len(buffers))]
  PROVE  f \in Includers(f)'
<1> DEFINE L == Len(buffers)
<1>1. /\ L \in Nat \ {0} /\ k \in Nat \ {0} /\ k <= L
      /\ \A i \in 1 .. L : FileOf(i) \in Files
  BY Opened
<1>2. /\ parent'[f] = FileOf(L)
      /\ \A i \in 1 .. L : i > k => parent'[FileOf(i)] = FileOf(i - 1)
  BY <1>1 DEF ScanTyped, Straight
<1> SUFFICES ASSUME NEW walk \in SUBSET Files, Upwards(f, walk)'
             PROVE  f \in walk
  BY DEF Includers
<1> DEFINE A == {i \in k .. L : FileOf(i) \in walk}
<1>3. /\ parent'[f] \in walk \cup {None}
      /\ \A g \in walk : parent'[g] \in walk \cup {None}
  BY FilesAssumption DEF Upwards, Up
<1>4. L \in A
  BY <1>1, <1>2, <1>3, FilesAssumption
<1>5. A \in SUBSET Nat /\ A # {}
  BY <1>1, <1>4
<1>6. PICK i \in A : \A j \in A : i <= j
  BY <1>5, LeastNumber
<1>7. i = k
  <2> SUFFICES ASSUME i # k PROVE FALSE
    OBVIOUS
  <2>1. i \in 1 .. L /\ i > k /\ i - 1 \in k .. L /\ i - 1 \in 1 .. L
        /\ FileOf(i) \in walk
    BY <1>1, <1>6
  <2>2. FileOf(i - 1) \in walk \cup {None}
    BY <1>2, <1>3, <2>1
  <2>3. i - 1 \in A
    BY <1>1, <2>1, <2>2, FilesAssumption
  <2> QED BY <1>6, <2>1, <2>3
<1> QED BY <1>6, <1>7

LEMMA NextFileKeeps ==
  ASSUME ScanInv, NEW f \in Files, zconf_nextfile(f)
  PROVE  ScanInv'
<1>1. /\ status = "reading" /\ buffers # <<>> /\ Top.read < Len(text[Top.file])
      /\ ScanTyped
  BY DEF zconf_nextfile, ScanInv
<1>2. CASE Exit
  BY <1>1, <1>2 DEF Exit, ScanInv, ScanTyped
<1>3. CASE ~ Exit
  <2>1. /\ current_file \notin Includers(current_file)
        /\ parent' = [parent EXCEPT ![f] = current_file]
        /\ current_file' = f /\ UNCHANGED <<status, text>>
        /\ buffers' = Append(Front(buffers) \o <<[Top EXCEPT !.read = @ + 1]>>,
                             [file |-> f, read |-> 0])
    BY <1>3 DEF zconf_nextfile
  <2>2. Straight
    BY <1>1, <2>1 DEF ScanInv, Round
  <2> DEFINE L == Len(buffers)
  <2>3. /\ L \in Nat \ {0} /\ Len(buffers') = L + 1
        /\ buffers' \in Seq([file : Files, read : Nat])
        /\ \A i \in 1 .. L : FileOf(i)' = FileOf(i) /\ FileOf(i) \in Files
        /\ buffers'[L + 1].file = f /\ Top.file = FileOf(L) /\ Top.read \in Nat
        /\ Top'.file = f /\ Top'.read = 0 /\ buffers' # <<>>
    BY <1>1, <2>1, OneMore, Opened
  <2>4. current_file = FileOf(L)
    BY <1>1, <2>2, <2>3 DEF Straight, FileIsRead
  <2>5. ScanTyped'
    <3>1. FileOf(L) \in Files
      BY <2>3
    <3>2. text' \in [Files -> Seq(Files)] /\ parent \in [Files -> Files \cup {None}]
      BY <1>1, <2>1 DEF ScanTyped
    <3>3. parent' \in [Files -> Files \cup {None}]
      BY <2>1, <2>4, <3>1, <3>2
    <3> QED BY <2>3, <3>2, <3>3 DEF ScanTyped
  <2>6. text[FileOf(L)] # <<>>
    <3>1. FileOf(L) \in Files
      BY <2>3
    <3>2. Len(text[FileOf(L)]) \in Nat /\ Top.read < Len(text[FileOf(L)])
      BY <1>1, <2>3, <3>1 DEF ScanTyped
    <3>3. Len(<<>>) = 0
      OBVIOUS
    <3> QED BY <2>3, <3>2, <3>3
  <2>7. CASE \E k \in 1 .. L : FileOf(k) = f
    <3>1. PICK k \in 1 .. L : FileOf(k) = f
      BY <2>7
    <3>2. text[f] # <<>>
      BY <2>2, <2>3, <2>6, <3>1 DEF Straight
    <3>3. f \in Includers(f)'
      BY <1>1, <2>1, <2>2, <2>4, <3>1, ComesRound
    <3>4. Round'
      BY <2>1, <2>3, <3>2, <3>3 DEF Round, Includers, Upwards, Up
    <3> QED BY <2>5, <3>4 DEF ScanInv
  <2>8. CASE \A k \in 1 .. L : FileOf(k) # f
    <3>1. FileIsRead'
      BY <2>1, <2>3 DEF FileIsRead
    <3>2. \A i \in 1 .. Len(buffers') - 1 : text'[FileOf(i)'] # <<>>
      BY <2>1, <2>2, <2>3, <2>6 DEF Straight
    <3>3. \A i, j \in 1 .. Len(buffers') : i # j => FileOf(i)' # FileOf(j)'
      <4>1. \A i \in 1 .. L + 1 : i = L + 1 \/ i \in 1 .. L
        BY <2>3
      <4>2. \A i \in 1 .. L : FileOf(i)' # f
        BY <2>3, <2>8
      <4>3. \A i \in 1 .. L + 1 : i = L + 1 => FileOf(i)' = f
        BY <2>3 DEF FileOf
      <4>4. \A i, j \in 1 .. L : i # j => FileOf(i) # FileOf(j)
        BY <2>2 DEF Straight
      <4> QED BY <2>3, <4>1, <4>2, <4>3, <4>4
    <3>4. ASSUME NEW i \in 1 .. Len(buffers')
          PROVE  parent'[FileOf(i)'] = IF i = 1 THEN None ELSE FileOf(i - 1)'
      <4>1. CASE i = L + 1
        <5>1. parent'[f] = FileOf(L) /\ i # 1 /\ i - 1 = L
          BY <1>1, <2>1, <2>3, <2>4, <4>1 DEF ScanTyped
        <5>2. FileOf(i)' = f /\ FileOf(i - 1)' = FileOf(L)
          BY <2>3, <4>1, <5>1 DEF FileOf
        <5> QED BY <5>1, <5>2
      <4>2. CASE i # L + 1
        <5>1. i \in 1 .. L /\ (i # 1 => i - 1 \in 1 .. L)
          BY <2>3, <4>2
        <5>2. parent'[FileOf(i)] = parent[FileOf(i)]
          BY <1>1, <2>1, <2>3, <2>8, <5>1 DEF ScanTyped
        <5> QED BY <2>2, <2>3, <5>1, <5>2 DEF Straight
      <4> QED BY <4>1, <4>2
    <3>5. Straight'
      BY <3>1, <3>2, <3>3, <3>4 DEF Straight
    <3> QED BY <2>5, <3>5 DEF ScanInv
  <2> QED BY <2>7, <2>8
<1> QED BY <1>2, <1>3

(* A file has an end to come to only if it was not opened while open.      *)
LEMMA EndFileKeeps ==
  ASSUME ScanInv, zconf_endfile
  PROVE  ScanInv'
<1> DEFINE L == Len(buffers)
<1>1. /\ status = "reading" /\ buffers # <<>> /\ Top.read = Len(text[Top.file])
      /\ current_file' = parent[current_file] /\ buffers' = Front(buffers)
      /\ UNCHANGED <<status, text, parent>> /\ ScanTyped
  BY DEF zconf_endfile, ScanInv
<1>2. /\ L \in Nat \ {0} /\ Top = buffers[L] /\ Top.file = FileOf(L)
      /\ FileOf(L) \in Files
      /\ buffers' \in Seq([file : Files, read : Nat]) /\ Len(buffers') = L - 1
      /\ \A i \in 1 .. L - 1 : buffers'[i] = buffers[i]
  <2>1. L \in Nat \ {0} /\ Top = buffers[L] /\ Top.file = FileOf(L)
        /\ FileOf(L) \in Files
    BY <1>1, Opened
  <2>2. buffers \in Seq([file : Files, read : Nat])
    BY <1>1 DEF ScanTyped
  <2>3. /\ Front(buffers) \in Seq([file : Files, read : Nat])
        /\ Len(Front(buffers)) = L - 1
        /\ \A i \in 1 .. L - 1 : Front(buffers)[i] = buffers[i]
    BY <1>1, <2>2, FrontAndLast
  <2> QED BY <1>1, <2>1, <2>3
<1>3. Straight
  <2>1. text[Top.file] \in Seq(Files)
    BY <1>1, <1>2 DEF ScanTyped
  <2> QED BY <1>1, <2>1 DEF ScanInv, Round
<1>4. ScanTyped'
  BY <1>1, <1>2 DEF ScanTyped
<1>5. current_file' = IF L = 1 THEN None ELSE FileOf(L - 1)
  BY <1>1, <1>2, <1>3 DEF Straight, FileIsRead
<1>6. \A i \in 1 .. L - 1 : FileOf(i)' = FileOf(i)
  BY <1>2 DEF FileOf
<1>7. FileIsRead'
  <2>1. CASE L = 1
    BY <1>2, <1>5, <2>1 DEF FileIsRead
  <2>2. CASE L # 1
    <3>1. buffers' # <<>> /\ Top' = buffers'[L - 1] /\ L - 1 \in 1 .. L - 1
      BY <1>2, <2>2 DEF Top, Last
    <3> QED BY <1>5, <1>6, <2>2, <3>1 DEF FileIsRead, FileOf
  <2> QED BY <2>1, <2>2
<1>8. /\ \A i \in 1 .. Len(buffers') - 1 : text'[FileOf(i)'] # <<>>
      /\ \A i, j \in 1 .. Len(buffers') : i # j => FileOf(i)' # FileOf(j)'
      /\ \A i \in 1 .. Len(buffers') :
           parent'[FileOf(i)'] = IF i = 1 THEN None ELSE FileOf(i - 1)'
  <2>1. \A i \in 1 .. L - 1 : i \in 1 .. L /\ (i # 1 => i - 1 \in 1 .. L - 1)
    BY <1>2
  <2>2. Len(buffers') = L - 1 /\ text' = text /\ parent' = parent
    BY <1>1, <1>2
  <2>3. \A i \in 1 .. (L - 1) - 1 : i \in 1 .. L - 1
    BY <1>2
  <2>4. \A i \in 1 .. L - 1 : text[FileOf(i)] # <<>>
    BY <1>3 DEF Straight
  <2>5. \A i, j \in 1 .. L : i # j => FileOf(i) # FileOf(j)
    BY <1>3 DEF Straight
  <2>6. \A i \in 1 .. L :
          parent[FileOf(i)] = IF i = 1 THEN None ELSE FileOf(i - 1)
    BY <1>3 DEF Straight
  <2>7. \A i \in 1 .. (L - 1) - 1 : text[FileOf(i)'] # <<>>
    BY <1>6, <2>3, <2>4
  <2>8. \A i, j \in 1 .. L - 1 : i # j => FileOf(i)' # FileOf(j)'
    BY <1>6, <2>1, <2>5
  <2>9. \A i \in 1 .. L - 1 :
          parent[FileOf(i)'] = IF i = 1 THEN None ELSE FileOf(i - 1)'
    BY <1>6, <2>1, <2>6
  <2> QED BY <2>2, <2>7, <2>8, <2>9
<1>9. Straight'
  BY <1>7, <1>8 DEF Straight
<1> QED BY <1>4, <1>9 DEF ScanInv

LEMMA ScanInductive == ScanInv /\ [ScanNext]_scanner => ScanInv'
<1> SUFFICES ASSUME ScanInv, [ScanNext]_scanner PROVE ScanInv'
  OBVIOUS
<1>1. CASE ScanEnd
  BY <1>1 DEF ScanEnd, ScanInv, ScanTyped
<1>2. CASE UNCHANGED scanner
  <2>1. UNCHANGED <<status, text, current_file, parent, buffers>>
    BY <1>2 DEF scanner
  <2> QED BY <2>1 DEF ScanInv, ScanTyped, Straight, Round, FileIsRead, FileOf,
                      Top, Includers, Upwards, Up
<1> QED BY <1>1, <1>2, NextFileKeeps, EndFileKeeps DEF ScanNext

(* Whatever files include each other, how often and through which others:  *)
(* while they are read, the current file is the one being read, though a   *)
(* record has but one parent (zconf.lex.c:2353-2409).                      *)
THEOREM CurrentFileIsRead == ScanSpec => []FileIsRead
<1>1. ScanInv => FileIsRead
  BY DEF ScanInv, Straight, Round, FileIsRead
<1> QED BY <1>1, ScanAtFirst, ScanInductive, PTL DEF ScanSpec

-----------------------------------------------------------------------------
(* Blocks that are opened and ended in files that include each other.      *)

Nested(p) ==
  /\ p \in Seq([parent : Nat, file : Files]) /\ Len(p) >= 1
  /\ p[1].parent = 0
  /\ \A i \in 2 .. Len(p) : p[i].parent \in 1 .. i - 1

LEMMA NestedDomain ==
  ASSUME NEW p, Nested(p)
  PROVE  DOMAIN p = 1 .. Len(p) /\ Len(p) \in Nat \ {0}
BY DEF Nested

LEMMA EnclosingFirst ==
  ASSUME NEW p, Nested(p)
  PROVE  Enclosing(1, p) = {1}
<1>1. 1 \in DOMAIN p /\ p[1].parent = 0
  BY NestedDomain DEF Nested
<1>2. Closed({1}, p) /\ {1} \in SUBSET DOMAIN p
  BY <1>1 DEF Closed
<1>3. Enclosing(1, p) \subseteq {1}
  BY <1>2 DEF Enclosing
<1>4. 1 \in Enclosing(1, p)
  BY <1>1 DEF Enclosing
<1> QED BY <1>3, <1>4

LEMMA EnclosingIs ==
  ASSUME NEW p, Nested(p), NEW i \in 2 .. Len(p)
  PROVE  Enclosing(i, p) = {i} \cup Enclosing(p[i].parent, p)
<1> DEFINE u == p[i].parent
<1>1. i \in DOMAIN p /\ u \in DOMAIN p /\ u # 0
  BY NestedDomain DEF Nested
<1>2. ASSUME NEW j \in Enclosing(u, p) PROVE j \in Enclosing(i, p)
  <2> SUFFICES ASSUME NEW S \in SUBSET DOMAIN p, i \in S, Closed(S, p)
               PROVE  j \in S
    BY DEF Enclosing
  <2>1. u \in S
    BY <1>1 DEF Closed
  <2> QED BY <2>1 DEF Enclosing
<1>3. i \in Enclosing(i, p)
  BY <1>1 DEF Enclosing
<1>4. ASSUME NEW j \in Enclosing(i, p), j # i PROVE j \in Enclosing(u, p)
  <2> SUFFICES ASSUME NEW S \in SUBSET DOMAIN p, u \in S, Closed(S, p)
               PROVE  j \in S
    BY DEF Enclosing
  <2>1. Closed(S \cup {i}, p) /\ S \cup {i} \in SUBSET DOMAIN p
    BY <1>1 DEF Closed
  <2>2. j \in S \cup {i}
    BY <2>1 DEF Enclosing
  <2> QED BY <1>4, <2>2
<1> QED BY <1>2, <1>3, <1>4

LEMMA EnclosingBelow ==
  ASSUME NEW p, Nested(p), NEW i \in DOMAIN p
  PROVE  Enclosing(i, p) \subseteq 1 .. i
<1>1. i \in 1 .. Len(p) /\ DOMAIN p = 1 .. Len(p)
  BY NestedDomain
<1>2. Closed(1 .. i, p)
  <2> SUFFICES ASSUME NEW j \in 1 .. i PROVE p[j].parent \in (1 .. i) \cup {0}
    BY DEF Closed
  <2>1. j = 1 \/ j \in 2 .. Len(p)
    BY <1>1
  <2> QED BY <1>1, <2>1 DEF Nested
<1> QED BY <1>1, <1>2 DEF Enclosing

(* Every entry is in rootmenu.                                             *)
LEMMA EnclosingRoot ==
  ASSUME NEW p, Nested(p), NEW i \in DOMAIN p
  PROVE  1 \in Enclosing(i, p)
<1>1. DOMAIN p = 1 .. Len(p) /\ Len(p) \in Nat \ {0}
  BY NestedDomain
<1> SUFFICES ASSUME NEW S \in SUBSET DOMAIN p, i \in S, Closed(S, p)
             PROVE  1 \in S
  BY <1>1 DEF Enclosing
<1>2. S \in SUBSET Nat /\ S # {}
  BY <1>1
<1>3. PICK j \in S : \A k \in S : j <= k
  BY <1>2, LeastNumber
<1>4. ASSUME j # 1 PROVE FALSE
  <2>1. j \in 2 .. Len(p) /\ p[j].parent \in 1 .. j - 1
    BY <1>1, <1>4 DEF Nested
  <2>2. p[j].parent \in S
    BY <2>1 DEF Closed
  <2> QED BY <1>3, <2>1, <2>2
<1> QED BY <1>3, <1>4

(* How deep an entry is.                                                   *)
LEMMA EnclosingDepth ==
  ASSUME NEW p, Nested(p), NEW i \in DOMAIN p
  PROVE  /\ Cardinality(Enclosing(i, p)) \in Nat
         /\ i = 1 => Cardinality(Enclosing(i, p)) = 1
         /\ i # 1 => /\ p[i].parent \in DOMAIN p
                     /\ Cardinality(Enclosing(i, p)) =
                          Cardinality(Enclosing(p[i].parent, p)) + 1
<1>1. i \in 1 .. Len(p) /\ DOMAIN p = 1 .. Len(p) /\ Len(p) \in Nat
  BY NestedDomain
<1>2. ASSUME NEW j \in DOMAIN p
      PROVE  IsFiniteSet(Enclosing(j, p))
  <2>1. Enclosing(j, p) \subseteq 1 .. j /\ j \in Int
    BY <1>1, EnclosingBelow
  <2>2. IsFiniteSet(1 .. j)
    BY <2>1, FS_Interval
  <2> QED BY <2>1, <2>2, FS_Subset
<1>3. Cardinality(Enclosing(i, p)) \in Nat
  BY <1>2, FS_CardinalityType
<1>4. ASSUME i = 1 PROVE Cardinality(Enclosing(i, p)) = 1
  BY <1>4, EnclosingFirst, FS_Singleton
<1>5. ASSUME i # 1
      PROVE  /\ p[i].parent \in DOMAIN p
             /\ Cardinality(Enclosing(i, p)) =
                  Cardinality(Enclosing(p[i].parent, p)) + 1
  <2> DEFINE u == p[i].parent
  <2>1. i \in 2 .. Len(p) /\ u \in DOMAIN p /\ u < i /\ u \in Nat
    BY <1>1, <1>5 DEF Nested
  <2>2. Enclosing(i, p) = Enclosing(u, p) \cup {i}
    BY <2>1, EnclosingIs
  <2>3. i \notin Enclosing(u, p)
    BY <1>1, <2>1, EnclosingBelow
  <2>4. IsFiniteSet(Enclosing(u, p))
    BY <1>2, <2>1
  <2> QED BY <2>1, <2>2, <2>3, <2>4, FS_AddElement
<1> QED BY <1>3, <1>4, <1>5

(* Another entry changes nothing for those that are there.                 *)
LEMMA EnclosingKept ==
  ASSUME NEW p, Nested(p), NEW up \in DOMAIN p, NEW file \in Files
  PROVE  LET q == Append(p, Place(up, file))
         IN  /\ Nested(q) /\ Len(q) = Len(p) + 1
             /\ q[Len(p) + 1] = Place(up, file)
             /\ \A i \in DOMAIN p :
                  q[i] = p[i] /\ Enclosing(i, q) = Enclosing(i, p)
<1> DEFINE q == Append(p, Place(up, file))
<1>1. DOMAIN p = 1 .. Len(p) /\ Len(p) \in Nat \ {0} /\ up \in 1 .. Len(p)
  BY NestedDomain
<1>2. Place(up, file) \in [parent : Nat, file : Files]
  BY <1>1 DEF Place
<1>3. /\ q \in Seq([parent : Nat, file : Files]) /\ Len(q) = Len(p) + 1
      /\ \A i \in 1 .. Len(p) : q[i] = p[i]
      /\ q[Len(p) + 1] = Place(up, file)
  BY <1>2, AppendProperties DEF Nested
<1> HIDE DEF q
<1>4. Nested(q)
  <2>1. ASSUME NEW i \in 2 .. Len(q) PROVE q[i].parent \in 1 .. i - 1
    <3>1. CASE i = Len(p) + 1
      BY <1>1, <1>3, <3>1 DEF Place
    <3>2. CASE i # Len(p) + 1
      <4>1. i \in 2 .. Len(p) /\ i \in 1 .. Len(p)
        BY <1>1, <1>3, <3>2
      <4> QED BY <1>3, <4>1 DEF Nested
    <3> QED BY <3>1, <3>2
  <2>2. q[1].parent = 0 /\ Len(q) >= 1
    BY <1>1, <1>3 DEF Nested
  <2> QED BY <1>3, <2>1, <2>2 DEF Nested
<1>5. DOMAIN q = 1 .. Len(p) + 1 /\ DOMAIN p \subseteq DOMAIN q
  BY <1>1, <1>3, <1>4, NestedDomain
<1>6. \A j \in DOMAIN p : p[j].parent \in DOMAIN p \cup {0}
  <2> SUFFICES ASSUME NEW j \in 1 .. Len(p)
               PROVE  p[j].parent \in (1 .. Len(p)) \cup {0}
    BY <1>1
  <2>1. j = 1 \/ j \in 2 .. Len(p)
    BY <1>1
  <2> QED BY <1>1, <2>1 DEF Nested
<1>7. ASSUME NEW i \in DOMAIN p PROVE Enclosing(i, q) = Enclosing(i, p)
  <2>1. ASSUME NEW j \in Enclosing(i, q) PROVE j \in Enclosing(i, p)
    <3>1. ASSUME NEW S \in SUBSET DOMAIN p, i \in S, Closed(S, p)
          PROVE  j \in S
      <4>1. Closed(S, q) /\ S \in SUBSET DOMAIN q
        BY <1>1, <1>3, <1>5, <3>1 DEF Closed
      <4> QED BY <3>1, <4>1 DEF Enclosing
    <3>2. Closed(DOMAIN p, p)
      BY <1>6 DEF Closed
    <3>3. j \in DOMAIN p
      BY <3>1, <3>2
    <3> QED BY <3>1, <3>3 DEF Enclosing
  <2>2. ASSUME NEW j \in Enclosing(i, p) PROVE j \in Enclosing(i, q)
    <3> SUFFICES ASSUME NEW S \in SUBSET DOMAIN q, i \in S, Closed(S, q)
                 PROVE  j \in S
      BY <1>5 DEF Enclosing
    <3>1. Closed(S \cap DOMAIN p, p)
      BY <1>1, <1>3, <1>6 DEF Closed
    <3> QED BY <3>1 DEF Enclosing
  <2> QED BY <2>1, <2>2
<1> QED BY <1>1, <1>3, <1>4, <1>7 DEF q

(* The files that were opened.  The line that names one of them is in one  *)
(* of them too, and it is behind, so that no file is opened again.         *)
Seen == {Root} \cup {f \in Files : parent[f] # None}

SeenInv ==
  /\ ScanInv /\ text \in Texts
  /\ \A i \in 1 .. Len(buffers) : FileOf(i) \in Seen
  /\ \A f \in Seen \ {Root} :
       /\ parent[f] \in Seen
       /\ \E k \in DOMAIN text[parent[f]] :
            /\ text[parent[f]][k] = f
            /\ \A i \in 1 .. Len(buffers) :
                 FileOf(i) = parent[f] => k <= buffers[i].read

LEMMA SeenAtFirst == ScanInit => SeenInv
<1> SUFFICES ASSUME ScanInit PROVE SeenInv
  OBVIOUS
<1>1. Seen = {Root}
  BY DEF ScanInit, Seen
<1>2. \A i \in 1 .. Len(buffers) : FileOf(i) = Root
  BY DEF ScanInit, FileOf
<1> QED BY <1>1, <1>2, ScanAtFirst DEF ScanInit, SeenInv

(* A file is opened.                                                       *)
LEMMA Opening ==
  ASSUME EachFileOnce, SeenInv, NEW f \in Files, zconf_nextfile(f), ~ Exit
  PROVE  LET L == Len(buffers)
         IN  /\ f \notin Seen /\ Seen' = Seen \cup {f}
             /\ L \in Nat \ {0} /\ Len(buffers') = L + 1
             /\ \A i \in 1 .. L : FileOf(i)' = FileOf(i)
             /\ buffers'[L + 1].file = f
             /\ SeenInv' /\ status' = "reading"
<1> DEFINE L == Len(buffers)
           g == FileOf(L)
           k == Top.read + 1
<1>1. /\ status = "reading" /\ buffers # <<>> /\ Top.read < Len(text[Top.file])
      /\ text[Top.file][k] = f
      /\ current_file \notin Includers(current_file)
      /\ parent' = [parent EXCEPT ![f] = current_file]
      /\ UNCHANGED <<status, text>>
      /\ buffers' = Append(Front(buffers) \o <<[Top EXCEPT !.read = @ + 1]>>,
                           [file |-> f, read |-> 0])
  BY DEF zconf_nextfile, Opens
<1>2. ScanInv /\ ScanTyped /\ text \in Texts
  BY DEF SeenInv, ScanInv
<1>3. Straight
  BY <1>1, <1>2 DEF ScanInv, Round
<1>4. /\ L \in Nat \ {0} /\ Top = buffers[L] /\ Top.file = g /\ Top.read \in Nat
      /\ \A i \in 1 .. L : FileOf(i) \in Files
  BY <1>1, <1>2, Opened
<1>5. /\ Len(buffers') = L + 1
      /\ \A i \in 1 .. L : FileOf(i)' = FileOf(i)
      /\ \A i \in 1 .. L - 1 : buffers'[i] = buffers[i]
      /\ buffers'[L].read = k
      /\ buffers'[L + 1].file = f
  BY <1>1, <1>2, OneMore
<1>6. \A i \in 1 .. L + 1 : i = L + 1 => FileOf(i)' = f
  BY <1>5 DEF FileOf
<1>7. current_file = g /\ g \in Files /\ g \in Seen /\ g # None
  BY <1>1, <1>3, <1>4, FilesAssumption DEF Straight, FileIsRead, SeenInv
<1>8. k \in DOMAIN text[g] /\ text[g][k] = f /\ k \in Nat
  <2>1. text[g] \in Seq(Files)
    BY <1>2, <1>7 DEF ScanTyped
  <2>2. k \in 1 .. Len(text[g])
    BY <1>1, <1>4, <2>1
  <2> QED BY <1>1, <1>4, <2>1, <2>2
<1> HIDE DEF L, g, k
<1>9. f # Root
  BY <1>2, <1>7, <1>8 DEF EachFileOnce
<1>10. f \notin Seen
  <2> SUFFICES ASSUME f \in Seen PROVE FALSE
    OBVIOUS
  <2>1. parent[f] \in Seen
    BY <1>9 DEF SeenInv
  <2>2. PICK j \in DOMAIN text[parent[f]] :
          /\ text[parent[f]][j] = f
          /\ \A i \in 1 .. Len(buffers) :
               FileOf(i) = parent[f] => j <= buffers[i].read
    BY <1>9 DEF SeenInv
  <2>3. parent[f] \in Files
    BY <2>1, FilesAssumption DEF Seen
  <2>4. parent[f] = g /\ j = k
    BY <1>2, <1>7, <1>8, <2>2, <2>3 DEF EachFileOnce
  <2>5. L \in 1 .. Len(buffers)
    BY <1>4 DEF L
  <2>6. k <= Top.read
    BY <1>4, <2>2, <2>4, <2>5 DEF g
  <2> QED BY <1>4, <2>6 DEF k
<1>11. parent'[f] = g /\ \A h \in Files : h # f => parent'[h] = parent[h]
  BY <1>1, <1>2, <1>7 DEF ScanTyped
<1>12. Seen' = Seen \cup {f}
  BY <1>7, <1>11 DEF Seen
<1>13. \A i \in 1 .. L + 1 : i \in 1 .. L \/ i = L + 1
  BY <1>4
<1>14. \A i \in 1 .. Len(buffers') : FileOf(i)' \in Seen'
  BY <1>5, <1>6, <1>12, <1>13 DEF SeenInv, L
<1>15. ASSUME NEW h \in Seen' \ {Root}
       PROVE  /\ parent'[h] \in Seen'
              /\ \E j \in DOMAIN text[parent'[h]] :
                   /\ text[parent'[h]][j] = h
                   /\ \A i \in 1 .. Len(buffers') :
                        FileOf(i)' = parent'[h] => j <= buffers'[i].read
  <2>1. CASE h = f
    <3>1. ASSUME NEW i \in 1 .. L + 1, FileOf(i)' = g PROVE i = L
      <4>1. i # L + 1
        BY <1>6, <1>7, <1>10, <3>1
      <4>2. i \in 1 .. L /\ L \in 1 .. L /\ FileOf(i) = FileOf(L)
        BY <1>4, <1>5, <1>13, <3>1, <4>1 DEF g
      <4> QED BY <1>3, <4>2 DEF Straight, L
    <3>2. \A i \in 1 .. L + 1 : FileOf(i)' = g => k <= buffers'[i].read
      BY <1>5, <1>8, <3>1
    <3> QED BY <1>5, <1>7, <1>8, <1>11, <1>12, <2>1, <3>2
  <2>2. CASE h # f
    <3>1. h \in Seen \ {Root} /\ h \in Files /\ parent'[h] = parent[h]
      BY <1>11, <1>12, <2>2 DEF Seen
    <3>2. parent[h] \in Seen
      BY <3>1 DEF SeenInv
    <3>3. PICK j \in DOMAIN text[parent[h]] :
            /\ text[parent[h]][j] = h
            /\ \A i \in 1 .. L : FileOf(i) = parent[h] => j <= buffers[i].read
      BY <3>1 DEF SeenInv, L
    <3>4. j \in Nat
      <4>1. parent[h] \in Files
        BY <3>2, FilesAssumption DEF Seen
      <4> QED BY <1>2, <4>1 DEF ScanTyped
    <3>5. ASSUME NEW i \in 1 .. L + 1, FileOf(i)' = parent[h]
          PROVE  j <= buffers'[i].read
      <4>1. i # L + 1
        BY <1>6, <1>10, <3>2, <3>5
      <4>2. i \in 1 .. L /\ FileOf(i) = parent[h]
        BY <1>5, <1>13, <3>5, <4>1
      <4>3. CASE i = L
        BY <1>4, <1>5, <3>3, <3>4, <4>2, <4>3 DEF k
      <4>4. CASE i # L
        <5>1. i \in 1 .. L - 1
          BY <1>4, <4>2, <4>4
        <5> QED BY <1>5, <3>3, <4>2, <5>1
      <4> QED BY <4>3, <4>4
    <3> QED BY <1>5, <1>12, <3>1, <3>2, <3>3, <3>5
  <2> QED BY <2>1, <2>2
<1>16. ScanInv'
  BY <1>2, NextFileKeeps
<1>17. SeenInv'
  <2>1. text' = text
    BY <1>1
  <2> QED BY <1>2, <1>14, <1>15, <1>16, <2>1 DEF SeenInv
<1> QED BY <1>1, <1>4, <1>5, <1>6, <1>10, <1>12, <1>17 DEF L

(* A file ends.                                                            *)
LEMMA Ending ==
  ASSUME SeenInv, zconf_endfile
  PROVE  LET L == Len(buffers)
         IN  /\ L \in Nat \ {0} /\ Len(buffers') = L - 1
             /\ \A i \in 1 .. L - 1 : FileOf(i)' = FileOf(i)
             /\ Seen' = Seen /\ SeenInv'
<1> DEFINE L == Len(buffers)
<1>1. /\ buffers # <<>> /\ buffers' = Front(buffers)
      /\ UNCHANGED <<status, text, parent>>
  BY DEF zconf_endfile
<1>2. ScanInv /\ ScanTyped
  BY DEF SeenInv, ScanInv
<1>3. /\ L \in Nat \ {0} /\ Len(buffers') = L - 1
      /\ \A i \in 1 .. L - 1 : buffers'[i] = buffers[i]
  <2>1. buffers \in Seq([file : Files, read : Nat])
    BY <1>2 DEF ScanTyped
  <2> QED BY <1>1, <2>1, FrontAndLast
<1>4. /\ \A i \in 1 .. L - 1 : FileOf(i)' = FileOf(i) /\ i \in 1 .. L
      /\ Seen' = Seen
  BY <1>1, <1>3 DEF FileOf, Seen
<1>5. ScanInv'
  BY <1>2, EndFileKeeps
<1> HIDE DEF L
<1>6. \A i \in 1 .. Len(buffers') : FileOf(i)' \in Seen'
  BY <1>3, <1>4 DEF SeenInv, L
<1>7. ASSUME NEW f \in Seen \ {Root}
      PROVE  /\ parent[f] \in Seen
             /\ \E k \in DOMAIN text[parent[f]] :
                  /\ text[parent[f]][k] = f
                  /\ \A i \in 1 .. Len(buffers') :
                       FileOf(i)' = parent[f] => k <= buffers'[i].read
  <2>1. PICK k \in DOMAIN text[parent[f]] :
          /\ text[parent[f]][k] = f
          /\ \A i \in 1 .. L : FileOf(i) = parent[f] => k <= buffers[i].read
    BY DEF SeenInv, L
  <2>2. \A i \in 1 .. L - 1 : FileOf(i)' = parent[f] => k <= buffers'[i].read
    BY <1>3, <1>4, <2>1
  <2>3. parent[f] \in Seen
    BY DEF SeenInv
  <2> QED BY <1>3, <2>1, <2>2, <2>3
<1>8. text' = text /\ parent' = parent
  BY <1>1
<1> QED BY <1>3, <1>4, <1>5, <1>6, <1>7, <1>8 DEF SeenInv, L

(* An entry that a file was included from is of none of the files opened   *)
(* since, unless it is rootmenu; and more entries are around the current   *)
(* one than blocks are open, so that a block that ends is not rootmenu.    *)
Before(i, k) ==
  i = 1 \/ \A j \in k .. Len(buffers) : places[i].file # FileOf(j)

NestTyped ==
  /\ Nested(places) /\ current_menu \in DOMAIN places
  /\ blocks \in Seq(Kinds)
  /\ included \in Seq(Nat) /\ Len(included) = Len(buffers)

NestInv ==
  /\ SeenInv /\ NestTyped
  /\ \A i \in DOMAIN places : places[i].file \in Seen
  /\ Cardinality(Enclosing(current_menu, places)) > Len(blocks)
  /\ \A k \in 1 .. Len(included) :
       included[k] \in Enclosing(current_menu, places) /\ Before(included[k], k)

LEMMA NestAtFirst == NestingInit => NestInv
<1> SUFFICES ASSUME NestingInit PROVE NestInv
  OBVIOUS
<1>1. SeenInv /\ Root \in Files
  BY SeenAtFirst, FilesAssumption DEF NestingInit
<1>2. /\ places = <<Place(0, Root)>> /\ current_menu = 1 /\ blocks = <<>>
      /\ included = <<1>> /\ Len(buffers) = 1
  BY DEF NestingInit, ScanInit
<1>3. /\ Nested(places) /\ DOMAIN places = {1} /\ places[1].file = Root
  BY <1>1, <1>2 DEF Nested, Place
<1>4. Enclosing(1, places) = {1} /\ Cardinality(Enclosing(1, places)) = 1
  BY <1>3, EnclosingFirst, FS_Singleton
<1> QED BY <1>1, <1>2, <1>3, <1>4 DEF NestInv, NestTyped, Before, Seen

LEMMA CurrentSeen ==
  ASSUME SeenInv, Parses
  PROVE  /\ Len(buffers) \in Nat \ {0}
         /\ current_file = FileOf(Len(buffers)) /\ current_file \in Seen
         /\ current_file \in Files
<1>1. ScanTyped /\ buffers # <<>> /\ (Straight \/ Round)
  BY DEF SeenInv, ScanInv, Parses
<1>2. /\ Len(buffers) \in Nat \ {0} /\ Top.file = FileOf(Len(buffers))
      /\ \A i \in 1 .. Len(buffers) : FileOf(i) \in Files
  BY <1>1, Opened
<1>3. current_file = Top.file
  BY <1>1 DEF Parses, Straight, FileIsRead, Round
<1> QED BY <1>2, <1>3 DEF SeenInv

(* What does not move the scanner.                                         *)
LEMMA ScanStays ==
  ASSUME SeenInv, UNCHANGED scanner
  PROVE  /\ SeenInv' /\ Seen' = Seen /\ Len(buffers') = Len(buffers)
         /\ \A i \in 1 .. Len(buffers) : FileOf(i)' = FileOf(i)
<1>1. UNCHANGED <<status, text, current_file, parent, buffers>>
  BY DEF scanner
<1>2. ScanInv'
  BY ScanInductive DEF SeenInv
<1> QED BY <1>1, <1>2 DEF SeenInv, Seen, FileOf

LEMMA PlaceAdded ==
  ASSUME NestInv, AddPlace
  PROVE  LET n == Len(places) + 1
         IN  /\ Nested(places') /\ n \notin DOMAIN places
             /\ DOMAIN places' = DOMAIN places \cup {n}
             /\ places'[n].parent = current_menu /\ places'[n].file \in Seen
             /\ \A i \in DOMAIN places :
                  /\ places'[i] = places[i]
                  /\ Enclosing(i, places') = Enclosing(i, places)
             /\ Enclosing(n, places') =
                  {n} \cup Enclosing(current_menu, places)
             /\ Cardinality(Enclosing(n, places')) =
                  Cardinality(Enclosing(current_menu, places)) + 1
<1> DEFINE n == Len(places) + 1
           q == Append(places, Place(current_menu, current_file))
<1>1. /\ Nested(places) /\ current_menu \in DOMAIN places
      /\ places' = q /\ Parses
  BY DEF NestInv, NestTyped, AddPlace
<1>2. current_file \in Seen /\ current_file \in Files
  BY <1>1, CurrentSeen DEF NestInv
<1>3. /\ Nested(q) /\ Len(q) = n /\ q[n] = Place(current_menu, current_file)
      /\ \A i \in DOMAIN places :
           q[i] = places[i] /\ Enclosing(i, q) = Enclosing(i, places)
  BY <1>1, <1>2, EnclosingKept
<1> HIDE DEF q
<1>4. /\ DOMAIN places = 1 .. Len(places) /\ Len(places) \in Nat \ {0}
      /\ DOMAIN q = 1 .. n
  BY <1>1, <1>3, NestedDomain
<1>5. q[n].parent = current_menu /\ q[n].file = current_file
  BY <1>3 DEF Place
<1>6. n \in 2 .. Len(q) /\ n \in DOMAIN q /\ n # 1
  BY <1>3, <1>4
<1>7. Enclosing(n, q) = {n} \cup Enclosing(current_menu, places)
  BY <1>1, <1>3, <1>5, <1>6, EnclosingIs
<1>8. Cardinality(Enclosing(n, q)) =
        Cardinality(Enclosing(current_menu, places)) + 1
  BY <1>1, <1>3, <1>5, <1>6, EnclosingDepth
<1>9. n \notin DOMAIN places /\ DOMAIN q = DOMAIN places \cup {n}
  BY <1>4
<1> QED BY <1>1, <1>2, <1>3, <1>5, <1>7, <1>8, <1>9

(* As long as no file is opened or ended.                                  *)
LEMMA HereStays ==
  ASSUME NestInv, UNCHANGED <<scanner, included>>,
         \A i \in DOMAIN places : i \in DOMAIN places' /\ places'[i] = places[i],
         NEW k \in 1 .. Len(included)
  PROVE  /\ included'[k] \in DOMAIN places /\ included'[k] = included[k]
         /\ Before(included[k], k)'
<1>1. /\ included' = included /\ included[k] \in DOMAIN places
      /\ Before(included[k], k)
  BY DEF NestInv, Enclosing
<1>2. /\ Len(buffers') = Len(buffers) /\ Len(buffers) = Len(included)
      /\ \A j \in 1 .. Len(buffers) : FileOf(j)' = FileOf(j)
  BY ScanStays DEF NestInv, NestTyped
<1>3. \A j \in k .. Len(buffers) : j \in 1 .. Len(buffers)
  OBVIOUS
<1> QED BY <1>1, <1>2, <1>3 DEF Before

LEMMA AddEntryKeeps ==
  ASSUME NestInv, AddEntry
  PROVE  NestInv'
<1> DEFINE n == Len(places) + 1
<1>1. /\ AddPlace /\ UNCHANGED <<scanner, current_menu, blocks, included>>
  BY DEF AddEntry, AddPlace
<1>2. /\ Nested(places') /\ DOMAIN places' = DOMAIN places \cup {n}
      /\ places'[n].file \in Seen
      /\ \A i \in DOMAIN places :
           /\ places'[i] = places[i]
           /\ Enclosing(i, places') = Enclosing(i, places)
  BY <1>1, PlaceAdded
<1> HIDE DEF n
<1>3. SeenInv' /\ Seen' = Seen /\ Len(buffers') = Len(buffers)
  BY <1>1, ScanStays DEF NestInv
<1>4. current_menu \in DOMAIN places /\ NestTyped'
  BY <1>1, <1>2, <1>3 DEF NestInv, NestTyped
<1>5. ASSUME NEW k \in 1 .. Len(included)
      PROVE  /\ included[k] \in Enclosing(current_menu, places)
             /\ included'[k] = included[k] /\ Before(included[k], k)'
  BY <1>1, <1>2, HereStays DEF NestInv
<1> QED BY <1>1, <1>2, <1>3, <1>4, <1>5 DEF NestInv

LEMMA OpenBlockKeeps ==
  ASSUME NestInv, NEW kind \in Kinds, OpenBlock(kind)
  PROVE  NestInv'
<1> DEFINE n == Len(places) + 1
<1>1. /\ AddPlace /\ UNCHANGED <<scanner, included>>
      /\ current_menu' = n /\ blocks' = Append(blocks, kind)
  BY DEF OpenBlock, AddPlace
<1>2. /\ Nested(places') /\ DOMAIN places' = DOMAIN places \cup {n}
      /\ places'[n].file \in Seen
      /\ \A i \in DOMAIN places : places'[i] = places[i]
      /\ Enclosing(n, places') = {n} \cup Enclosing(current_menu, places)
      /\ Cardinality(Enclosing(n, places')) =
           Cardinality(Enclosing(current_menu, places)) + 1
  BY <1>1, PlaceAdded
<1>3. /\ current_menu \in DOMAIN places /\ Nested(places)
      /\ blocks \in Seq(Kinds)
      /\ Cardinality(Enclosing(current_menu, places)) > Len(blocks)
  BY DEF NestInv, NestTyped
<1>4. Cardinality(Enclosing(current_menu, places)) \in Nat
  BY <1>3, EnclosingDepth
<1> HIDE DEF n
<1>5. SeenInv' /\ Seen' = Seen /\ Len(buffers') = Len(buffers)
  BY <1>1, ScanStays DEF NestInv
<1>6. blocks' \in Seq(Kinds) /\ Len(blocks') = Len(blocks) + 1
  BY <1>1, <1>3
<1>7. NestTyped'
  BY <1>1, <1>2, <1>5, <1>6 DEF NestInv, NestTyped
<1>8. ASSUME NEW k \in 1 .. Len(included)
      PROVE  /\ included[k] \in Enclosing(n, places')
             /\ included'[k] = included[k] /\ Before(included[k], k)'
  BY <1>1, <1>2, HereStays DEF NestInv
<1>9. Cardinality(Enclosing(n, places')) > Len(blocks')
  BY <1>2, <1>3, <1>4, <1>6
<1> QED BY <1>1, <1>2, <1>5, <1>7, <1>8, <1>9 DEF NestInv

LEMMA EndBlockKeeps ==
  ASSUME NestInv, EndBlock
  PROVE  NestInv'
<1> DEFINE cm == current_menu
           u == places[cm].parent
<1>1. /\ Parses /\ blocks # <<>> /\ blocks' = Front(blocks)
      /\ UNCHANGED <<scanner, places, included>>
      /\ \/ UNCHANGED current_menu
         \/ current_menu' = u /\ places[cm].file = current_file
  BY DEF EndBlock, menu_end_menu
<1>2. /\ cm \in DOMAIN places /\ Nested(places) /\ blocks \in Seq(Kinds)
      /\ Len(included) = Len(buffers)
      /\ Cardinality(Enclosing(cm, places)) > Len(blocks)
  BY DEF NestInv, NestTyped
<1>3. /\ blocks' \in Seq(Kinds) /\ Len(blocks) \in Nat \ {0}
      /\ Len(blocks') = Len(blocks) - 1
  BY <1>1, <1>2, FrontAndLast
<1>4. /\ Cardinality(Enclosing(cm, places)) \in Nat /\ cm # 1
      /\ u \in DOMAIN places
      /\ Cardinality(Enclosing(cm, places)) =
           Cardinality(Enclosing(u, places)) + 1
      /\ Cardinality(Enclosing(u, places)) \in Nat
  BY <1>2, <1>3, EnclosingDepth
<1>5. SeenInv' /\ Seen' = Seen /\ Len(buffers') = Len(buffers)
  BY <1>1, ScanStays DEF NestInv
<1>6. current_menu' \in DOMAIN places /\ NestTyped'
  BY <1>1, <1>2, <1>3, <1>4, <1>5 DEF NestInv, NestTyped
<1>7. Cardinality(Enclosing(current_menu', places)) > Len(blocks')
  BY <1>1, <1>2, <1>3, <1>4
<1>8. ASSUME NEW k \in 1 .. Len(included)
      PROVE  /\ included[k] \in Enclosing(current_menu', places)
             /\ included'[k] = included[k] /\ Before(included[k], k)'
  <2>1. /\ included[k] \in Enclosing(cm, places) /\ Before(included[k], k)
        /\ included'[k] = included[k] /\ Before(included[k], k)'
    BY <1>1, HereStays DEF NestInv
  <2>2. CASE current_menu' = u /\ places[cm].file = current_file
    <3>1. CASE included[k] = 1
      BY <1>2, <1>4, <2>1, <2>2, <3>1, EnclosingRoot
    <3>2. CASE included[k] # 1
      <4>1. /\ current_file = FileOf(Len(buffers))
            /\ Len(buffers) \in k .. Len(buffers)
        BY <1>1, <1>2, CurrentSeen DEF NestInv
      <4>2. included[k] # cm
        BY <2>1, <2>2, <3>2, <4>1 DEF Before
      <4>3. cm \in 2 .. Len(places)
        BY <1>2, <1>4, NestedDomain
      <4>4. Enclosing(cm, places) = {cm} \cup Enclosing(u, places)
        BY <1>2, <4>3, EnclosingIs
      <4> QED BY <2>1, <2>2, <4>2, <4>4
    <3> QED BY <3>1, <3>2
  <2> QED BY <1>1, <2>1, <2>2
<1> HIDE DEF u, cm
<1> QED BY <1>1, <1>5, <1>6, <1>7, <1>8 DEF NestInv

LEMMA SourceKeeps ==
  ASSUME EachFileOnce, NestInv, Source
  PROVE  NestInv'
<1>1. PICK f \in Files : zconf_nextfile(f)
  BY DEF Source
<1>2. /\ UNCHANGED <<places, current_menu, blocks>>
      /\ included' = IF status' = "exited" THEN included
                     ELSE Append(included, current_menu)
  BY DEF Source
<1>3. /\ NestTyped /\ SeenInv /\ ScanInv
      /\ \A k \in 1 .. Len(included) :
           /\ included[k] \in Enclosing(current_menu, places)
           /\ included[k] \in DOMAIN places /\ Before(included[k], k)
  BY DEF NestInv, SeenInv, Enclosing
<1>4. CASE Exit
  <2>1. /\ status' = "exited" /\ included' = included
        /\ UNCHANGED <<text, current_file, parent, buffers>>
    BY <1>2, <1>4 DEF Exit
  <2>2. ScanInv'
    BY <1>1, <1>3, NextFileKeeps
  <2>3. SeenInv' /\ NestTyped' /\ Seen' = Seen
    BY <1>2, <1>3, <2>1, <2>2 DEF SeenInv, Seen, FileOf, NestTyped
  <2> QED BY <1>2, <2>1, <2>3 DEF NestInv, Before, FileOf
<1>5. CASE ~ Exit
  <2> DEFINE L == Len(buffers)
  <2>1. /\ f \notin Seen /\ Seen' = Seen \cup {f}
        /\ L \in Nat \ {0} /\ Len(buffers') = L + 1
        /\ \A i \in 1 .. L : FileOf(i)' = FileOf(i)
        /\ buffers'[L + 1].file = f
        /\ SeenInv' /\ status' = "reading"
    BY <1>1, <1>3, <1>5, Opening
  <2>2. Len(included) = L /\ included \in Seq(Nat) /\ current_menu \in Nat
    BY <1>3, NestedDomain DEF NestTyped
  <2> HIDE DEF L
  <2>3. /\ included' = Append(included, current_menu)
        /\ included' \in Seq(Nat) /\ Len(included') = L + 1
        /\ \A k \in 1 .. L : included'[k] = included[k]
        /\ included'[L + 1] = current_menu
    BY <1>2, <2>1, <2>2
  <2>4. NestTyped'
    BY <1>2, <1>3, <2>1, <2>3 DEF NestTyped
  <2>5. ASSUME NEW k \in 1 .. L + 1
        PROVE  /\ included'[k] \in Enclosing(current_menu, places)
               /\ included'[k] = 1 \/ \A j \in k .. L + 1 :
                    places[included'[k]].file # buffers'[j].file
    <3>1. \A i \in DOMAIN places : places[i].file # f
      BY <2>1 DEF NestInv
    <3>2. CASE k = L + 1
      <4>1. current_menu \in DOMAIN places
        BY <1>3 DEF NestTyped
      <4>2. current_menu \in Enclosing(current_menu, places)
        BY <4>1 DEF Enclosing
      <4>3. \A j \in k .. L + 1 : j = L + 1
        BY <2>1, <3>2
      <4> QED BY <2>1, <2>3, <3>1, <3>2, <4>1, <4>2, <4>3
    <3>3. CASE k # L + 1
      <4>1. k \in 1 .. L
        BY <2>1, <3>3
      <4>2. /\ included'[k] = included[k] /\ included[k] \in DOMAIN places
            /\ included[k] \in Enclosing(current_menu, places)
            /\ included[k] = 1 \/ \A j \in k .. L :
                                    places[included[k]].file # FileOf(j)
        BY <1>3, <2>2, <2>3, <4>1 DEF Before, L
      <4>3. \A j \in k .. L + 1 : j = L + 1 \/ (j \in k .. L /\ j \in 1 .. L)
        <5>1. L \in Nat /\ k \in Nat /\ 1 <= k /\ k <= L
          BY <2>1, <4>1
        <5> QED BY <5>1
      <4>4. \A j \in 1 .. L : buffers'[j].file = FileOf(j)
        BY <2>1 DEF FileOf
      <4> QED BY <2>1, <3>1, <4>2, <4>3, <4>4
    <3> QED BY <3>2, <3>3
  <2>6. \A k \in 1 .. Len(included') : Before(included[k], k)'
    BY <1>2, <2>1, <2>3, <2>5 DEF Before, FileOf
  <2> QED BY <1>2, <2>1, <2>3, <2>4, <2>5, <2>6 DEF NestInv
<1> QED BY <1>4, <1>5

LEMMA EndSourceKeeps ==
  ASSUME NestInv, EndSource
  PROVE  NestInv'
<1> DEFINE L == Len(buffers)
<1>1. /\ zconf_endfile /\ included' = Front(included)
      /\ UNCHANGED <<places, current_menu, blocks>>
  BY DEF EndSource
<1>2. /\ NestTyped /\ SeenInv
      /\ \A k \in 1 .. Len(included) :
           included[k] \in Enclosing(current_menu, places) /\ Before(included[k], k)
  BY DEF NestInv
<1>3. /\ L \in Nat \ {0} /\ Len(buffers') = L - 1
      /\ \A i \in 1 .. L - 1 : FileOf(i)' = FileOf(i)
      /\ Seen' = Seen /\ SeenInv'
  BY <1>1, <1>2, Ending
<1>4. Len(included) = L /\ included \in Seq(Nat)
  BY <1>2 DEF NestTyped
<1> HIDE DEF L
<1>5. /\ included' \in Seq(Nat) /\ Len(included') = L - 1
      /\ \A k \in 1 .. L - 1 : included'[k] = included[k]
  <2>1. included # <<>>
    BY <1>3, <1>4
  <2> QED BY <1>1, <1>4, <2>1, FrontAndLast
<1>6. NestTyped'
  BY <1>1, <1>2, <1>3, <1>5 DEF NestTyped
<1>7. ASSUME NEW k \in 1 .. Len(included')
      PROVE  /\ included'[k] \in Enclosing(current_menu, places)
             /\ Before(included[k], k)'
  <2>1. k \in 1 .. L - 1 /\ k \in 1 .. Len(included)
    BY <1>3, <1>4, <1>5
  <2>2. \A j \in k .. L - 1 : j \in 1 .. L - 1 /\ j \in k .. L
    BY <1>3, <2>1
  <2>3. /\ included[k] \in Enclosing(current_menu, places)
        /\ included[k] = 1 \/ \A j \in k .. L :
                                places[included[k]].file # FileOf(j)
    BY <1>2, <2>1 DEF Before, L
  <2> QED BY <1>1, <1>3, <1>5, <2>1, <2>2, <2>3 DEF Before
<1> QED BY <1>1, <1>3, <1>5, <1>6, <1>7 DEF NestInv

LEMMA NestInductive ==
  ASSUME EachFileOnce, NestInv, [NestingNext]_<<scanner, nesting>>
  PROVE  NestInv'
<1>1. CASE AddEntry
  BY <1>1, AddEntryKeeps
<1>2. CASE \E kind \in Kinds : OpenBlock(kind)
  BY <1>2, OpenBlockKeeps
<1>3. CASE EndBlock
  BY <1>3, EndBlockKeeps
<1>4. CASE Source
  BY <1>4, SourceKeeps
<1>5. CASE EndSource
  BY <1>5, EndSourceKeeps
<1>6. CASE EndOfInput \/ Refuse \/ UNCHANGED <<scanner, nesting>>
  <2>1. /\ UNCHANGED <<text, current_file, parent, buffers, nesting>>
        /\ status' # "reading" \/ UNCHANGED scanner
    BY <1>6 DEF EndOfInput, ScanEnd, Refuse, scanner
  <2>2. UNCHANGED <<places, current_menu, blocks, included>>
    BY <2>1 DEF nesting
  <2>3. ScanInv'
    <3>1. CASE UNCHANGED scanner
      BY <3>1, ScanInductive DEF NestInv, SeenInv
    <3>2. CASE status' # "reading"
      BY <2>1, <3>2 DEF NestInv, SeenInv, ScanInv, ScanTyped
    <3> QED BY <2>1, <3>1, <3>2
  <2>4. SeenInv' /\ Seen' = Seen
    BY <2>1, <2>3 DEF NestInv, SeenInv, Seen, FileOf
  <2> QED BY <2>1, <2>2, <2>4 DEF NestInv, NestTyped, Before, FileOf
<1> QED BY <1>1, <1>2, <1>3, <1>4, <1>5, <1>6 DEF NestingNext

(* Wherever statements stand and whatever blocks they begin and end, as    *)
(* long as each file is included from one place: no end statement of an    *)
(* included file ends a block that was begun before it was included        *)
(* (zconf.tab.c:2321-2330), for the file it was begun in is another.       *)
THEOREM IncludedStays ==
  ASSUME EachFileOnce
  PROVE  NestingSpec => []IncludedStaysInside
<1>1. NestInv => IncludedStaysInside
  <2> SUFFICES ASSUME NestInv, NEW i \in ToSet(included)
               PROVE  i \in Enclosing(current_menu, places)
    BY DEF IncludedStaysInside
  <2>1. PICK k \in DOMAIN included : i = included[k]
    BY DEF ToSet
  <2> QED BY <2>1 DEF NestInv, NestTyped
<1>2. NestInv /\ [NestingNext]_<<scanner, nesting>> => NestInv'
  BY NestInductive
<1> QED BY <1>1, <1>2, NestAtFirst, PTL DEF NestingSpec
-----------------------------------------------------------------------------

(* Expressions.  T is the set of the finite trees; V, Y, F, C and D say of *)
(* each tree what calculating, simplifying, transforming and comparing it  *)
(* gives, as the recursive definitions of KconfigExpr do: of a tree's node *)
(* by what they say of its operands.  What is shown for all trees is shown *)
(* by their weight.                                                        *)

Names == DOMAIN SymbolType \cup Consts

Leaf(e) ==
  \/ \E s \in Names : \E lender \in Nat : e = Borrowed(s, lender)
  \/ \E s, v \in Names : e = Equal(s, v) \/ e = Unequal(s, v)

(* T is the set of all trees; the weight of a tree goes down with every    *)
(* call that expr_transform makes.                                         *)
Trees(T, weight) ==
  /\ \A e : Leaf(e) => e \in T
  /\ \A a \in T : Not(a) \in T
  /\ \A type \in Operators, a, b \in T : <<type, a, b>> \in T
  /\ \A e \in T : \/ Leaf(e)
                  \/ \E a \in T : e = Not(a)
                  \/ \E type \in Operators, a, b \in T : e = <<type, a, b>>
  /\ \A e \in T : weight[e] \in Nat \ {0}
  /\ \A e \in T : Leaf(e) => weight[e] = IF Op(e) \in Comparisons THEN 2 ELSE 1
  /\ \A a \in T : weight[Not(a)] = 2 * weight[a]
  /\ \A type \in Operators, a, b \in T :
       weight[<<type, a, b>>] = weight[a] + weight[b] + 1

LEMMA Lighter ==
  ASSUME NEW T, NEW weight, Trees(T, weight)
  PROVE  /\ \A a \in T : Not(a) \in T /\ weight[a] < weight[Not(a)]
         /\ \A type \in Operators, a, b \in T :
              /\ <<type, a, b>> \in T
              /\ weight[a] < weight[<<type, a, b>>]
              /\ weight[b] < weight[<<type, a, b>>]
<1>1. \A a \in T : weight[a] \in Nat \ {0}
  BY DEF Trees
<1>2. \A a \in T : Not(a) \in T /\ weight[Not(a)] = 2 * weight[a]
  BY DEF Trees
<1>3. \A type \in Operators, a, b \in T :
        /\ <<type, a, b>> \in T
        /\ weight[<<type, a, b>>] = weight[a] + weight[b] + 1
  BY DEF Trees
<1> QED BY <1>1, <1>2, <1>3

(* What holds of a tree if it holds of all lighter ones holds of all.      *)
LEMMA ByWeight ==
  ASSUME NEW T, NEW weight, Trees(T, weight), NEW S,
         \A e \in T : (\A d \in T : weight[d] < weight[e] => d \in S) => e \in S
  PROVE  T \subseteq S
<1> SUFFICES ASSUME NEW x \in T, x \notin S PROVE FALSE
  OBVIOUS
<1> DEFINE A == {weight[e] : e \in T \ S}
<1>1. A \in SUBSET Nat /\ A # {}
  BY DEF Trees
<1>2. PICK n \in A : \A m \in A : n <= m
  BY <1>1, LeastNumber
<1>3. PICK e \in T \ S : n = weight[e]
  BY <1>2
<1>4. ASSUME NEW d \in T, weight[d] < weight[e] PROVE d \in S
  <2>1. weight[d] \in Nat /\ weight[e] \in Nat
    BY DEF Trees
  <2>2. d \notin S => weight[e] <= weight[d]
    BY <1>2, <1>3
  <2> QED BY <1>4, <2>1, <2>2
<1> QED BY <1>3, <1>4

LEMMA MinMaxOfTwo ==
  ASSUME NEW a \in Int, NEW b \in Int
  PROVE  /\ Min({a, b}) = IF a <= b THEN a ELSE b
         /\ Max({a, b}) = IF a <= b THEN b ELSE a
<1>1. \A x \in {a, b} :
        (\A y \in {a, b} : x <= y) <=> x = IF a <= b THEN a ELSE b
  OBVIOUS
<1>2. \A x \in {a, b} :
        (\A y \in {a, b} : x >= y) <=> x = IF a <= b THEN b ELSE a
  OBVIOUS
<1> QED BY <1>1, <1>2 DEF Min, Max

(* V has the values of all trees (expr_calc_value).                        *)
Valuation(V, T, values) ==
  \A e \in T : V[e] = CalcValue(values, e, V)

(* What a symbol may be worth.                                             *)
LEMMA ValueIs ==
  ASSUME NEW values \in Values, NEW s \in Names
  PROVE  /\ ValueOf(values, s) \in 0 .. 2
         /\ s \in DOMAIN SymbolType => ValueOf(values, s) = values[s]
         /\ TypeOf(s) = "bool" => ValueOf(values, s) # 1
         /\ ValueOf(values, "n") = 0 /\ ValueOf(values, "m") = 1
         /\ ValueOf(values, "y") = 2
<1>1. ValueOf(values, "n") = 0 /\ ValueOf(values, "m") = 1
      /\ ValueOf(values, "y") = 2
  BY DEF ValueOf
<1>2. CASE s \in DOMAIN SymbolType
  <2>1. s # "n" /\ s # "m" /\ s # "y"
    BY <1>2, SymbolsAssumption DEF Consts
  <2>2. ValueOf(values, s) = values[s]
    BY <2>1 DEF ValueOf
  <2> QED BY <1>1, <1>2, <2>2 DEF Values, TypeOf
<1>3. CASE s \notin DOMAIN SymbolType
  BY <1>1, <1>3 DEF Names, Consts, TypeOf
<1> QED BY <1>2, <1>3

(* The value of each kind of tree, one by one.                             *)
LEMMA NodeValues ==
  ASSUME NEW T, NEW weight, Trees(T, weight), NEW values \in Values,
         NEW V, Valuation(V, T, values)
  PROVE  /\ \A s \in Names, lender \in Nat :
              V[Borrowed(s, lender)] = ValueOf(values, s)
         /\ \A s, v \in Names :
              /\ V[Equal(s, v)] =
                   IF ValueOf(values, s) = ValueOf(values, v) THEN 2 ELSE 0
              /\ V[Unequal(s, v)] =
                   IF ValueOf(values, s) = ValueOf(values, v) THEN 0 ELSE 2
         /\ \A a \in T : V[Not(a)] = 2 - V[a]
<1>2. ASSUME NEW s \in Names, NEW lender \in Nat
      PROVE  V[Borrowed(s, lender)] = ValueOf(values, s)
  <2>1. Borrowed(s, lender) \in T
    BY DEF Trees, Leaf
  <2> QED BY <2>1 DEF Valuation, CalcValue, Borrowed, NULL, Op
<1>3. ASSUME NEW s \in Names, NEW v \in Names
      PROVE  /\ V[Equal(s, v)] =
                  IF ValueOf(values, s) = ValueOf(values, v) THEN 2 ELSE 0
             /\ V[Unequal(s, v)] =
                  IF ValueOf(values, s) = ValueOf(values, v) THEN 0 ELSE 2
  <2>1. Equal(s, v) \in T /\ Unequal(s, v) \in T
    BY DEF Trees, Leaf
  <2> QED BY <2>1 DEF Valuation, CalcValue, Equal, Unequal, NULL, Op, Same
<1>4. ASSUME NEW a \in T PROVE V[Not(a)] = 2 - V[a]
  <2>1. Not(a) \in T
    BY DEF Trees
  <2> QED BY <2>1 DEF Valuation, CalcValue, Not, NULL, Op
<1> QED BY <1>2, <1>3, <1>4

(* Values are n, m or y; an and is the least, an or the greatest.          *)
LEMMA ValuesTyped ==
  ASSUME NEW T, NEW weight, Trees(T, weight), NEW values \in Values,
         NEW V, Valuation(V, T, values)
  PROVE  /\ \A e \in T : V[e] \in 0 .. 2
         /\ \A a, b \in T :
              /\ V[<<"and", a, b>>] = IF V[a] <= V[b] THEN V[a] ELSE V[b]
              /\ V[<<"or", a, b>>] = IF V[a] <= V[b] THEN V[b] ELSE V[a]
<1>0. ASSUME NEW a \in T, NEW b \in T
      PROVE  /\ V[<<"and", a, b>>] = Min({V[a], V[b]})
             /\ V[<<"or", a, b>>] = Max({V[a], V[b]})
  <2>1. <<"and", a, b>> \in T /\ <<"or", a, b>> \in T
    BY DEF Trees, Operators
  <2> QED BY <2>1 DEF Valuation, CalcValue, NULL, Op
<1> DEFINE S == {e \in T : V[e] \in 0 .. 2}
<1>1. ASSUME NEW e \in T, \A d \in T : weight[d] < weight[e] => d \in S
      PROVE  e \in S
  <2>1. CASE Leaf(e)
    <3>1. \A s \in Names : ValueOf(values, s) \in 0 .. 2
      BY ValueIs
    <3> QED BY <2>1, <3>1, NodeValues DEF Leaf
  <2>2. ASSUME NEW a \in T, e = Not(a) PROVE e \in S
    <3>1. V[a] \in 0 .. 2
      BY <1>1, <2>2, Lighter
    <3>2. V[e] = 2 - V[a]
      BY <2>2, NodeValues
    <3> QED BY <3>1, <3>2
  <2>3. ASSUME NEW type \in Operators, NEW a \in T, NEW b \in T,
               e = <<type, a, b>>
        PROVE  e \in S
    <3>1. V[a] \in 0 .. 2 /\ V[b] \in 0 .. 2
      BY <1>1, <2>3, Lighter
    <3>2. Min({V[a], V[b]}) \in {V[a], V[b]} /\ Max({V[a], V[b]}) \in {V[a], V[b]}
      BY <3>1, MinMaxOfTwo
    <3>3. CASE type = "and"
      <4>1. V[e] = Min({V[a], V[b]})
        BY <1>0, <2>3, <3>3
      <4> QED BY <3>1, <3>2, <4>1
    <3>4. CASE type = "or"
      <4>1. V[e] = Max({V[a], V[b]})
        BY <1>0, <2>3, <3>4
      <4> QED BY <3>1, <3>2, <4>1
    <3> QED BY <3>3, <3>4 DEF Operators
  <2> QED BY <2>1, <2>2, <2>3 DEF Trees
<1>2. T \subseteq S
  <2> HIDE DEF S
  <2> QED BY <1>1, ByWeight
<1>3. ASSUME NEW a \in T, NEW b \in T
      PROVE  /\ V[<<"and", a, b>>] = IF V[a] <= V[b] THEN V[a] ELSE V[b]
             /\ V[<<"or", a, b>>] = IF V[a] <= V[b] THEN V[b] ELSE V[a]
  <2>1. V[a] \in Int /\ V[b] \in Int
    BY <1>2
  <2>2. /\ V[<<"and", a, b>>] = Min({V[a], V[b]})
        /\ V[<<"or", a, b>>] = Max({V[a], V[b]})
    BY <1>0
  <2> QED BY <2>1, <2>2, MinMaxOfTwo
<1> QED BY <1>2, <1>3

(* The name in a leaf.                                                     *)
LEMMA LeafNames ==
  ASSUME NEW T, NEW weight, Trees(T, weight), NEW e \in T
  PROVE  /\ Op(e) = "symbol" => e[2] \in Names /\ e = Borrowed(e[2], e[3])
                                /\ e[3] \in Nat
         /\ Op(e) = "equal" => e[2] \in Names /\ e[3] \in Names
                               /\ e = Equal(e[2], e[3])
         /\ Op(e) = "unequal" => e[2] \in Names /\ e[3] \in Names
                                 /\ e = Unequal(e[2], e[3])
         /\ Op(e) = "not" => e[2] \in T /\ e = Not(e[2])
         /\ Op(e) \in Operators => e[2] \in T /\ e[3] \in T
                                   /\ e = <<Op(e), e[2], e[3]>>
         /\ Op(e) \in {"symbol", "equal", "unequal", "not", "and", "or"}
<1>1. CASE Leaf(e)
  BY <1>1 DEF Leaf, Borrowed, Equal, Unequal, Op, Operators
<1>2. ASSUME NEW a \in T, e = Not(a) PROVE Op(e) = "not" /\ e[2] = a
  BY <1>2 DEF Not, Op
<1>3. ASSUME NEW type \in Operators, NEW a \in T, NEW b \in T,
             e = <<type, a, b>>
      PROVE  Op(e) = type /\ e[2] = a /\ e[3] = b
  BY <1>3 DEF Op
<1> QED BY <1>1, <1>2, <1>3 DEF Trees, Operators

(* The value of a tree that has this at its root.                          *)
LEMMA ValueOfTree ==
  ASSUME NEW T, NEW weight, Trees(T, weight), NEW values \in Values,
         NEW V, Valuation(V, T, values), NEW e \in T
  PROVE  /\ V[e] \in 0 .. 2
         /\ Op(e) = "symbol" => V[e] = ValueOf(values, e[2])
         /\ Op(e) = "equal" => V[e] =
              IF ValueOf(values, e[2]) = ValueOf(values, e[3]) THEN 2 ELSE 0
         /\ Op(e) = "unequal" => V[e] =
              IF ValueOf(values, e[2]) = ValueOf(values, e[3]) THEN 0 ELSE 2
         /\ Op(e) = "not" => V[e] = 2 - V[e[2]]
         /\ Op(e) = "and" =>
              V[e] = IF V[e[2]] <= V[e[3]] THEN V[e[2]] ELSE V[e[3]]
         /\ Op(e) = "or" =>
              V[e] = IF V[e[2]] <= V[e[3]] THEN V[e[3]] ELSE V[e[2]]
<1>0. /\ \A c \in T : V[c] \in 0 .. 2
      /\ \A c, d \in T :
           /\ V[<<"and", c, d>>] = IF V[c] <= V[d] THEN V[c] ELSE V[d]
           /\ V[<<"or", c, d>>] = IF V[c] <= V[d] THEN V[d] ELSE V[c]
  BY ValuesTyped
<1>1. V[e] \in 0 .. 2
  BY <1>0
<1>2. /\ Op(e) = "symbol" => V[e] = ValueOf(values, e[2])
      /\ Op(e) = "equal" => V[e] =
           IF ValueOf(values, e[2]) = ValueOf(values, e[3]) THEN 2 ELSE 0
      /\ Op(e) = "unequal" => V[e] =
           IF ValueOf(values, e[2]) = ValueOf(values, e[3]) THEN 0 ELSE 2
      /\ Op(e) = "not" => V[e] = 2 - V[e[2]]
  BY LeafNames, NodeValues
<1>3. ASSUME Op(e) = "and"
      PROVE  V[e] = IF V[e[2]] <= V[e[3]] THEN V[e[2]]
                                          ELSE V[e[3]]
  <2>1. PICK a, b : a \in T /\ b \in T /\ a = e[2] /\ b = e[3]
                    /\ e = <<"and", a, b>>
    BY <1>3, LeafNames DEF Operators
  <2>2. V[<<"and", a, b>>] = IF V[a] <= V[b] THEN V[a] ELSE V[b]
    BY <1>0, <2>1
  <2> QED BY <2>1, <2>2
<1>4. ASSUME Op(e) = "or"
      PROVE  V[e] = IF V[e[2]] <= V[e[3]] THEN V[e[3]]
                                          ELSE V[e[2]]
  <2>1. PICK a, b : a \in T /\ b \in T /\ a = e[2] /\ b = e[3]
                    /\ e = <<"or", a, b>>
    BY <1>4, LeafNames DEF Operators
  <2>2. V[<<"or", a, b>>] = IF V[a] <= V[b] THEN V[b] ELSE V[a]
    BY <1>0, <2>1
  <2> QED BY <2>1, <2>2
<1> QED BY <1>1, <1>2, <1>3, <1>4

(* The trees that rules make.                                              *)
LEMMA Made ==
  ASSUME NEW T, NEW weight, Trees(T, weight)
  PROVE  /\ \A s \in Names : Symbol(s) \in T /\ Op(Symbol(s)) = "symbol"
                             /\ Symbol(s)[2] = s
         /\ \A s, v \in Names :
              /\ Equal(s, v) \in T /\ Op(Equal(s, v)) = "equal"
              /\ Equal(s, v)[2] = s /\ Equal(s, v)[3] = v
              /\ Unequal(s, v) \in T /\ Op(Unequal(s, v)) = "unequal"
              /\ Unequal(s, v)[2] = s /\ Unequal(s, v)[3] = v
         /\ \A a \in T : Not(a) \in T /\ Op(Not(a)) = "not" /\ Not(a)[2] = a
         /\ \A type \in Operators, a, b \in T :
              /\ <<type, a, b>> \in T /\ Op(<<type, a, b>>) = type
              /\ <<type, a, b>>[2] = a /\ <<type, a, b>>[3] = b
         /\ {"y", "m", "n"} \subseteq Names
<1>1. ASSUME NEW s \in Names PROVE Symbol(s) \in T
  <2>1. Symbol(s) = Borrowed(s, 0)
    BY DEF Symbol, Borrowed
  <2> QED BY <2>1 DEF Trees, Leaf
<1>2. ASSUME NEW s \in Names, NEW v \in Names
      PROVE  Equal(s, v) \in T /\ Unequal(s, v) \in T
  BY DEF Trees, Leaf
<1> QED BY <1>1, <1>2 DEF Trees, Symbol, Equal, Unequal, Not, Op, Names, Consts

-----------------------------------------------------------------------------
(* Operands that are one.                                                  *)

(* Of three constants one is left.                                         *)
LEMMA OneLeft ==
  ASSUME NEW v \in Consts, NEW w \in Consts, v # w
  PROVE  LET u == CHOOSE x \in Consts \ {v, w} : TRUE
         IN  u \in Consts /\ u # v /\ u # w /\ Consts = {u, v, w}
<1>1. Consts \ {v, w} # {}
  BY DEF Consts
<1> QED BY <1>1 DEF Consts

LEMMA ConstValues ==
  ASSUME NEW values \in Values, NEW v \in Consts, NEW w \in Consts
  PROVE  /\ ValueOf(values, v) \in 0 .. 2
         /\ (ValueOf(values, v) = ValueOf(values, w)) <=> v = w
BY DEF Consts, ValueOf

(* For all symbols and values: two different operands of an or that are    *)
(* made one (expr_join_or, expr.c:346-407: a='x' || a='y' becomes a!='z',  *)
(* a || !a of a bool becomes y) have the value that they had together.     *)
THEOREM JoinedOr ==
  ASSUME NEW T, NEW weight, Trees(T, weight), NEW values \in Values,
         NEW V, Valuation(V, T, values),
         NEW a \in T, NEW b \in T, a # b, SameSubject(a, b),
         expr_join_or(a, b) # NULL
  PROVE  /\ expr_join_or(a, b) \in T
         /\ V[expr_join_or(a, b)] = V[<<"or", a, b>>]
<1>0. /\ \A c \in T : V[c] \in 0 .. 2
      /\ \A c, d \in T :
           /\ V[<<"and", c, d>>] = IF V[c] <= V[d] THEN V[c] ELSE V[d]
           /\ V[<<"or", c, d>>] = IF V[c] <= V[d] THEN V[d] ELSE V[c]
  BY ValuesTyped
<1> DEFINE s == Subject(a)
           or == <<"or", a, b>>
<1>1. /\ or \in T /\ V[a] \in 0 .. 2 /\ V[b] \in 0 .. 2
      /\ V[or] = IF V[a] <= V[b] THEN V[b] ELSE V[a]
  <2>1. or \in T
    BY DEF Trees, Operators
  <2>2. V[a] \in 0 .. 2 /\ V[b] \in 0 .. 2
    BY <1>0
  <2>3. V[<<"or", a, b>>] = IF V[a] <= V[b] THEN V[b] ELSE V[a]
    BY <1>0
  <2> QED BY <2>1, <2>2, <2>3
<1>2. CASE /\ TypeOf(s) = "tristate" /\ Are(a, b, "equal", "equal")
           /\ {a[3], b[3]} \subseteq Consts
  <2> DEFINE u == CHOOSE x \in Consts \ {a[3], b[3]} : TRUE
  <2>1. expr_join_or(a, b) = Unequal(s, u)
    BY <1>2 DEF expr_join_or
  <2>2. a = Equal(s, a[3]) /\ b = Equal(s, b[3]) /\ s \in Names
    BY <1>2, LeafNames DEF Are, SameSubject, Subject
  <2>3. u \in Consts /\ u # a[3] /\ u # b[3] /\ Consts = {u, a[3], b[3]}
    BY <1>2, <2>2, OneLeft
  <2> HIDE DEF u
  <2> DEFINE k == ValueOf(values, s)
             A == ValueOf(values, a[3])
             B == ValueOf(values, b[3])
             U == ValueOf(values, u)
  <2>4. Unequal(s, u) \in T /\ u \in Names /\ a[3] \in Names /\ b[3] \in Names
    BY <1>2, <2>2, <2>3, Made DEF Names
  <2>5. /\ V[a] = IF k = A THEN 2 ELSE 0
        /\ V[b] = IF k = B THEN 2 ELSE 0
        /\ V[Unequal(s, u)] = IF k = U THEN 0 ELSE 2
    BY <2>2, <2>4, NodeValues
  <2>6. k \in 0 .. 2 /\ A \in 0 .. 2 /\ B \in 0 .. 2 /\ U \in 0 .. 2
        /\ A # B /\ U # A /\ U # B
    BY <1>2, <2>2, <2>3, ConstValues, ValueIs
  <2> HIDE DEF k, A, B, U
  <2> QED BY <1>1, <2>1, <2>4, <2>5, <2>6
<1>3. CASE TypeOf(s) = "bool" /\ IsNegated(a, b)
  <2>1. expr_join_or(a, b) = Symbol("y")
    BY <1>3 DEF expr_join_or
  <2>2. \/ /\ Op(a) = "not" /\ Op(a[2]) = "symbol" /\ a[2][2] = s
           /\ Op(b) = "symbol" /\ b[2] = s
        \/ /\ Op(b) = "not" /\ Op(b[2]) = "symbol" /\ b[2][2] = s
           /\ Op(a) = "symbol" /\ a[2] = s
    BY <1>3 DEF IsNegated, Are, SameSubject, Subject
  <2> DEFINE k == ValueOf(values, s)
  <2>3. /\ s \in Names
        /\ (V[a] = 2 - k /\ V[b] = k) \/ (V[b] = 2 - k /\ V[a] = k)
    <3>1. \A e \in T : Op(e) = "symbol" =>
            e[2] \in Names /\ V[e] = ValueOf(values, e[2])
      BY LeafNames, ValueOfTree
    <3>2. \A e \in T : Op(e) = "not" => e[2] \in T /\ V[e] = 2 - V[e[2]]
      BY LeafNames, ValueOfTree
    <3> HIDE DEF s
    <3> QED BY <2>2, <3>1, <3>2
  <2>4. k = 0 \/ k = 2
    <3>1. \A n \in Names : /\ ValueOf(values, n) \in 0 .. 2
                           /\ TypeOf(n) = "bool" => ValueOf(values, n) # 1
      BY ValueIs
    <3> HIDE DEF s
    <3> QED BY <1>3, <2>3, <3>1
  <2>5. Symbol("y") \in T /\ V[Symbol("y")] = 2
    BY Made, ValueOfTree, ValueIs DEF ValueOf
  <2> HIDE DEF k
  <2> QED BY <1>1, <2>1, <2>3, <2>4, <2>5
<1> QED BY <1>2, <1>3 DEF expr_join_or

(* A symbol, and a comparison of it with a constant.                       *)
LEMMA SymbolAndComparison ==
  ASSUME NEW T, NEW weight, Trees(T, weight), NEW values \in Values,
         NEW V, Valuation(V, T, values), NEW a \in T, NEW b \in T,
         SameSubject(a, b), NEW v \in Consts
  PROVE  LET s == Subject(a)
             k == ValueOf(values, s)
             v3 == ValueOf(values, v)
         IN  /\ SymbolWith(a, b, "equal", v) =>
                  /\ s \in Names
                  /\ \/ V[a] = k /\ V[b] = IF k = v3 THEN 2 ELSE 0
                     \/ V[b] = k /\ V[a] = IF k = v3 THEN 2 ELSE 0
             /\ SymbolWith(a, b, "unequal", v) =>
                  /\ s \in Names
                  /\ \/ V[a] = k /\ V[b] = IF k = v3 THEN 0 ELSE 2
                     \/ V[b] = k /\ V[a] = IF k = v3 THEN 0 ELSE 2
<1> DEFINE s == Subject(a)
<1>1. \A e \in T :
        /\ Op(e) = "symbol" => e[2] \in Names /\ V[e] = ValueOf(values, e[2])
        /\ Op(e) = "equal" => V[e] =
             IF ValueOf(values, e[2]) = ValueOf(values, e[3]) THEN 2 ELSE 0
        /\ Op(e) = "unequal" => V[e] =
             IF ValueOf(values, e[2]) = ValueOf(values, e[3]) THEN 0 ELSE 2
  BY LeafNames, ValueOfTree
<1>2. ASSUME NEW type \in Comparisons, SymbolWith(a, b, type, v)
      PROVE  \/ Op(a) = "symbol" /\ a[2] = s /\ Op(b) = type /\ b[2] = s /\ b[3] = v
             \/ Op(b) = "symbol" /\ b[2] = s /\ Op(a) = type /\ a[2] = s /\ a[3] = v
  BY <1>2 DEF SymbolWith, Are, SameSubject, Subject, Comparisons
<1> HIDE DEF s
<1>3. ASSUME SymbolWith(a, b, "equal", v)
      PROVE  /\ s \in Names
             /\ \/ /\ V[a] = ValueOf(values, s)
                   /\ V[b] = IF ValueOf(values, s) = ValueOf(values, v)
                              THEN 2 ELSE 0
                \/ /\ V[b] = ValueOf(values, s)
                   /\ V[a] = IF ValueOf(values, s) = ValueOf(values, v)
                              THEN 2 ELSE 0
  BY <1>1, <1>2, <1>3 DEF Comparisons
<1>4. ASSUME SymbolWith(a, b, "unequal", v)
      PROVE  /\ s \in Names
             /\ \/ /\ V[a] = ValueOf(values, s)
                   /\ V[b] = IF ValueOf(values, s) = ValueOf(values, v)
                              THEN 0 ELSE 2
                \/ /\ V[b] = ValueOf(values, s)
                   /\ V[a] = IF ValueOf(values, s) = ValueOf(values, v)
                              THEN 0 ELSE 2
  BY <1>1, <1>2, <1>4 DEF Comparisons
<1> QED BY <1>3, <1>4 DEF s

(* For all symbols and values: two different operands of an and that are   *)
(* made one (expr_join_and, expr.c:409-502: a && a='y' becomes a='y',      *)
(* a!='x' && a!='y' becomes a='z', a='x' && a!='y' becomes a='x', ...)     *)
(* have the value that they had together.                                  *)
THEOREM JoinedAnd ==
  ASSUME NEW T, NEW weight, Trees(T, weight), NEW values \in Values,
         NEW V, Valuation(V, T, values),
         NEW a \in T, NEW b \in T, a # b, SameSubject(a, b),
         expr_join_and(a, b) # NULL
  PROVE  /\ expr_join_and(a, b) \in T
         /\ V[expr_join_and(a, b)] = V[<<"and", a, b>>]
<1>0. /\ \A c \in T : V[c] \in 0 .. 2
      /\ \A c, d \in T :
           /\ V[<<"and", c, d>>] = IF V[c] <= V[d] THEN V[c] ELSE V[d]
           /\ V[<<"or", c, d>>] = IF V[c] <= V[d] THEN V[d] ELSE V[c]
  BY ValuesTyped
<1> DEFINE s == Subject(a)
           joined == expr_join_and(a, b)
           k == ValueOf(values, s)
<1>1. /\ V[a] \in 0 .. 2 /\ V[b] \in 0 .. 2
      /\ V[<<"and", a, b>>] = IF V[a] <= V[b] THEN V[a] ELSE V[b]
  BY <1>0
<1>2. /\ \A n \in Names : Symbol(n) \in T /\ V[Symbol(n)] = ValueOf(values, n)
      /\ \A n, v \in Names :
           /\ Equal(n, v) \in T
           /\ V[Equal(n, v)] =
                IF ValueOf(values, n) = ValueOf(values, v) THEN 2 ELSE 0
           /\ V[Unequal(n, v)] =
                IF ValueOf(values, n) = ValueOf(values, v) THEN 0 ELSE 2
  BY Made, ValueOfTree
<1>3. Consts \subseteq Names
  BY DEF Names
<1>4. ValueOf(values, "n") = 0 /\ ValueOf(values, "m") = 1
      /\ ValueOf(values, "y") = 2
  BY DEF ValueOf
<1>5. s \in Names => k \in 0 .. 2
  BY ValueIs
<1> HIDE DEF k
<1>6. ASSUME SymbolWith(a, b, "equal", "y") \/ SymbolWith(a, b, "unequal", "m")
      PROVE  joined \in T /\ V[joined] = V[<<"and", a, b>>]
  <2>1. joined = Equal(s, "y")
    BY <1>6 DEF expr_join_and
  <2>2. SymbolWith(a, b, "equal", "y") =>
          /\ s \in Names
          /\ \/ V[a] = k /\ V[b] = IF k = 2 THEN 2 ELSE 0
             \/ V[b] = k /\ V[a] = IF k = 2 THEN 2 ELSE 0
    BY <1>4, SymbolAndComparison DEF k, Consts
  <2>3. SymbolWith(a, b, "unequal", "m") =>
          /\ s \in Names
          /\ \/ V[a] = k /\ V[b] = IF k = 1 THEN 0 ELSE 2
             \/ V[b] = k /\ V[a] = IF k = 1 THEN 0 ELSE 2
    BY <1>4, SymbolAndComparison DEF k, Consts
  <2>4. Equal(s, "y") \in T /\ V[Equal(s, "y")] = IF k = 2 THEN 2 ELSE 0
    BY <1>2, <1>3, <1>4, <1>6, <2>2, <2>3 DEF k, Consts
  <2> HIDE DEF joined, s
  <2> QED BY <1>1, <1>5, <1>6, <2>1, <2>2, <2>3, <2>4
<1>7. ASSUME ~SymbolWith(a, b, "equal", "y"), ~SymbolWith(a, b, "unequal", "m"),
             SymbolWith(a, b, "unequal", "n")
      PROVE  joined \in T /\ V[joined] = V[<<"and", a, b>>]
  <2>1. joined = Symbol(s)
    BY <1>7 DEF expr_join_and
  <2>2. /\ s \in Names
        /\ \/ V[a] = k /\ V[b] = IF k = 0 THEN 0 ELSE 2
           \/ V[b] = k /\ V[a] = IF k = 0 THEN 0 ELSE 2
    BY <1>4, <1>7, SymbolAndComparison DEF k, Consts
  <2>3. Symbol(s) \in T /\ V[Symbol(s)] = k
    BY <1>2, <2>2 DEF k
  <2> HIDE DEF joined, s
  <2> QED BY <1>1, <1>5, <2>1, <2>2, <2>3
<1> DEFINE v == a[3]
           w == b[3]
           A == ValueOf(values, v)
           B == ValueOf(values, w)
           rest == /\ ~SymbolWith(a, b, "equal", "y")
                   /\ ~SymbolWith(a, b, "unequal", "m")
                   /\ ~SymbolWith(a, b, "unequal", "n")
                   /\ TypeOf(s) = "tristate"
                   /\ v \in Consts /\ w \in Consts
<1>8. ASSUME rest, Op(a) \in Comparisons, Op(b) \in Comparisons
      PROVE  /\ s \in Names
             /\ a = IF Op(a) = "equal" THEN Equal(s, v) ELSE Unequal(s, v)
             /\ b = IF Op(b) = "equal" THEN Equal(s, w) ELSE Unequal(s, w)
             /\ A \in 0 .. 2 /\ B \in 0 .. 2 /\ (A = B <=> v = w)
  <2>1. Subject(b) = s /\ Subject(a) = a[2] /\ Subject(b) = b[2]
    BY <1>8 DEF SameSubject, Subject, Comparisons
  <2>2. s \in Names
        /\ a = IF Op(a) = "equal" THEN Equal(s, v) ELSE Unequal(s, v)
    BY <1>8, <2>1, LeafNames DEF Comparisons
  <2>3. b = IF Op(b) = "equal" THEN Equal(s, w) ELSE Unequal(s, w)
    BY <1>8, <2>1, LeafNames DEF Comparisons
  <2>4. A \in 0 .. 2 /\ B \in 0 .. 2 /\ (A = B <=> v = w)
    BY <1>8, ConstValues
  <2> QED BY <2>2, <2>3, <2>4
<1>9. ASSUME rest, Are(a, b, "equal", "unequal") \/ Are(a, b, "unequal", "equal")
      PROVE  joined \in T /\ V[joined] = V[<<"and", a, b>>]
  <2>1. Op(a) \in Comparisons /\ Op(b) \in Comparisons
    BY <1>9 DEF Are, Comparisons
  <2>2. joined = IF Op(a) = "equal" THEN EqualWithUnequal(s, v, w)
                                    ELSE EqualWithUnequal(s, w, v)
    BY <1>9 DEF expr_join_and
  <2>3. joined = IF v = w THEN Symbol("n") ELSE
                 IF Op(a) = "equal" THEN Equal(s, v) ELSE Equal(s, w)
    BY <2>2 DEF EqualWithUnequal
  <2>4. /\ Symbol("n") \in T /\ V[Symbol("n")] = 0
        /\ Equal(s, v) \in T /\ V[Equal(s, v)] = IF k = A THEN 2 ELSE 0
        /\ Equal(s, w) \in T /\ V[Equal(s, w)] = IF k = B THEN 2 ELSE 0
        /\ V[Unequal(s, v)] = IF k = A THEN 0 ELSE 2
        /\ V[Unequal(s, w)] = IF k = B THEN 0 ELSE 2
    BY <1>2, <1>3, <1>4, <1>8, <1>9, <2>1 DEF k, Consts
  <2>5. \/ Op(a) = "equal" /\ Op(b) = "unequal"
        \/ Op(a) = "unequal" /\ Op(b) = "equal"
    BY <1>9 DEF Are
  <2>6. /\ s \in Names
        /\ a = IF Op(a) = "equal" THEN Equal(s, v) ELSE Unequal(s, v)
        /\ b = IF Op(b) = "equal" THEN Equal(s, w) ELSE Unequal(s, w)
        /\ A \in 0 .. 2 /\ B \in 0 .. 2 /\ (A = B <=> v = w)
    BY <1>8, <1>9, <2>1
  <2>7. k \in 0 .. 2
    BY <1>5, <2>6
  <2> HIDE DEF joined, s, v, w, A, B
  <2>8. CASE Op(a) = "equal" /\ Op(b) = "unequal"
    BY <1>1, <2>3, <2>4, <2>6, <2>7, <2>8
  <2>9. CASE Op(a) = "unequal" /\ Op(b) = "equal"
    BY <1>1, <2>3, <2>4, <2>6, <2>7, <2>9
  <2> QED BY <2>5, <2>8, <2>9
<1>10. ASSUME rest, Are(a, b, "unequal", "unequal")
       PROVE  joined \in T /\ V[joined] = V[<<"and", a, b>>]
  <2> DEFINE u == CHOOSE x \in Consts \ {v, w} : TRUE
             U == ValueOf(values, u)
  <2>1. joined = Equal(s, u)
    BY <1>10 DEF expr_join_and, Are
  <2>2. /\ s \in Names /\ a = Unequal(s, v) /\ b = Unequal(s, w)
        /\ A \in 0 .. 2 /\ B \in 0 .. 2 /\ (A = B <=> v = w)
    BY <1>8, <1>10 DEF Are, Comparisons
  <2>3. u \in Consts /\ u # v /\ u # w
    BY <1>10, <2>2, OneLeft
  <2> HIDE DEF u
  <2>4. U \in 0 .. 2 /\ U # A /\ U # B /\ A # B
    BY <1>10, <2>2, <2>3, ConstValues
  <2>5. /\ Equal(s, u) \in T /\ V[Equal(s, u)] = IF k = U THEN 2 ELSE 0
        /\ V[a] = IF k = A THEN 0 ELSE 2
        /\ V[b] = IF k = B THEN 0 ELSE 2
    BY <1>2, <1>3, <1>10, <2>2, <2>3 DEF k
  <2>6. k \in 0 .. 2
    BY <1>5, <2>2
  <2> HIDE DEF joined, s, v, w, A, B, U
  <2> QED BY <1>1, <2>1, <2>2, <2>4, <2>5, <2>6
<1> QED BY <1>6, <1>7, <1>9, <1>10 DEF expr_join_and

-----------------------------------------------------------------------------
(* y and n among the operands.                                             *)

(* Trees no node of which joins y or n with something: what is in every    *)
(* such P is made of these rules alone, a not taken as it is.              *)
WithoutYn(P, T) ==
  /\ \A e : Leaf(e) => e \in P
  /\ \A a \in T : Not(a) \in P
  /\ \A type \in Operators, a, b \in P :
       /\ ~ Is(a, "y") /\ ~ Is(a, "n") /\ ~ Is(b, "y") /\ ~ Is(b, "n")
       => <<type, a, b>> \in P

(* Y has what expr_eliminate_yn makes of all trees.                        *)
EliminatesYn(Y, T) ==
  \A e \in T : Y[e] = EliminateYn(e, Y)

(* Contents that are taken over keep their value.                          *)
LEMMA TakenOverKeeps ==
  ASSUME NEW T, NEW weight, Trees(T, weight), NEW values \in Values,
         NEW V, Valuation(V, T, values), NEW e \in T
  PROVE  /\ TakenOver(e) \in T /\ V[TakenOver(e)] = V[e]
         /\ weight[TakenOver(e)] = weight[e]
         /\ TakenOver(e) = e \/ Leaf(TakenOver(e))
<1>1. CASE Op(e) # "symbol"
  BY <1>1 DEF TakenOver
<1>2. CASE Op(e) = "symbol"
  <2>1. TakenOver(e) = Symbol(e[2]) /\ e[2] \in Names
        /\ e = Borrowed(e[2], e[3]) /\ e[3] \in Nat
    BY <1>2, LeafNames DEF TakenOver
  <2>2. Leaf(Symbol(e[2])) /\ Leaf(e)
    <3>1. Symbol(e[2]) = Borrowed(e[2], 0)
      BY DEF Symbol, Borrowed
    <3> QED BY <2>1, <3>1 DEF Leaf
  <2>3. weight[Symbol(e[2])] = 1 /\ weight[e] = 1
    <3>1. Op(Symbol(e[2])) = "symbol" /\ Symbol(e[2]) \in T
      BY <2>1, Made
    <3> QED BY <1>2, <2>2, <3>1 DEF Trees, Comparisons
  <2>4. V[Symbol(e[2])] = V[e]
    BY <1>2, <2>1, Made, ValueOfTree
  <2>5. Symbol(e[2]) \in T
    BY <2>1, Made
  <2> QED BY <2>1, <2>2, <2>3, <2>4, <2>5
<1> QED BY <1>1, <1>2

(* y and n are 2 and 0.                                                    *)
LEMMA IsName ==
  ASSUME NEW T, NEW weight, Trees(T, weight), NEW values \in Values,
         NEW V, Valuation(V, T, values), NEW e \in T
  PROVE  (Is(e, "y") => V[e] = 2) /\ (Is(e, "n") => V[e] = 0)
<1>1. ValueOf(values, "y") = 2 /\ ValueOf(values, "n") = 0
  BY DEF ValueOf
<1> QED BY <1>1, ValueOfTree DEF Is

(* One node: y and n go, the value stays.                                  *)
LEMMA WithoutKeeps ==
  ASSUME NEW T, NEW weight, Trees(T, weight), NEW values \in Values,
         NEW V, Valuation(V, T, values), NEW P, WithoutYn(P, T),
         NEW type \in Operators, NEW a \in T, NEW b \in T,
         a \in P, b \in P
  PROVE  LET made == Without(type, a, b)
         IN  /\ made \in T /\ made \in P /\ V[made] = V[<<type, a, b>>]
             /\ weight[made] <= weight[<<type, a, b>>]
<1>0. /\ \A c \in T : V[c] \in 0 .. 2
      /\ \A c, d \in T :
           /\ V[<<"and", c, d>>] = IF V[c] <= V[d] THEN V[c] ELSE V[d]
           /\ V[<<"or", c, d>>] = IF V[c] <= V[d] THEN V[d] ELSE V[c]
  BY ValuesTyped
<1> DEFINE both == <<type, a, b>>
           made == Without(type, a, b)
           ofZero == IF type = "and" THEN 0 ELSE 2
           Other(x, y) == V[both] = IF V[x] = ofZero THEN ofZero
                                    ELSE IF V[x] = 2 - ofZero THEN V[y]
                                    ELSE V[both]
<1>1. /\ V[a] \in 0 .. 2 /\ V[b] \in 0 .. 2 /\ V[both] \in 0 .. 2
      /\ type = "and" => V[both] = IF V[a] <= V[b] THEN V[a] ELSE V[b]
      /\ type = "or" => V[both] = IF V[a] <= V[b] THEN V[b] ELSE V[a]
      /\ both \in T
  <2>1. both \in T
    BY DEF Trees
  <2>2. ASSUME type = "and"
        PROVE  V[both] = IF V[a] <= V[b] THEN V[a] ELSE V[b]
    <3>1. both = <<"and", a, b>>
      BY <2>2
    <3> HIDE DEF both
    <3> QED BY <1>0, <3>1
  <2>3. ASSUME type = "or"
        PROVE  V[both] = IF V[a] <= V[b] THEN V[b] ELSE V[a]
    <3>1. both = <<"or", a, b>>
      BY <2>3
    <3> HIDE DEF both
    <3> QED BY <1>0, <3>1
  <2> QED BY <1>0, <2>1, <2>2, <2>3
<1>2. type = "and" \/ type = "or"
  BY DEF Operators
<1>3. /\ Is(a, Zero(type)) => V[a] = ofZero
      /\ Is(b, Zero(type)) => V[b] = ofZero
      /\ Is(a, Neutral(type)) => V[a] = 2 - ofZero
      /\ Is(b, Neutral(type)) => V[b] = 2 - ofZero
  BY <1>2, IsName DEF Zero, Neutral
<1>4. /\ weight[a] \in Nat /\ weight[b] \in Nat
      /\ weight[both] = weight[a] + weight[b] + 1
  BY DEF Trees
<1>5. CASE Is(a, Zero(type)) \/ Is(b, Zero(type))
  <2>1. made = Symbol(Zero(type)) /\ Zero(type) \in {"y", "n"}
    BY <1>5 DEF Without, Zero
  <2>2. made \in T /\ V[made] = ofZero
    <3>1. Symbol("y") \in T /\ Symbol("n") \in T
      BY Made
    <3>2. Op(Symbol("y")) = "symbol" /\ Symbol("y")[2] = "y"
          /\ Op(Symbol("n")) = "symbol" /\ Symbol("n")[2] = "n"
      BY DEF Op, Symbol
    <3>3. V[Symbol("y")] = 2 /\ V[Symbol("n")] = 0
      BY <3>1, <3>2, IsName DEF Is
    <3> QED BY <1>2, <2>1, <3>1, <3>3 DEF Zero
  <2>3. Leaf(made)
    <3>1. Symbol(Zero(type)) = Borrowed(Zero(type), 0)
      BY DEF Symbol, Borrowed
    <3> QED BY <2>1, <3>1 DEF Leaf, Names, Consts
  <2>4. made \in P
    BY <2>3 DEF WithoutYn
  <2>5. weight[made] = 1
    <3>1. Op(made) = "symbol"
      BY <2>1 DEF Symbol, Op
    <3> QED BY <2>2, <2>3, <3>1 DEF Trees, Comparisons
  <2>6. V[both] = ofZero
    <3> HIDE DEF both
    <3> QED BY <1>1, <1>2, <1>3, <1>5
  <2> HIDE DEF made, both
  <2> QED BY <1>4, <2>2, <2>4, <2>5, <2>6 DEF made, both
<1>6. ASSUME ~ (Is(a, Zero(type)) \/ Is(b, Zero(type))), Is(a, Neutral(type))
      PROVE  /\ made \in T /\ made \in P /\ V[made] = V[both]
             /\ weight[made] <= weight[both]
  <2>1. made = TakenOver(b)
    BY <1>6 DEF Without
  <2>2. made \in T /\ V[made] = V[b] /\ weight[made] = weight[b]
        /\ (made = b \/ Leaf(made))
    BY <2>1, TakenOverKeeps
  <2>3. made \in P
    BY <2>2 DEF WithoutYn
  <2>4. V[both] = V[b]
    <3> HIDE DEF both
    <3> QED BY <1>1, <1>2, <1>3, <1>6
  <2> HIDE DEF made, both
  <2> QED BY <1>4, <2>2, <2>3, <2>4
<1>7. ASSUME ~ (Is(a, Zero(type)) \/ Is(b, Zero(type))),
             ~ Is(a, Neutral(type)), Is(b, Neutral(type))
      PROVE  /\ made \in T /\ made \in P /\ V[made] = V[both]
             /\ weight[made] <= weight[both]
  <2>1. made = TakenOver(a)
    BY <1>7 DEF Without
  <2>2. made \in T /\ V[made] = V[a] /\ weight[made] = weight[a]
        /\ (made = a \/ Leaf(made))
    BY <2>1, TakenOverKeeps
  <2>3. made \in P
    BY <2>2 DEF WithoutYn
  <2>4. V[both] = V[a]
    <3> HIDE DEF both
    <3> QED BY <1>1, <1>2, <1>3, <1>7
  <2> HIDE DEF made, both
  <2> QED BY <1>4, <2>2, <2>3, <2>4
<1>8. ASSUME ~ (Is(a, Zero(type)) \/ Is(b, Zero(type))),
             ~ Is(a, Neutral(type)), ~ Is(b, Neutral(type))
      PROVE  /\ made \in T /\ made \in P /\ V[made] = V[both]
             /\ weight[made] <= weight[both]
  <2>1. made = both
    BY <1>8 DEF Without
  <2>2. both \in P
    BY <1>2, <1>8 DEF WithoutYn, Zero, Neutral
  <2> QED BY <1>1, <1>4, <2>1, <2>2
<1> QED BY <1>5, <1>6, <1>7, <1>8

(* For every expression and all values: eliminating y and n (expr.c:231-   *)
(* 315), where a node takes over its operand's contents, keeps the value,  *)
(* leaves no and or or with an operand y or n, not even one that became    *)
(* so on the way, and never makes an expression larger.                    *)
THEOREM YnEliminated ==
  ASSUME NEW T, NEW weight, Trees(T, weight), NEW values \in Values,
         NEW V, Valuation(V, T, values), NEW P, WithoutYn(P, T),
         NEW Y, EliminatesYn(Y, T)
  PROVE  \A e \in T : /\ Y[e] \in T /\ Y[e] \in P /\ V[Y[e]] = V[e]
                      /\ weight[Y[e]] <= weight[e]
<1>0. \A e \in T : Y[e] = IF Op(e) \in Operators
                          THEN Without(Op(e), Y[e[2]], Y[e[3]]) ELSE e
  BY DEF EliminatesYn, EliminateYn
<1>1. \A e \in T : weight[e] \in Nat
  BY DEF Trees
<1> DEFINE S == {e \in T : /\ Y[e] \in T /\ Y[e] \in P /\ V[Y[e]] = V[e]
                           /\ weight[Y[e]] <= weight[e]}
<1>2. ASSUME NEW e \in T, \A d \in T : weight[d] < weight[e] => d \in S
      PROVE  e \in S
  <2>1. CASE Leaf(e)
    <3>1. Op(e) \notin Operators
      BY <2>1 DEF Leaf, Borrowed, Equal, Unequal, Op, Operators
    <3>2. Y[e] = e /\ e \in P
      BY <1>0, <2>1, <3>1 DEF WithoutYn
    <3> QED BY <1>1, <3>2
  <2>2. ASSUME NEW a \in T, e = Not(a) PROVE e \in S
    <3>1. Op(e) \notin Operators
      BY <2>2 DEF Not, Op, Operators
    <3>2. Y[e] = e /\ e \in P
      BY <1>0, <2>2, <3>1 DEF WithoutYn
    <3> QED BY <1>1, <3>2
  <2>3. ASSUME NEW type \in Operators, NEW a \in T, NEW b \in T,
               e = <<type, a, b>>
        PROVE  e \in S
    <3>1. a \in S /\ b \in S
      BY <1>2, <2>3, Lighter
    <3>2. Y[e] = Without(type, Y[a], Y[b])
      <4>1. Op(e) = type /\ e[2] = a /\ e[3] = b
        BY <2>3 DEF Op
      <4> QED BY <1>0, <4>1
    <3> DEFINE c == Y[a]
               d == Y[b]
               new == <<type, c, d>>
    <3>3. c \in T /\ c \in P /\ V[c] = V[a] /\ weight[c] <= weight[a]
          /\ d \in T /\ d \in P /\ V[d] = V[b] /\ weight[d] <= weight[b]
      BY <3>1
    <3> HIDE DEF c, d
    <3>4. /\ Y[e] \in T /\ Y[e] \in P /\ V[Y[e]] = V[new]
          /\ weight[Y[e]] <= weight[new]
      BY <3>2, <3>3, WithoutKeeps DEF c, d
    <3>5. V[new] = V[e]
      <4>1. /\ \A x \in T : V[x] \in 0 .. 2
            /\ \A x, y \in T :
                 /\ V[<<"and", x, y>>] = IF V[x] <= V[y] THEN V[x] ELSE V[y]
                 /\ V[<<"or", x, y>>] = IF V[x] <= V[y] THEN V[y] ELSE V[x]
        BY ValuesTyped
      <4>2. CASE type = "and"
        BY <2>3, <3>3, <4>1, <4>2
      <4>3. CASE type = "or"
        BY <2>3, <3>3, <4>1, <4>3
      <4> QED BY <4>2, <4>3 DEF Operators
    <3>6. weight[new] <= weight[e] /\ weight[new] \in Nat
      <4>1. /\ weight[new] = weight[c] + weight[d] + 1
            /\ weight[e] = weight[a] + weight[b] + 1
        BY <2>3, <3>3 DEF Trees
      <4> HIDE DEF new
      <4> QED BY <1>1, <3>3, <4>1
    <3> HIDE DEF new
    <3> QED BY <1>1, <3>4, <3>5, <3>6
  <2> QED BY <2>1, <2>2, <2>3 DEF Trees
<1>3. T \subseteq S
  <2> HIDE DEF S
  <2> QED BY <1>2, ByWeight
<1> QED BY <1>3

-----------------------------------------------------------------------------
(* Nots at the leaves.                                                     *)

(* Trees in which a not has a symbol below it that is no constant, and     *)
(* that compare no bool with a constant: what is in every such P is made   *)
(* of these rules alone.                                                   *)
BoolWithConst(s, v) == TypeOf(s) = "bool" /\ v \in Consts
NotsAtLeaves(P) ==
  /\ \A s \in Names, lender \in Nat :
       /\ Borrowed(s, lender) \in P
       /\ s \notin {"y", "m", "n"} => Not(Borrowed(s, lender)) \in P
  /\ \A s, v \in Names : ~ BoolWithConst(s, v) =>
       Equal(s, v) \in P /\ Unequal(s, v) \in P
  /\ \A type \in Operators, a, b \in P : <<type, a, b>> \in P

(* F has what expr_transform makes of all trees.                           *)
Transforms(F, T) == \A e \in T : F[e] = Transform(e, F)

(* The weight of each kind of tree.                                        *)
LEMMA NodeWeights ==
  ASSUME NEW T, NEW weight, Trees(T, weight)
  PROVE  /\ \A s \in Names, lender \in Nat : weight[Borrowed(s, lender)] = 1
         /\ \A s \in Names : weight[Symbol(s)] = 1
         /\ \A s, v \in Names : weight[Equal(s, v)] = 2 /\ weight[Unequal(s, v)] = 2
         /\ \A a \in T : weight[Not(a)] = 2 * weight[a]
         /\ \A type \in Operators, a, b \in T :
              weight[<<type, a, b>>] = weight[a] + weight[b] + 1
         /\ \A a \in T : weight[a] \in Nat \ {0}
<1>1. ASSUME NEW s \in Names, NEW lender \in Nat
      PROVE  weight[Borrowed(s, lender)] = 1
  <2>1. Op(Borrowed(s, lender)) = "symbol" /\ Leaf(Borrowed(s, lender))
    BY DEF Op, Borrowed, Leaf
  <2> QED BY <2>1 DEF Trees, Comparisons
<1>2. ASSUME NEW s \in Names PROVE weight[Symbol(s)] = 1
  <2>1. Symbol(s) = Borrowed(s, 0)
    BY DEF Symbol, Borrowed
  <2> QED BY <1>1, <2>1
<1>3. ASSUME NEW s \in Names, NEW v \in Names
      PROVE  weight[Equal(s, v)] = 2 /\ weight[Unequal(s, v)] = 2
  <2>1. /\ Op(Equal(s, v)) = "equal" /\ Leaf(Equal(s, v))
        /\ Op(Unequal(s, v)) = "unequal" /\ Leaf(Unequal(s, v))
    BY DEF Op, Equal, Unequal, Leaf
  <2> QED BY <2>1 DEF Trees, Comparisons
<1>4. /\ \A a \in T : weight[Not(a)] = 2 * weight[a]
      /\ \A type \in Operators, a, b \in T :
           weight[<<type, a, b>>] = weight[a] + weight[b] + 1
      /\ \A a \in T : weight[a] \in Nat \ {0}
  BY DEF Trees
<1> QED BY <1>1, <1>2, <1>3, <1>4

(* What is made of a tree that is to be e.                                 *)
Becomes(x, e, T, weight, V, P) ==
  /\ x \in T /\ x \in P /\ V[x] = V[e] /\ weight[x] <= weight[e]
  /\ Op(x) \in Comparisons => ~ BoolWithConst(x[2], x[3])

(* A comparison of a bool becomes a symbol of the same value.              *)
LEMMA LeafTransformed ==
  ASSUME NEW T, NEW weight, Trees(T, weight), NEW values \in Values,
         NEW V, Valuation(V, T, values), NEW P, NotsAtLeaves(P),
         NEW s \in Names, NEW v \in Names
  PROVE  /\ Becomes(TransformEqual(Equal(s, v)), Equal(s, v), T, weight, V, P)
         /\ Becomes(TransformUnequal(Unequal(s, v)), Unequal(s, v),
                    T, weight, V, P)
<1> DEFINE k == ValueOf(values, s)
           c == ValueOf(values, v)
<1>1. /\ Equal(s, v) \in T /\ Unequal(s, v) \in T
      /\ Symbol(s) \in T /\ Symbol("y") \in T /\ Symbol("n") \in T
      /\ Not(Symbol(s)) \in T
  BY Made
<1>2. /\ weight[Equal(s, v)] = 2 /\ weight[Unequal(s, v)] = 2
      /\ weight[Symbol(s)] = 1 /\ weight[Symbol("y")] = 1
      /\ weight[Symbol("n")] = 1 /\ weight[Not(Symbol(s))] = 2
  <2>1. "y" \in Names /\ "n" \in Names
    BY DEF Names, Consts
  <2> QED BY <1>1, <2>1, NodeWeights
<1>3. /\ \A n \in Names : V[Symbol(n)] = ValueOf(values, n)
      /\ V[Equal(s, v)] = IF k = c THEN 2 ELSE 0
      /\ V[Unequal(s, v)] = IF k = c THEN 0 ELSE 2
      /\ V[Not(Symbol(s))] = 2 - V[Symbol(s)]
  <2>1. V[Not(Symbol(s))] = 2 - V[Symbol(s)]
    BY <1>1, NodeValues
  <2>2. \A n \in Names : V[Symbol(n)] = ValueOf(values, n)
    BY Made, ValueOfTree
  <2>3. /\ V[Equal(s, v)] = IF k = c THEN 2 ELSE 0
        /\ V[Unequal(s, v)] = IF k = c THEN 0 ELSE 2
    BY NodeValues
  <2> QED BY <2>1, <2>2, <2>3
<1>4. /\ "y" \in Names /\ "n" \in Names /\ ValueOf(values, "y") = 2
      /\ ValueOf(values, "n") = 0 /\ ValueOf(values, "m") = 1
  BY DEF Names, Consts, ValueOf
<1>5. /\ V[Symbol(s)] = k /\ V[Symbol("y")] = 2 /\ V[Symbol("n")] = 0
  BY <1>3, <1>4
<1>6. k \in 0 .. 2 /\ (TypeOf(s) = "bool" => k # 1)
  BY ValueIs
<1>7. Symbol(s) \in P /\ Symbol("y") \in P /\ Symbol("n") \in P
  <2>1. \A n : Symbol(n) = Borrowed(n, 0)
    BY DEF Symbol, Borrowed
  <2> QED BY <1>4, <2>1 DEF NotsAtLeaves
<1>8. TypeOf(s) = "bool" => Not(Symbol(s)) \in P
  <2>1. Symbol(s) = Borrowed(s, 0)
    BY DEF Symbol, Borrowed
  <2>2. TypeOf(s) = "bool" => s \notin {"y", "m", "n"}
    BY SymbolsAssumption DEF TypeOf, Consts
  <2> QED BY <2>1, <2>2 DEF NotsAtLeaves
<1>9. TypeOf(s) # "bool" \/ v \notin {"n", "m", "y"} =>
        Equal(s, v) \in P /\ Unequal(s, v) \in P
  BY DEF NotsAtLeaves, BoolWithConst, Consts
<1>10. Equal(s, v)[2] = s /\ Equal(s, v)[3] = v
       /\ Unequal(s, v)[2] = s /\ Unequal(s, v)[3] = v
  BY DEF Equal, Unequal
<1>11. /\ Op(Symbol(s)) \notin Comparisons
       /\ Op(Symbol("y")) \notin Comparisons
       /\ Op(Symbol("n")) \notin Comparisons
       /\ Op(Not(Symbol(s))) \notin Comparisons
  BY DEF Op, Symbol, Not, Comparisons
<1>12. CASE TypeOf(s) # "bool" \/ v \notin {"n", "m", "y"}
  <2>1. TransformEqual(Equal(s, v)) = Equal(s, v)
    BY <1>10, <1>12 DEF TransformEqual
  <2>2. TransformUnequal(Unequal(s, v)) = Unequal(s, v)
    BY <1>10, <1>12 DEF TransformUnequal
  <2> QED BY <1>1, <1>2, <1>9, <1>10, <1>12, <2>1, <2>2
         DEF Becomes, BoolWithConst, Consts
<1>13. CASE TypeOf(s) = "bool" /\ v = "n"
  <2>1. TransformEqual(Equal(s, v)) = Not(Symbol(s))
    BY <1>10, <1>13 DEF TransformEqual
  <2>2. TransformUnequal(Unequal(s, v)) = Symbol(s)
    BY <1>10, <1>13 DEF TransformUnequal
  <2>3. c = 0
    BY <1>4, <1>13
  <2> HIDE DEF k, c
  <2>4. V[Not(Symbol(s))] = V[Equal(s, v)] /\ V[Symbol(s)] = V[Unequal(s, v)]
    BY <1>3, <1>5, <1>6, <1>13, <2>3
  <2> QED BY <1>1, <1>2, <1>7, <1>8, <1>13, <1>11, <2>1, <2>2, <2>4
         DEF Becomes
<1>14. CASE TypeOf(s) = "bool" /\ v = "m"
  <2>1. TransformEqual(Equal(s, v)) = Symbol("n")
    BY <1>10, <1>14 DEF TransformEqual
  <2>2. TransformUnequal(Unequal(s, v)) = Symbol("y")
    BY <1>10, <1>14 DEF TransformUnequal
  <2>3. c = 1
    BY <1>4, <1>14
  <2> HIDE DEF k, c
  <2>4. V[Symbol("n")] = V[Equal(s, v)] /\ V[Symbol("y")] = V[Unequal(s, v)]
    BY <1>3, <1>5, <1>6, <1>14, <2>3
  <2> QED BY <1>1, <1>2, <1>7, <1>11, <2>1, <2>2, <2>4
         DEF Becomes
<1>15. CASE TypeOf(s) = "bool" /\ v = "y"
  <2>1. TransformEqual(Equal(s, v)) = Symbol(s)
    BY <1>10, <1>15 DEF TransformEqual
  <2>2. TransformUnequal(Unequal(s, v)) = Not(Symbol(s))
    BY <1>10, <1>15 DEF TransformUnequal
  <2>3. c = 2
    BY <1>4, <1>15
  <2> HIDE DEF k, c
  <2>4. V[Symbol(s)] = V[Equal(s, v)] /\ V[Not(Symbol(s))] = V[Unequal(s, v)]
    BY <1>3, <1>5, <1>6, <1>15, <2>3
  <2> QED BY <1>1, <1>2, <1>7, <1>8, <1>15, <1>11, <2>1, <2>2, <2>4
         DEF Becomes
<1> QED BY <1>12, <1>13, <1>14, <1>15

(* A not of a transformed tree, when all lighter trees are transformed.    *)
LEMMA NotTransformed ==
  ASSUME NEW T, NEW weight, Trees(T, weight), NEW values \in Values,
         NEW V, Valuation(V, T, values), NEW P, NotsAtLeaves(P),
         NEW F, NEW e \in T, NEW x \in T,
         Becomes(x, e, T, weight, V, P),
         \A d \in T : weight[d] < weight[Not(e)] =>
           Becomes(F[d], d, T, weight, V, P)
  PROVE  Becomes(TransformNot(x, F), Not(e), T, weight, V, P)
<1> DEFINE made == TransformNot(x, F)
<1>1. /\ weight[e] \in Nat \ {0} /\ weight[x] \in Nat \ {0}
      /\ weight[x] <= weight[e] /\ weight[Not(e)] = 2 * weight[e]
      /\ x \in P /\ V[Not(e)] = 2 - V[x]
      /\ Op(x) \in Comparisons => ~ BoolWithConst(x[2], x[3])
  BY NodeWeights, NodeValues DEF Becomes
<1>2. \A d \in T : V[d] \in 0 .. 2
  BY ValuesTyped
<1>3. \A d \in T : weight[d] < weight[Not(e)] /\ V[d] = V[Not(e)] =>
        Becomes(F[d], Not(e), T, weight, V, P)
  <2>1. ASSUME NEW d \in T, weight[d] < weight[Not(e)], V[d] = V[Not(e)]
        PROVE  Becomes(F[d], Not(e), T, weight, V, P)
    <3>1. Becomes(F[d], d, T, weight, V, P)
      BY <2>1
    <3>2. weight[d] \in Nat /\ weight[F[d]] \in Nat /\ weight[Not(e)] \in Nat
      BY <1>1, <3>1, NodeWeights DEF Becomes
    <3> QED BY <2>1, <3>1, <3>2 DEF Becomes
  <2> QED BY <2>1
<1>4. ASSUME Op(x) = "not"
      PROVE  Becomes(made, Not(e), T, weight, V, P)
  <2>1. PICK d \in T : x = Not(d) /\ x[2] = d
    BY <1>4, LeafNames
  <2>2. made = F[d]
    BY <1>4, <2>1 DEF TransformNot, Turned, Operators, Is
  <2>3. weight[x] = 2 * weight[d] /\ weight[d] \in Nat \ {0}
    BY <2>1, NodeWeights
  <2>4. weight[d] < weight[Not(e)]
    BY <1>1, <2>3
  <2>5. V[d] = V[Not(e)]
    <3>1. V[x] = 2 - V[d]
      BY <2>1, NodeValues
    <3> QED BY <1>1, <1>2, <3>1
  <2> QED BY <1>3, <2>2, <2>4, <2>5
<1>5. ASSUME Op(x) \in Comparisons
      PROVE  Becomes(made, Not(e), T, weight, V, P)
  <2>1. PICK s \in Names, v \in Names :
          /\ x[2] = s /\ x[3] = v
          /\ \/ Op(x) = "equal" /\ x = Equal(s, v)
             \/ Op(x) = "unequal" /\ x = Unequal(s, v)
    BY <1>5, LeafNames DEF Comparisons
  <2> DEFINE k == ValueOf(values, s)
             c == ValueOf(values, v)
  <2>2. /\ V[Equal(s, v)] = IF k = c THEN 2 ELSE 0
        /\ V[Unequal(s, v)] = IF k = c THEN 0 ELSE 2
    BY NodeValues
  <2>3. made = IF Op(x) = "equal" THEN Unequal(s, v) ELSE Equal(s, v)
    BY <2>1 DEF TransformNot, Turned, Operators, Is
  <2>4. Equal(s, v) \in P /\ Unequal(s, v) \in P
    BY <1>1, <1>5, <2>1 DEF NotsAtLeaves
  <2>5. Equal(s, v) \in T /\ Unequal(s, v) \in T
    BY Made
  <2>6. weight[Equal(s, v)] = 2 /\ weight[Unequal(s, v)] = 2
    BY NodeWeights
  <2>7. ~ BoolWithConst(s, v)
    BY <1>1, <1>5, <2>1
  <2>8. /\ Equal(s, v)[2] = s /\ Equal(s, v)[3] = v
        /\ Unequal(s, v)[2] = s /\ Unequal(s, v)[3] = v
    BY DEF Equal, Unequal
  <2>9. V[made] = V[Not(e)]
    <3> HIDE DEF k, c, made
    <3> QED BY <1>1, <2>1, <2>2, <2>3
  <2>10. made \in T /\ made \in P /\ made[2] = s /\ made[3] = v
    BY <2>3, <2>4, <2>5, <2>8
  <2>11. weight[made] <= weight[Not(e)]
    <3>1. weight[made] = 2
      BY <2>3, <2>6
    <3> HIDE DEF made
    <3> QED BY <1>1, <3>1
  <2> HIDE DEF made
  <2> QED BY <2>7, <2>9, <2>10, <2>11 DEF Becomes
<1>6. ASSUME NEW type \in Operators, NEW turned \in Operators, turned # type,
             Op(x) = type
      PROVE  Becomes(made, Not(e), T, weight, V, P)
  <2>1. PICK a \in T, b \in T : x = <<type, a, b>> /\ x[2] = a /\ x[3] = b
    BY <1>6, LeafNames
  <2> DEFINE new == <<turned, Not(a), Not(b)>>
  <2>2. made = F[new]
    BY <1>6, <2>1 DEF TransformNot, Turned, Operators, Is
  <2>3. Not(a) \in T /\ Not(b) \in T /\ new \in T
    BY Made
  <2>4. /\ weight[Not(a)] = 2 * weight[a] /\ weight[Not(b)] = 2 * weight[b]
        /\ weight[new] = weight[Not(a)] + weight[Not(b)] + 1
        /\ weight[x] = weight[a] + weight[b] + 1
        /\ weight[a] \in Nat /\ weight[b] \in Nat
    BY <2>1, <2>3, NodeWeights
  <2>5. weight[new] < weight[Not(e)]
    <3> HIDE DEF new
    <3> QED BY <1>1, <2>4
  <2>6. V[new] = V[Not(e)]
    <3>1. /\ \A c \in T : V[c] \in 0 .. 2
          /\ \A c, d \in T :
               /\ V[<<"and", c, d>>] = IF V[c] <= V[d] THEN V[c] ELSE V[d]
               /\ V[<<"or", c, d>>] = IF V[c] <= V[d] THEN V[d] ELSE V[c]
      BY ValuesTyped
    <3>2. V[Not(a)] = 2 - V[a] /\ V[Not(b)] = 2 - V[b]
      BY NodeValues
    <3>3. CASE type = "and" /\ turned = "or"
      <4>1. V[x] = IF V[a] <= V[b] THEN V[a] ELSE V[b]
        BY <2>1, <3>1, <3>3
      <4>2. V[new] = IF V[Not(a)] <= V[Not(b)] THEN V[Not(b)] ELSE V[Not(a)]
        BY <2>3, <3>1, <3>3
      <4> HIDE DEF new
      <4> QED BY <1>1, <3>1, <3>2, <4>1, <4>2
    <3>4. CASE type = "or" /\ turned = "and"
      <4>1. V[x] = IF V[a] <= V[b] THEN V[b] ELSE V[a]
        BY <2>1, <3>1, <3>4
      <4>2. V[new] = IF V[Not(a)] <= V[Not(b)] THEN V[Not(a)] ELSE V[Not(b)]
        BY <2>3, <3>1, <3>4
      <4> HIDE DEF new
      <4> QED BY <1>1, <3>1, <3>2, <4>1, <4>2
    <3> QED BY <1>6, <3>3, <3>4 DEF Operators
  <2> QED BY <1>3, <2>2, <2>3, <2>5, <2>6
<1>7. ASSUME Op(x) = "symbol"
      PROVE  Becomes(made, Not(e), T, weight, V, P)
  <2>1. PICK s \in Names, lender \in Nat : x = Borrowed(s, lender) /\ x[2] = s
    BY <1>7, LeafNames
  <2>2. V[x] = ValueOf(values, s)
    BY <2>1, NodeValues
  <2>3. {"y", "m", "n"} \subseteq Names
    BY DEF Names, Consts
  <2>4. \A n \in {"y", "m", "n"} :
          /\ Symbol(n) \in T /\ Symbol(n) \in P /\ weight[Symbol(n)] = 1
          /\ V[Symbol(n)] = ValueOf(values, n)
          /\ Op(Symbol(n)) \notin Comparisons
    <3>1. ASSUME NEW n \in {"y", "m", "n"}
          PROVE  /\ Symbol(n) \in T /\ weight[Symbol(n)] = 1
                 /\ V[Symbol(n)] = ValueOf(values, n)
      <4>1. n \in Names
        BY <2>3
      <4>2. Symbol(n) \in T /\ Op(Symbol(n)) = "symbol" /\ Symbol(n)[2] = n
        BY <4>1, Made
      <4>3. V[Symbol(n)] = ValueOf(values, n)
        BY <4>2, ValueOfTree
      <4>4. weight[Symbol(n)] = 1
        BY <4>1, NodeWeights
      <4> QED BY <4>2, <4>3, <4>4
    <3>2. \A n : Symbol(n) = Borrowed(n, 0) /\ Op(Symbol(n)) \notin Comparisons
      BY DEF Symbol, Borrowed, Op, Comparisons
    <3>3. \A n \in Names : Borrowed(n, 0) \in P
      BY DEF NotsAtLeaves
    <3> QED BY <2>3, <3>1, <3>2, <3>3
  <2>5. /\ ValueOf(values, "y") = 2 /\ ValueOf(values, "n") = 0
        /\ ValueOf(values, "m") = 1
    BY DEF ValueOf
  <2>6. ASSUME NEW n \in {"y", "m", "n"}, s = n
        PROVE  Becomes(made, Not(e), T, weight, V, P)
    <3>1. made = Symbol(IF n = "y" THEN "n" ELSE IF n = "n" THEN "y" ELSE "m")
      BY <1>7, <2>1, <2>6 DEF TransformNot, Turned, Operators, Is
    <3> DEFINE to == IF n = "y" THEN "n" ELSE IF n = "n" THEN "y" ELSE "m"
    <3>2. ValueOf(values, to) = 2 - ValueOf(values, n)
      BY <2>5
    <3>3. V[made] = V[Not(e)]
      BY <1>1, <2>2, <2>4, <2>6, <3>1, <3>2
    <3>4. made \in T /\ made \in P /\ weight[made] = 1
          /\ Op(made) \notin Comparisons
      BY <2>4, <3>1
    <3> HIDE DEF made
    <3> QED BY <1>1, <3>3, <3>4 DEF Becomes
  <2>7. ASSUME s \notin {"y", "m", "n"}
        PROVE  Becomes(made, Not(e), T, weight, V, P)
    <3>1. made = Not(x)
      BY <1>7, <2>1, <2>7 DEF TransformNot, Turned, Operators, Is
    <3>2. Not(x) \in T /\ Op(Not(x)) \notin Comparisons
      BY Made DEF Not, Op, Comparisons
    <3>3. Not(x) \in P
      BY <2>1, <2>7 DEF NotsAtLeaves
    <3>4. weight[Not(x)] = 2 * weight[x]
      BY NodeWeights
    <3>5. V[Not(x)] = V[Not(e)]
      BY <1>1, NodeValues
    <3> HIDE DEF made
    <3> QED BY <1>1, <3>1, <3>2, <3>3, <3>4, <3>5 DEF Becomes
  <2> QED BY <2>6, <2>7
<1>8. Op(x) \in {"symbol", "equal", "unequal", "not", "and", "or"}
  BY LeafNames
<1>9. ASSUME Op(x) = "and" PROVE Becomes(made, Not(e), T, weight, V, P)
  BY <1>6, <1>9 DEF Operators
<1>10. ASSUME Op(x) = "or" PROVE Becomes(made, Not(e), T, weight, V, P)
  BY <1>6, <1>10 DEF Operators
<1> HIDE DEF made
<1>11. Becomes(made, Not(e), T, weight, V, P)
  BY <1>4, <1>5, <1>7, <1>8, <1>9, <1>10 DEF Comparisons
<1> QED BY <1>11 DEF made

(* A joined pair is worth what its operands are worth.                     *)
LEMMA PairKeeps ==
  ASSUME NEW T, NEW weight, Trees(T, weight), NEW values \in Values,
         NEW V, Valuation(V, T, values), NEW type \in Operators,
         NEW a \in T, NEW b \in T, NEW c \in T, NEW d \in T,
         V[c] = V[a], V[d] = V[b],
         weight[c] <= weight[a], weight[d] <= weight[b]
  PROVE  /\ V[<<type, c, d>>] = V[<<type, a, b>>]
         /\ weight[<<type, c, d>>] <= weight[<<type, a, b>>]
<1>1. /\ \A x \in T : V[x] \in 0 .. 2
      /\ \A x, y \in T :
           /\ V[<<"and", x, y>>] = IF V[x] <= V[y] THEN V[x] ELSE V[y]
           /\ V[<<"or", x, y>>] = IF V[x] <= V[y] THEN V[y] ELSE V[x]
  BY ValuesTyped
<1> DEFINE one == <<type, c, d>>
           two == <<type, a, b>>
<1>2. ASSUME type = "and" PROVE V[one] = V[two]
  <2>1. one = <<"and", c, d>> /\ two = <<"and", a, b>>
    BY <1>2
  <2> HIDE DEF one, two
  <2> QED BY <1>1, <2>1
<1>3. ASSUME type = "or" PROVE V[one] = V[two]
  <2>1. one = <<"or", c, d>> /\ two = <<"or", a, b>>
    BY <1>3
  <2> HIDE DEF one, two
  <2> QED BY <1>1, <2>1
<1>4. /\ weight[<<type, c, d>>] = weight[c] + weight[d] + 1
      /\ weight[<<type, a, b>>] = weight[a] + weight[b] + 1
      /\ weight[a] \in Nat /\ weight[b] \in Nat
      /\ weight[c] \in Nat /\ weight[d] \in Nat
  BY NodeWeights
<1>5. weight[<<type, c, d>>] <= weight[<<type, a, b>>]
  BY <1>4
<1>6. V[one] = V[two]
  BY <1>2, <1>3 DEF Operators
<1> QED BY <1>5, <1>6

(* For every expression and all values: expr_transform (expr.c:636-771),   *)
(* which calls itself again for what it has just made, gives an expression *)
(* of the same value, in which a not has nothing but a symbol below it,    *)
(* and no bool is compared with a constant.                                *)
THEOREM Transformed ==
  ASSUME NEW T, NEW weight, Trees(T, weight), NEW values \in Values,
         NEW V, Valuation(V, T, values), NEW P, NotsAtLeaves(P),
         NEW F, Transforms(F, T)
  PROVE  \A e \in T : F[e] \in T /\ F[e] \in P /\ V[F[e]] = V[e]
<1> DEFINE S == {e \in T : Becomes(F[e], e, T, weight, V, P)}
<1>1. ASSUME NEW e \in T, \A d \in T : weight[d] < weight[e] => d \in S
      PROVE  e \in S
  <2>1. ASSUME NEW s \in Names, NEW lender \in Nat, e = Borrowed(s, lender)
        PROVE  e \in S
    <3>1. Op(e) = "symbol"
      BY <2>1 DEF Op, Borrowed
    <3>2. F[e] = e
      BY <3>1 DEF Transforms, Transform, Operators
    <3>3. e \in P
      BY <2>1 DEF NotsAtLeaves
    <3>4. weight[e] \in Nat
      BY NodeWeights
    <3> QED BY <3>1, <3>2, <3>3, <3>4 DEF Becomes, Comparisons
  <2>2. ASSUME NEW s \in Names, NEW v \in Names,
               e = Equal(s, v) \/ e = Unequal(s, v)
        PROVE  e \in S
    <3>1. CASE e = Equal(s, v)
      <4>1. Op(e) = "equal"
        BY <3>1 DEF Op, Equal
      <4>2. F[e] = TransformEqual(e)
        BY <4>1 DEF Transforms, Transform, Operators
      <4> QED BY <3>1, <4>2, LeafTransformed
    <3>2. CASE e = Unequal(s, v)
      <4>1. Op(e) = "unequal"
        BY <3>2 DEF Op, Unequal
      <4>2. F[e] = TransformUnequal(e)
        BY <4>1 DEF Transforms, Transform, Operators
      <4> QED BY <3>2, <4>2, LeafTransformed
    <3> QED BY <2>2, <3>1, <3>2
  <2>3. ASSUME NEW a \in T, e = Not(a) PROVE e \in S
    <3>1. Op(e) = "not" /\ e[2] = a
      BY <2>3 DEF Op, Not
    <3>2. F[e] = TransformNot(F[a], F)
      <4>1. F[e] = Transform(e, F)
        BY DEF Transforms
      <4> QED BY <3>1, <4>1 DEF Transform, Operators
    <3>3. \A d \in T : weight[d] < weight[Not(a)] =>
            Becomes(F[d], d, T, weight, V, P)
      BY <1>1, <2>3
    <3>4. Becomes(F[a], a, T, weight, V, P) /\ F[a] \in T
      BY <3>3, Lighter DEF Becomes
    <3>5. Becomes(TransformNot(F[a], F), Not(a), T, weight, V, P)
      BY <3>3, <3>4, NotTransformed
    <3> QED BY <2>3, <3>2, <3>5
  <2>4. ASSUME NEW type \in Operators, NEW a \in T, NEW b \in T,
               e = <<type, a, b>>
        PROVE  e \in S
    <3>1. Op(e) = type /\ e[2] = a /\ e[3] = b
      BY <2>4 DEF Op
    <3>2. F[e] = <<type, F[a], F[b]>>
      BY <3>1 DEF Transforms, Transform, Operators
    <3>3. a \in S /\ b \in S
      BY <1>1, <2>4, Lighter
    <3>4. PICK c, d : c = F[a] /\ d = F[b]
      OBVIOUS
    <3>5. /\ c \in T /\ c \in P /\ V[c] = V[a] /\ weight[c] <= weight[a]
          /\ d \in T /\ d \in P /\ V[d] = V[b] /\ weight[d] <= weight[b]
      BY <3>3, <3>4 DEF Becomes
    <3>6. /\ V[<<type, c, d>>] = V[<<type, a, b>>]
          /\ weight[<<type, c, d>>] <= weight[<<type, a, b>>]
      BY <3>5, PairKeeps
    <3>7. <<type, c, d>> \in T /\ Op(<<type, c, d>>) \notin Comparisons
      BY <3>5, Made DEF Operators, Comparisons
    <3>8. <<type, c, d>> \in P
      BY <3>5 DEF NotsAtLeaves
    <3> QED BY <2>4, <3>2, <3>4, <3>6, <3>7, <3>8 DEF Becomes
  <2> QED BY <2>1, <2>2, <2>3, <2>4 DEF Trees, Leaf
<1>2. T \subseteq S
  <2> HIDE DEF S
  <2> QED BY <1>1, ByWeight
<1> QED BY <1>2 DEF Becomes

-----------------------------------------------------------------------------
(* What an expression says of a symbol.                                    *)

(* Trees in which no operand of a not is m.                                *)
NoNotOfModule(Q, T, V) ==
  /\ Q \subseteq T
  /\ \A a : Not(a) \in Q => a \in Q /\ V[a] # 1
  /\ \A type \in Operators : \A a, b :
       <<type, a, b>> \in Q => a \in Q /\ b \in Q

(* C has what expr_trans_compare makes of all trees, compared with v.      *)
Compares(C, T, v) ==
  \A e \in T, type \in Comparisons :
    C[<<e, type>>] = TransCompare(e, type, v, C)

(* For every expression and all values with no m below a not: what         *)
(* expr_trans_compare (expr.c:877-936) makes of e=v or e!=v is y where     *)
(* that is so and n where it is not, though nots only turn the comparison  *)
(* around and for n and and or change places.                              *)
THEOREM ComparisonIsTrue ==
  ASSUME NEW T, NEW weight, Trees(T, weight), NEW values \in Values,
         NEW V, Valuation(V, T, values), NEW Q, NoNotOfModule(Q, T, V),
         NEW v \in {"y", "n"}, NEW C, Compares(C, T, v)
  PROVE  \A e \in Q, type \in Comparisons :
           /\ C[<<e, type>>] \in T
           /\ V[C[<<e, type>>]] =
                IF (V[e] = ValueOf(values, v)) = (type = "equal") THEN 2 ELSE 0
<1> DEFINE n == ValueOf(values, v)
           Right(e) == \A type \in Comparisons :
             /\ C[<<e, type>>] \in T
             /\ V[C[<<e, type>>]] =
                  IF (V[e] = n) = (type = "equal") THEN 2 ELSE 0
           S == {e \in T : e \in Q => Right(e)}
<1>1. /\ n = IF v = "y" THEN 2 ELSE 0
      /\ v \in Names
  BY DEF ValueOf, Names, Consts
<1>2. /\ \A x \in T : V[x] \in 0 .. 2
      /\ \A x, y \in T :
           /\ V[<<"and", x, y>>] = IF V[x] <= V[y] THEN V[x] ELSE V[y]
           /\ V[<<"or", x, y>>] = IF V[x] <= V[y] THEN V[y] ELSE V[x]
  BY ValuesTyped
<1> HIDE DEF n
<1>3. ASSUME NEW e \in T, \A d \in T : weight[d] < weight[e] => d \in S
      PROVE  e \in S
  <2> SUFFICES ASSUME e \in Q, NEW type \in Comparisons
               PROVE  /\ C[<<e, type>>] \in T
                      /\ V[C[<<e, type>>]] =
                           IF (V[e] = n) = (type = "equal") THEN 2 ELSE 0
    OBVIOUS
  <2>0. type = "equal" \/ type = "unequal"
    BY DEF Comparisons
  <2> DEFINE made == C[<<e, type>>]
  <2>1. ASSUME NEW s \in Names, NEW lender \in Nat, e = Borrowed(s, lender)
        PROVE  /\ made \in T
               /\ V[made] = IF (V[e] = n) = (type = "equal") THEN 2 ELSE 0
    <3>1. e # NULL /\ Op(e) = "symbol" /\ e[2] = s
      BY <2>1 DEF Op, Borrowed, NULL
    <3>2. made = <<type, s, v>>
      BY <3>1 DEF Compares, TransCompare, Operators, Comparisons
    <3>3. made = IF type = "equal" THEN Equal(s, v) ELSE Unequal(s, v)
      BY <2>0, <3>2 DEF Equal, Unequal
    <3>4. V[e] = ValueOf(values, s)
      BY <2>1, NodeValues
    <3>5. /\ Equal(s, v) \in T /\ Unequal(s, v) \in T
          /\ V[Equal(s, v)] = IF V[e] = n THEN 2 ELSE 0
          /\ V[Unequal(s, v)] = IF V[e] = n THEN 0 ELSE 2
      BY <1>1, <3>4, Made, NodeValues DEF n
    <3> HIDE DEF made
    <3> QED BY <2>0, <3>3, <3>5
  <2>2. ASSUME NEW s \in Names, NEW w \in Names,
               e = Equal(s, w) \/ e = Unequal(s, w)
        PROVE  /\ made \in T
               /\ V[made] = IF (V[e] = n) = (type = "equal") THEN 2 ELSE 0
    <3>1. e # NULL /\ Op(e) \in Comparisons /\ Op(e) # "not"
          /\ Op(e) # "symbol" /\ Op(e) \notin Operators
      <4>1. Op(e) = "equal" \/ Op(e) = "unequal"
        BY <2>2 DEF Op, Equal, Unequal
      <4>2. Op(NULL) = "none"
        BY DEF Op, NULL
      <4> QED BY <4>1, <4>2 DEF Comparisons, Operators
    <3>2. made = IF (type = "equal") = (v = "y") THEN e ELSE Not(e)
      BY <3>1 DEF Compares, TransCompare
    <3>3. V[e] = 0 \/ V[e] = 2
      BY <2>2, NodeValues
    <3>4. Not(e) \in T /\ V[Not(e)] = 2 - V[e]
      BY Made, NodeValues
    <3> HIDE DEF made
    <3> QED BY <1>1, <2>0, <3>2, <3>3, <3>4
  <2>3. ASSUME NEW a \in T, e = Not(a)
        PROVE  /\ made \in T
               /\ V[made] = IF (V[e] = n) = (type = "equal") THEN 2 ELSE 0
    <3>1. e # NULL /\ Op(e) = "not" /\ e[2] = a
      BY <2>3 DEF Op, Not, NULL
    <3> DEFINE other == IF type = "equal" THEN "unequal" ELSE "equal"
    <3>2. made = C[<<a, other>>]
      BY <3>1 DEF Compares, TransCompare, Operators, Comparisons
    <3>3. a \in Q /\ V[a] # 1 /\ V[a] \in 0 .. 2
      BY <1>2, <2>3 DEF NoNotOfModule
    <3>4. a \in S /\ other \in Comparisons
      BY <1>3, <2>3, Lighter DEF Comparisons
    <3>5. /\ made \in T
          /\ V[made] = IF (V[a] = n) = (other = "equal") THEN 2 ELSE 0
      BY <3>2, <3>3, <3>4
    <3>6. V[e] = 2 - V[a]
      BY <2>3, NodeValues
    <3> HIDE DEF made
    <3> QED BY <1>1, <2>0, <3>3, <3>5, <3>6
  <2>4. ASSUME NEW op \in Operators, NEW a \in T, NEW b \in T,
               e = <<op, a, b>>
        PROVE  /\ made \in T
               /\ V[made] = IF (V[e] = n) = (type = "equal") THEN 2 ELSE 0
    <3>1. e # NULL /\ Op(e) = op /\ e[2] = a /\ e[3] = b
      BY <2>4 DEF Op, NULL
    <3> DEFINE c == C[<<a, "equal">>]
               d == C[<<b, "equal">>]
               both == <<CompareWith(op, v), c, d>>
    <3>2. made = IF type = "unequal" THEN Not(both) ELSE both
      BY <3>1 DEF Compares, TransCompare, CompareOperands, Operators, Comparisons
    <3>3. a \in Q /\ b \in Q
      BY <2>4 DEF NoNotOfModule
    <3>4. a \in S /\ b \in S /\ "equal" \in Comparisons
      BY <1>3, <2>4, Lighter DEF Comparisons
    <3>5. /\ c \in T /\ V[c] = IF V[a] = n THEN 2 ELSE 0
          /\ d \in T /\ V[d] = IF V[b] = n THEN 2 ELSE 0
      BY <3>3, <3>4
    <3> HIDE DEF c, d
    <3>6. both \in T /\ Not(both) \in T
      <4>1. CompareWith(op, v) \in Operators
        BY DEF CompareWith, Operators
      <4> QED BY <3>5, <4>1, Made
    <3>7. V[Not(both)] = 2 - V[both]
      BY <3>6, NodeValues
    <3>8. V[both] = IF V[e] = n THEN 2 ELSE 0
      <4>1. CASE op = "and" /\ v = "y"
        <5>1. both = <<"and", c, d>>
          BY <4>1 DEF CompareWith
        <5>2. V[both] = IF V[c] <= V[d] THEN V[c] ELSE V[d]
          <6> HIDE DEF both
          <6> QED BY <1>2, <3>5, <5>1
        <5>3. V[e] = IF V[a] <= V[b] THEN V[a] ELSE V[b]
          BY <1>2, <2>4, <4>1
        <5> HIDE DEF both
        <5> QED BY <1>1, <1>2, <3>5, <4>1, <5>2, <5>3
      <4>2. CASE op = "and" /\ v = "n"
        <5>1. both = <<"or", c, d>>
          BY <4>2 DEF CompareWith
        <5>2. V[both] = IF V[c] <= V[d] THEN V[d] ELSE V[c]
          <6> HIDE DEF both
          <6> QED BY <1>2, <3>5, <5>1
        <5>3. V[e] = IF V[a] <= V[b] THEN V[a] ELSE V[b]
          BY <1>2, <2>4, <4>2
        <5> HIDE DEF both
        <5> QED BY <1>1, <1>2, <3>5, <4>2, <5>2, <5>3
      <4>3. CASE op = "or" /\ v = "y"
        <5>1. both = <<"or", c, d>>
          BY <4>3 DEF CompareWith
        <5>2. V[both] = IF V[c] <= V[d] THEN V[d] ELSE V[c]
          <6> HIDE DEF both
          <6> QED BY <1>2, <3>5, <5>1
        <5>3. V[e] = IF V[a] <= V[b] THEN V[b] ELSE V[a]
          BY <1>2, <2>4, <4>3
        <5> HIDE DEF both
        <5> QED BY <1>1, <1>2, <3>5, <4>3, <5>2, <5>3
      <4>4. CASE op = "or" /\ v = "n"
        <5>1. both = <<"and", c, d>>
          BY <4>4 DEF CompareWith
        <5>2. V[both] = IF V[c] <= V[d] THEN V[c] ELSE V[d]
          <6> HIDE DEF both
          <6> QED BY <1>2, <3>5, <5>1
        <5>3. V[e] = IF V[a] <= V[b] THEN V[b] ELSE V[a]
          BY <1>2, <2>4, <4>4
        <5> HIDE DEF both
        <5> QED BY <1>1, <1>2, <3>5, <4>4, <5>2, <5>3
      <4> QED BY <4>1, <4>2, <4>3, <4>4 DEF Operators
    <3> HIDE DEF made, both
    <3> QED BY <2>0, <3>2, <3>6, <3>7, <3>8
  <2>5. \/ \E s \in Names, lender \in Nat : e = Borrowed(s, lender)
        \/ \E s, w \in Names : e = Equal(s, w) \/ e = Unequal(s, w)
        \/ \E a \in T : e = Not(a)
        \/ \E op \in Operators, a, b \in T : e = <<op, a, b>>
    BY DEF Trees, Leaf
  <2> HIDE DEF made
  <2>6. made \in T /\ V[made] = IF (V[e] = n) = (type = "equal") THEN 2 ELSE 0
    BY <2>1, <2>2, <2>3, <2>4, <2>5
  <2> QED BY <2>6 DEF made
<1>4. T \subseteq S
  <2> HIDE DEF S
  <2> QED BY <1>3, ByWeight
<1>5. \A e \in Q : Right(e)
  BY <1>4 DEF NoNotOfModule
<1> QED BY <1>5 DEF n

(* D says of all trees whether they depend on s.                           *)
DependsOn(D, T, s) ==
  \A e \in T : D[e] = DependsSymbol(e, s, D)

(* For every expression and all values: one that depends on a symbol as    *)
(* expr_depends_symbol (expr.c:797-824) sees it is n when that symbol is,  *)
(* so an option put below it in the menu is not shown without it.          *)
THEOREM DependsIsTrue ==
  ASSUME NEW T, NEW weight, Trees(T, weight), NEW values \in Values,
         NEW V, Valuation(V, T, values), NEW s \in Names,
         ValueOf(values, s) = 0, NEW D, DependsOn(D, T, s)
  PROVE  \A e \in T : D[e] => V[e] = 0
<1> DEFINE S == {e \in T : D[e] => V[e] = 0}
<1>1. ASSUME NEW e \in T, \A d \in T : weight[d] < weight[e] => d \in S
      PROVE  e \in S
  <2> SUFFICES ASSUME D[e] PROVE V[e] = 0
    OBVIOUS
  <2>1. ASSUME NEW r \in Names, NEW lender \in Nat, e = Borrowed(r, lender)
        PROVE  V[e] = 0
    <3>1. Op(e) = "symbol" /\ e[2] = r
      BY <2>1 DEF Op, Borrowed
    <3>2. r = s
      BY <3>1 DEF DependsOn, DependsSymbol
    <3> QED BY <2>1, <3>2, NodeValues
  <2>2. ASSUME NEW r \in Names, NEW v \in Names, e = Equal(r, v)
        PROVE  V[e] = 0
    <3>1. Op(e) = "equal" /\ e[2] = r /\ e[3] = v
      BY <2>2 DEF Op, Equal
    <3>2. r = s /\ v \in {"y", "m"}
      BY <3>1 DEF DependsOn, DependsSymbol
    <3>3. ValueOf(values, v) # 0
      BY <3>2 DEF ValueOf
    <3> QED BY <2>2, <3>2, <3>3, NodeValues
  <2>3. ASSUME NEW r \in Names, NEW v \in Names, e = Unequal(r, v)
        PROVE  V[e] = 0
    <3>1. Op(e) = "unequal" /\ e[2] = r /\ e[3] = v
      BY <2>3 DEF Op, Unequal
    <3>2. r = s /\ v = "n"
      BY <3>1 DEF DependsOn, DependsSymbol
    <3>3. ValueOf(values, v) = 0
      BY <3>2 DEF ValueOf
    <3> QED BY <2>3, <3>2, <3>3, NodeValues
  <2>4. ASSUME NEW a \in T, e = Not(a) PROVE V[e] = 0
    <3>1. Op(e) = "not"
      BY <2>4 DEF Op, Not
    <3> QED BY <3>1 DEF DependsOn, DependsSymbol
  <2>5. ASSUME NEW op \in Operators, NEW a \in T, NEW b \in T, e = <<op, a, b>>
        PROVE  V[e] = 0
    <3>1. Op(e) = op /\ e[2] = a /\ e[3] = b
      BY <2>5 DEF Op
    <3>2. op = "and" /\ (D[a] \/ D[b])
      BY <3>1 DEF DependsOn, DependsSymbol, Operators
    <3>3. a \in S /\ b \in S
      BY <1>1, <2>5, Lighter
    <3>4. V[a] = 0 \/ V[b] = 0
      BY <3>2, <3>3
    <3>5. /\ \A x \in T : V[x] \in 0 .. 2
          /\ \A x, y \in T :
               /\ V[<<"and", x, y>>] = IF V[x] <= V[y] THEN V[x] ELSE V[y]
               /\ V[<<"or", x, y>>] = IF V[x] <= V[y] THEN V[y] ELSE V[x]
      BY ValuesTyped
    <3>6. V[e] = IF V[a] <= V[b] THEN V[a] ELSE V[b]
      <4>1. e = <<"and", a, b>>
        BY <2>5, <3>2
      <4> QED BY <3>5, <4>1
    <3> QED BY <3>4, <3>5, <3>6
  <2> QED BY <2>1, <2>2, <2>3, <2>4, <2>5 DEF Trees, Leaf
<1>2. T \subseteq S
  <2> HIDE DEF S
  <2> QED BY <1>1, ByWeight
<1> QED BY <1>2
=============================================================================
