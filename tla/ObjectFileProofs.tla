--------------------------- MODULE ObjectFileProofs ---------------------------
(***************************************************************************)
(* The data and the attributes of a file are where they belong, for any    *)
(* number of handles, requests and names, as long as applications do not   *)
(* share a file that is open for writing, rename it when the handles that  *)
(* wrote it have been released, and open it for writing again when the     *)
(* rename is over.                                                         *)
(***************************************************************************)
EXTENDS ObjectFile, ObjectLockProofs

FileInv == Inv /\ FileInvariant

USE FileAssumption, LockAssumption DEF Handles, Processes

LEMMA FileInvInit == FileInit => FileInv
<1> SUFFICES ASSUME FileInit PROVE FileInv
  OBVIOUS
<1>1. Inv
  BY InvInit DEF FileInit
<1>2. FileTypeOK
  BY DEF FileInit, FileTypeOK, NoRename, NoObject, Keys, Changes, NoChange
<1>3. ~Renaming /\ RenameAlone
  BY DEF FileInit, RenameAlone, Renaming, NoRename
<1>4. \A h \in Handles : ~wd[h]
  BY DEF FileInit, Init
<1>5. NamesAgree
  BY <1>4 DEF FileInit, Init, NamesAgree, NoRename
<1>6. DataOnTheirWay /\ AttributesKnown
  BY <1>4 DEF FileInit, Init, DataOnTheirWay, AttributesKnown, Ending
<1> QED
  BY <1>1, <1>2, <1>3, <1>5, <1>6 DEF FileInv, FileInvariant

-----------------------------------------------------------------------------
(* When nobody writes or updates it, the file is not locked, not marked,   *)
(* and not in the cache of changing objects.                               *)
LEMMA IdleIsFree ==
  ASSUME Inv, Idle(Writers \cup Updaters)
  PROVE  ~locked /\ ~writing /\ ~changing /\ \A w \in Writers : ~wd[w]
BY DEF Inv, LockInvariant, LockedByHolder, ChangingByWriter, MarkedByWriter, Idle, Holds,
       Opened, Releasing

(* A rename is alone but for readers, so that whoever writes or updates    *)
(* the file knows its name.                                                *)
LEMMA BusyIsNamed ==
  ASSUME FileInv, NEW p \in Writers \cup Updaters, pc[p] # "idle"
  PROVE  ~Renaming /\ soName = path
BY DEF FileInv, FileInvariant, RenameAlone, Idle

(* So the steps during a rename are those of readers, and leave it alone.  *)
LEMMA StillAlone ==
  ASSUME FileInv, NEW p \in Processes, NEW from, NEW to, Goes(p, from, to),
         from # "idle" \/ p \in Readers, Renaming
  PROVE  p \in Readers /\ Idle(Writers \cup Updaters)'
<1>1. p \in Readers
  BY BusyIsNamed DEF Goes
<1>2. \A q \in Writers \cup Updaters : q # p /\ pc[q] = "idle"
  BY <1>1 DEF FileInv, FileInvariant, RenameAlone, Idle
<1> QED
  BY <1>1, <1>2 DEF Goes, Idle, FileInv, Inv, LockInvariant, TypeOK

(* One upload at a time.                                                   *)
LEMMA OneUpload ==
  ASSUME Inv, NEW w \in Writers, NEW v \in Writers, wd[w],
         pc[v] \in Opened \cup Releasing
  PROVE  v = w
BY DEF Inv, LockInvariant, MarkedByWriter, OneHolder, Holds, Opened, Releasing

-----------------------------------------------------------------------------
(* Every step of the file is a step of its lock, or none.                  *)
LEMMA FileStepIsLockStep ==
  ASSUME ~RenameRaces, FileInv, [FileNext]_allVars
  PROVE  [Next]_vars
<1>1. ASSUME NEW h \in Handles, ExistPath(h) PROVE Exist(h)
  BY <1>1 DEF ExistPath, Exist, FileInv, FileInvariant, NamesAgree
<1>2. ASSUME RenameDelete PROVE UNCHANGED vars
  <2>1. ~locked /\ ~writing /\ ~renaming.locked /\ ~renaming.writing
    BY <1>2 DEF RenameDelete, FileInv, FileInvariant, RenameAlone
  <2>2. locked \in BOOLEAN /\ writing \in BOOLEAN
        /\ renaming.locked \in BOOLEAN /\ renaming.writing \in BOOLEAN
    BY DEF FileInv, FileInvariant, FileTypeOK, Inv, LockInvariant, TypeOK
  <2>3. locked' = locked /\ writing' = writing
    BY <1>2, <2>1, <2>2 DEF RenameDelete
  <2> QED
    BY <1>2, <2>3 DEF RenameDelete, vars
<1>3. ASSUME NEW n \in FileNames, RenameCopy(n) PROVE UNCHANGED vars
  BY <1>3 DEF RenameCopy
<1>4. ASSUME NEW w \in Writers, OpenFile(w) \/ LockStep(w) \/ AddPath(w) \/ TruncateFile(w)
      PROVE  Next
  BY <1>4 DEF OpenFile, LockStep, AddPath, TruncateFile, Next
<1>5. ASSUME NEW r \in Readers, OpenFileRead(r) PROVE Next
  BY <1>5 DEF OpenFileRead, Next
<1>6. ASSUME NEW h \in Handles, CloseFile(h) \/ ServeFile(h) PROVE Next
  BY <1>1, <1>6 DEF CloseFile, ServeFile, UploadEnds, Next, Serve
<1>7. ASSUME NEW u \in Updaters, UpdateFile(u) \/ NothingToDo(u) \/ CheckFile(u) \/ WaitStep(u)
                              \/ PostAttributes(u)
      PROVE  Next
  BY <1>7 DEF UpdateFile, NothingToDo, CheckFile, WaitStep, PostAttributes, Next
<1>8. ASSUME UNCHANGED allVars PROVE UNCHANGED vars
  BY <1>8 DEF allVars
<1> QED
  BY <1>2, <1>3, <1>4, <1>5, <1>6, <1>7, <1>8 DEF FileNext

-----------------------------------------------------------------------------
(* Steps of the lock that do not touch what the file has: only "Ending"    *)
(* could change, and it does not.                                          *)
LEMMA PlainStep ==
  ASSUME FileInvariant, UNCHANGED fileVars, wd' = wd,
         changing' => changing,
         Renaming => Idle(Writers \cup Updaters)' /\ UNCHANGED <<locked, writing>>,
         \A w \in Writers : Ending(w)' <=> Ending(w)
  PROVE  FileInvariant'
<1> USE DEF fileVars, nodeVars, historyVars
<1>1. FileTypeOK'
  BY DEF FileInvariant, FileTypeOK
<1>2. RenameAlone'
  BY DEF FileInvariant, RenameAlone, Renaming, Idle
<1>3. NamesAgree'
  BY DEF FileInvariant, NamesAgree
<1>4. DataOnTheirWay'
  BY DEF FileInvariant, DataOnTheirWay
<1>5. AttributesKnown'
  BY DEF FileInvariant, AttributesKnown
<1> QED
  BY <1>1, <1>2, <1>3, <1>4, <1>5 DEF FileInvariant

(* A step of one process from a place that is not "release" to one that is *)
(* not, either, without an upload beginning or ending.                     *)
LEMMA GoesOn ==
  ASSUME FileInv, NEW p \in Processes, NEW from, NEW to, Goes(p, from, to),
         from # "release", to # "release",
         wd' = wd
  PROVE  \A w \in Writers : Ending(w)' <=> Ending(w)
BY DEF Goes, Ending, FileInv, Inv, LockInvariant, TypeOK

LEMMA FileInvStep ==
  ASSUME ~Sharing, ~RenameRaces, FileInv, [FileNext]_allVars
  PROVE  FileInv'
<1> USE DEF FileInv
<1>0. Inv'
  BY FileStepIsLockStep, InvStep
<1> SUFFICES FileInvariant'
  BY <1>0
<1>1. ASSUME NEW w \in Writers, OpenFile(w) PROVE FileInvariant'
  <2>1. ~Renaming
    BY <1>1 DEF OpenFile
  <2> QED
    BY <1>1, <2>1, PlainStep, GoesOn DEF OpenFile, Open
<1>2. ASSUME NEW w \in Writers, LockStep(w) PROVE FileInvariant'
  <2>1. ~Renaming
    BY <1>2, BusyIsNamed DEF LockStep, Lock, Mark, Goes
  <2> QED
    BY <1>2, <2>1, PlainStep, GoesOn DEF LockStep, Lock, Mark
<1>3. ASSUME NEW w \in Writers, AddPath(w) PROVE FileInvariant'
  <2>1. ~Renaming
    BY <1>3, BusyIsNamed DEF AddPath, Add, Goes
  <2>2. \A v \in Writers : Ending(v)' <=> Ending(v)
    BY <1>3, GoesOn DEF AddPath, Add
  <2> USE <1>3 DEF AddPath, Add, historyVars
  <2>3. FileTypeOK' /\ RenameAlone'
    BY <2>1 DEF FileInvariant, FileTypeOK, RenameAlone, Renaming
  <2>4. NamesAgree'
    BY DEF FileInvariant, NamesAgree
  <2>5. DataOnTheirWay' /\ AttributesKnown'
    BY <2>2 DEF FileInvariant, DataOnTheirWay, AttributesKnown
  <2> QED
    BY <2>3, <2>4, <2>5 DEF FileInvariant
<1>4. ASSUME NEW w \in Writers, TruncateFile(w) PROVE FileInvariant'
  <2>1. ~Renaming /\ soName = path
    BY <1>4, BusyIsNamed DEF TruncateFile, Truncate, Goes
  <2> USE <1>4 DEF TruncateFile, Truncate, Goes, nodeVars
  <2>2. FileTypeOK'
    BY DEF FileInvariant, FileTypeOK
  <2>3. RenameAlone'
    BY <2>1 DEF RenameAlone, Renaming
  <2>4. NamesAgree'
    BY <2>1 DEF FileInvariant, NamesAgree, FileTypeOK, Inv, LockInvariant, TypeOK
  <2>5. \A v \in Writers : ~Ending(v) /\ ~Ending(v)'
    <3>1. \A v \in Writers : wd[v] => w = v
      BY OneUpload DEF Opened
    <3> QED
      BY <3>1 DEF Ending, Inv, LockInvariant, TypeOK
  <2>6. DataOnTheirWay'
    BY <2>5 DEF FileInvariant, DataOnTheirWay
  <2>7. AttributesKnown'
    BY DEF FileInvariant, AttributesKnown
  <2> QED
    BY <2>2, <2>3, <2>4, <2>6, <2>7 DEF FileInvariant
<1>5. ASSUME NEW r \in Readers, OpenFileRead(r) PROVE FileInvariant'
  <2>1. Renaming => Idle(Writers \cup Updaters)'
    BY <1>5, StillAlone DEF OpenFileRead, OpenRead
  <2> QED
    BY <1>5, <2>1, PlainStep, GoesOn DEF OpenFileRead, OpenRead
<1>6. ASSUME NEW h \in Handles, CloseFile(h) PROVE FileInvariant'
  <2> USE <1>6 DEF CloseFile, Close, Goes
  <2>1. CASE wd[h]
    <3>1. h \in Writers
      BY <2>1 DEF FileInvariant, NamesAgree
    <3>2. ~Renaming /\ soName = path
      BY <3>1, BusyIsNamed
    <3>3. \A v \in Writers : Ending(v)' <=> v = h
      BY <2>1, <3>1, OneUpload DEF Ending, Inv, LockInvariant, TypeOK, Opened, Releasing
    <3>4. FileTypeOK'
      BY <3>1 DEF FileInvariant, FileTypeOK, nodeVars
    <3>5. RenameAlone' /\ NamesAgree' /\ AttributesKnown'
      BY <3>2 DEF FileInvariant, RenameAlone, NamesAgree, AttributesKnown, Renaming, nodeVars
    <3>6. DataOnTheirWay'
      BY <2>1, <3>1, <3>3 DEF FileInvariant, DataOnTheirWay, nodeVars
    <3> QED
      BY <3>4, <3>5, <3>6 DEF FileInvariant
  <2>2. CASE ~wd[h]
    <3>1. \A v \in Writers : Ending(v)' <=> Ending(v)
      BY <2>2 DEF Ending, Inv, LockInvariant, TypeOK
    <3>2. UNCHANGED fileVars
      BY <2>2 DEF fileVars, nodeVars, historyVars
    <3>3. Renaming => Idle(Writers \cup Updaters)'
      BY StillAlone
    <3> QED
      BY <3>1, <3>2, <3>3, PlainStep
  <2> QED
    BY <2>1, <2>2
<1>7. ASSUME NEW h \in Handles, UploadEnds(h) PROVE FileInvariant'
  <2> USE <1>7 DEF UploadEnds, CloseWriter, Goes, nodeVars, historyVars
  <2>2. CASE wd[h]
    <3>1. h \in Writers /\ goal[h] = path /\ expected = h /\ due = {}
      BY <2>2 DEF FileInvariant, NamesAgree, DataOnTheirWay, AttributesKnown, Ending
    <3>9. ~Renaming /\ soName = path
      BY <3>1, BusyIsNamed
    <3>2. objects' = [objects EXCEPT ![path] = [data |-> h, attrs |-> {}]]
      BY <2>2, <3>1
    <3>3. FileTypeOK'
      BY <3>1, <3>2 DEF FileInvariant, FileTypeOK
    <3>4. RenameAlone'
      BY <3>9 DEF RenameAlone, Renaming
    <3>5. NamesAgree'
      BY <3>2 DEF FileInvariant, NamesAgree, FileTypeOK, Inv, LockInvariant, TypeOK
    <3>6. \A v \in Writers : ~Ending(v)'
      BY <2>2, <3>1, OneUpload DEF Ending, Inv, LockInvariant, TypeOK, Releasing
    <3>7. objects'[path].data = h /\ h # "none"
      BY <3>1, <3>2 DEF FileInvariant, FileTypeOK
    <3>8. DataOnTheirWay' /\ AttributesKnown'
      BY <3>1, <3>6, <3>7 DEF FileInvariant, DataOnTheirWay, AttributesKnown
    <3> QED
      BY <3>3, <3>4, <3>5, <3>8 DEF FileInvariant
  <2>3. CASE ~wd[h]
    <3>1. wd' = wd /\ UNCHANGED fileVars
      BY <2>3 DEF fileVars, Inv, LockInvariant, TypeOK
    <3>2. \A v \in Writers : Ending(v)' <=> Ending(v)
      BY <2>3, <3>1 DEF Ending, Inv, LockInvariant, TypeOK
    <3>3. Renaming => Idle(Writers \cup Updaters)'
      BY StillAlone
    <3> QED
      BY <3>1, <3>2, <3>3, PlainStep
  <2> QED
    BY <2>2, <2>3
<1>8. ASSUME NEW h \in Handles, ExistPath(h) PROVE FileInvariant'
  <2>1. Renaming => Idle(Writers \cup Updaters)'
    BY <1>8, StillAlone DEF ExistPath
  <2> QED
    BY <1>8, <2>1, PlainStep, GoesOn DEF ExistPath
<1>9. ASSUME NEW h \in Handles, Unmark(h) \/ Remove(h) \/ Unlock(h), UNCHANGED fileVars
      PROVE  FileInvariant'
  <2>1. Renaming => Idle(Writers \cup Updaters)' /\ UNCHANGED <<locked, writing>>
    <3> SUFFICES ASSUME Renaming PROVE Idle(Writers \cup Updaters)' /\ UNCHANGED <<locked, writing>>
      OBVIOUS
    <3>1. h \in Readers /\ Idle(Writers \cup Updaters)'
      BY <1>9, StillAlone DEF Unmark, Remove, Unlock
    <3>2. Unmark(h)
      BY <1>9, <3>1 DEF Remove, Unlock, Goes, Inv, LockInvariant, ChangingByWriter
    <3>3. writing = FALSE
      BY DEF FileInvariant, RenameAlone, Inv, LockInvariant, TypeOK
    <3> QED
      BY <3>1, <3>2, <3>3 DEF Unmark
  <2> QED
    BY <1>9, <2>1, PlainStep, GoesOn DEF Unmark, Remove, Unlock
<1>10. ASSUME NEW u \in Updaters, UpdateFile(u) PROVE FileInvariant'
  <2>1. \A v \in Writers : Ending(v)' <=> Ending(v)
    BY <1>10, GoesOn DEF UpdateFile, Update
  <2> USE <1>10 DEF UpdateFile, Update, nodeVars, historyVars
  <2>2. FileTypeOK'
    BY DEF FileInvariant, FileTypeOK
  <2>3. RenameAlone' /\ NamesAgree'
    BY DEF FileInvariant, RenameAlone, NamesAgree, Renaming
  <2>4. DataOnTheirWay' /\ AttributesKnown'
    BY <2>1 DEF FileInvariant, DataOnTheirWay, AttributesKnown
  <2> QED
    BY <2>2, <2>3, <2>4 DEF FileInvariant
<1>11. ASSUME NEW u \in Updaters, CheckFile(u) \/ WaitStep(u) PROVE FileInvariant'
  <2>1. ~Renaming
    BY <1>11, BusyIsNamed DEF CheckFile, WaitStep, Check, Acquire, Goes
  <2> QED
    BY <1>11, <2>1, PlainStep, GoesOn DEF CheckFile, WaitStep, Check, Acquire
<1>12. ASSUME NEW u \in Updaters, NothingToDo(u) PROVE FileInvariant'
  <2>1. \A v \in Writers : Ending(v)' <=> Ending(v)
    BY <1>12, GoesOn DEF NothingToDo, AnswerAtOnce
  <2>2. ~Renaming
    BY <1>12, BusyIsNamed DEF NothingToDo, AnswerAtOnce, Goes
  <2> USE <1>12 DEF NothingToDo, AnswerAtOnce, Answered, nodeVars, historyVars
  <2>3. FileTypeOK'
    BY DEF FileInvariant, FileTypeOK, NoChange, Changes, Keys
  <2>4. RenameAlone' /\ NamesAgree'
    BY <2>2 DEF FileInvariant, RenameAlone, NamesAgree, Renaming
  <2>5. DataOnTheirWay' /\ AttributesKnown'
    BY <2>1 DEF FileInvariant, DataOnTheirWay, AttributesKnown
  <2> QED
    BY <2>3, <2>4, <2>5 DEF FileInvariant
<1>13. ASSUME NEW u \in Updaters, PostAttributes(u) PROVE FileInvariant'
  <2> DEFINE c == change[u]
             touched == IF c.attr = "mtime" THEN {"mtime"} ELSE {c.attr, "mtime"}
             posted == [objects EXCEPT ![path].attrs = Sent(c, Known(c))]
  <2>1. pc[u] \in {"post", "held"} /\ ~Renaming /\ soName = path
    BY <1>13, BusyIsNamed DEF PostAttributes, Post, PostAndUnlock, Goes
  <2>2. \A w \in Writers : ~wd[w]
    BY <2>1 DEF Inv, UpdateAfterUpload
  <2>3. wd' = wd /\ changing' = changing
    BY <1>13 DEF PostAttributes, Post, PostAndUnlock
  <2>4. c.attr \in Keys /\ due \subseteq Keys /\ sh \subseteq Keys /\ Known(c) \subseteq Keys
        /\ Sent(c, Known(c)) \subseteq Keys
    BY DEF FileInvariant, FileTypeOK, Changes, Known, Sent, Keys
  <2>5. /\ sh' = Known(c) /\ change' = [change EXCEPT ![u] = NoChange]
        /\ UNCHANGED <<path, soName, key, goal, renaming, expected>>
    BY <1>13 DEF PostAttributes, Answered
  <2>6. \/ objects' = posted /\ due' = (due \ touched) \cup (IF c.set THEN {c.attr} ELSE {})
        \/ objects' \in {objects, posted} /\ due' = due \ touched
    BY <1>13, <2>1 DEF PostAttributes
  <2>7. /\ objects'[path].attrs \in {objects[path].attrs, Sent(c, Known(c))}
        /\ objects'[path].data = objects[path].data
        /\ \A n \in FileNames \ {path} : objects'[n] = objects[n]
        /\ objects' = posted => objects'[path].attrs = Sent(c, Known(c))
    BY <2>6 DEF FileInvariant, FileTypeOK
  <2>8. due' \subseteq Known(c) /\ due' \subseteq objects'[path].attrs
    <3>1. due \subseteq sh /\ due \subseteq Keys /\ due \subseteq objects[path].attrs
      BY DEF FileInvariant, FileTypeOK, AttributesKnown
    <3>2. due \ touched \subseteq Known(c) /\ due \ touched \subseteq Sent(c, Known(c))
      BY <2>4, <3>1 DEF Known, Sent, Keys
    <3>3. c.set => c.attr \in Known(c) /\ c.attr \in Sent(c, Known(c))
      BY <2>4 DEF Known, Sent, Keys
    <3> QED
      BY <2>6, <2>7, <3>1, <3>2, <3>3
  <2>9. FileTypeOK'
    BY <2>4, <2>5, <2>6, <2>8 DEF FileInvariant, FileTypeOK, NoChange, Changes, Keys
  <2>10. RenameAlone' /\ NamesAgree'
    BY <2>1, <2>3, <2>5, <2>7 DEF FileInvariant, RenameAlone, NamesAgree, Renaming
  <2>11. DataOnTheirWay' /\ AttributesKnown'
    BY <2>2, <2>3, <2>5, <2>7, <2>8 DEF FileInvariant, DataOnTheirWay, AttributesKnown, Ending
  <2> QED
    BY <2>9, <2>10, <2>11 DEF FileInvariant
<1>14. ASSUME NEW n \in FileNames, RenameCopy(n) PROVE FileInvariant'
  <2>1. Idle(Writers \cup Updaters) /\ ~locked /\ ~writing /\ ~changing /\ \A w \in Writers : ~wd[w]
    <3>1. Idle(Writers \cup Updaters)
      BY <1>14 DEF RenameCopy, Idle
    <3> QED
      BY <3>1, IdleIsFree
  <2> USE <1>14 DEF RenameCopy, historyVars, vars
  <2>2. n # "none" /\ Renaming' /\ Idle(Writers \cup Updaters)'
    BY <2>1 DEF Renaming, Idle
  <2>3. FileTypeOK'
    BY DEF FileInvariant, FileTypeOK, Inv, LockInvariant, TypeOK
  <2>4. RenameAlone'
    BY <2>1, <2>2 DEF RenameAlone, FileInvariant, FileTypeOK
  <2>5. NamesAgree'
    BY <2>1 DEF FileInvariant, NamesAgree, FileTypeOK, Renaming
  <2>6. DataOnTheirWay' /\ AttributesKnown'
    BY <2>1 DEF FileInvariant, FileTypeOK, DataOnTheirWay, AttributesKnown, Ending
  <2> QED
    BY <2>3, <2>4, <2>5, <2>6 DEF FileInvariant
<1>15. ASSUME RenameDelete PROVE FileInvariant'
  <2>1. Idle(Writers \cup Updaters) /\ ~changing /\ \A w \in Writers : ~wd[w]
    BY <1>15, IdleIsFree DEF RenameDelete, FileInvariant, RenameAlone
  <2>2. renaming.to \in FileNames \ {path} /\ soName = renaming.to
        /\ objects[renaming.to] = objects[path]
    BY <1>15 DEF RenameDelete, FileInvariant, RenameAlone, FileTypeOK, Renaming
  <2> USE <1>15 DEF RenameDelete, historyVars, NoRename
  <2>3. FileTypeOK'
    BY <2>2 DEF FileInvariant, FileTypeOK, NoObject
  <2>4. RenameAlone'
    BY <2>2 DEF RenameAlone, Renaming
  <2>5. NamesAgree'
    BY <2>1, <2>2 DEF FileInvariant, NamesAgree, FileTypeOK
  <2>6. objects'[path'] = objects[path]
    BY <2>2 DEF FileInvariant, FileTypeOK
  <2>7. DataOnTheirWay' /\ AttributesKnown'
    BY <2>1, <2>6 DEF FileInvariant, DataOnTheirWay, AttributesKnown, Ending
  <2> QED
    BY <2>3, <2>4, <2>5, <2>7 DEF FileInvariant
<1>16. CASE UNCHANGED allVars
  <2>1. UNCHANGED vars /\ UNCHANGED fileVars
    BY <1>16 DEF allVars
  <2>2. \A w \in Writers : Ending(w)' <=> Ending(w)
    BY <2>1 DEF vars, Ending
  <2>3. Renaming => Idle(Writers \cup Updaters)' /\ UNCHANGED <<locked, writing>>
    BY <2>1 DEF vars, Idle, FileInvariant, RenameAlone
  <2> QED
    BY <2>1, <2>2, <2>3, PlainStep DEF vars
<1>17. CASE FileNext
  <2>1. ASSUME NEW w \in Writers, OpenFile(w) \/ LockStep(w) \/ AddPath(w) \/ TruncateFile(w)
        PROVE  FileInvariant'
    BY <2>1, <1>1, <1>2, <1>3, <1>4
  <2>2. ASSUME NEW h \in Handles, CloseFile(h) \/ ServeFile(h) PROVE FileInvariant'
    BY <2>2, <1>6, <1>7, <1>8, <1>9 DEF ServeFile
  <2>3. ASSUME NEW u \in Updaters, \/ UpdateFile(u) \/ NothingToDo(u) \/ CheckFile(u)
                                 \/ WaitStep(u) \/ PostAttributes(u)
        PROVE  FileInvariant'
    BY <2>3, <1>10, <1>11, <1>13, <1>12
  <2> QED
    BY <1>17, <1>5, <1>14, <1>15, <2>1, <2>2, <2>3 DEF FileNext
<1> QED
  BY <1>16, <1>17

-----------------------------------------------------------------------------
(* The lock of a file does its work whatever is done to its data,          *)
(* attributes and name: one holder at a time (handle.go:79-82), nobody     *)
(* unlocks what is not locked (handle.go:55), no attributes are sent while *)
(* an upload is unfinished (object.go:160, 183).                           *)
THEOREM FileLockHolds ==
  ~Sharing /\ ~RenameRaces =>
    (FileSpec => [](LockInvariant /\ OneHolder /\ NeverFatal /\ UpdateAfterUpload))
<1> SUFFICES ASSUME ~Sharing, ~RenameRaces
             PROVE  FileSpec => [](LockInvariant /\ OneHolder /\ NeverFatal /\ UpdateAfterUpload)
  OBVIOUS
<1>1. FileInv /\ [FileNext]_allVars => FileInv'
  BY FileInvStep
<1>2. FileInv => LockInvariant /\ OneHolder /\ NeverFatal /\ UpdateAfterUpload
  BY DEF FileInv, Inv
<1> QED
  BY FileInvInit, <1>1, <1>2, PTL DEF FileSpec

(* The invariant itself.                                                   *)
THEOREM FileInvariantHolds == ~Sharing /\ ~RenameRaces => (FileSpec => []FileInvariant)
<1> SUFFICES ASSUME ~Sharing, ~RenameRaces PROVE FileSpec => []FileInvariant
  OBVIOUS
<1>1. FileInv /\ [FileNext]_allVars => FileInv'
  BY FileInvStep
<1>2. FileInv => FileInvariant
  BY DEF FileInv
<1> QED
  BY FileInvInit, <1>1, <1>2, PTL DEF FileSpec

(* When nothing is under way, the file holds what the last application to  *)
(* close it wrote, under its name and under no other (docs/FAQ.md:8-9).    *)
THEOREM ClosedIsStoredHolds == ~Sharing /\ ~RenameRaces => (FileSpec => []ClosedIsStored)
<1> SUFFICES ASSUME ~Sharing, ~RenameRaces PROVE FileSpec => []ClosedIsStored
  OBVIOUS
<1>1. FileInv /\ [FileNext]_allVars => FileInv'
  BY FileInvStep
<1>2. FileInv => ClosedIsStored
  <2> SUFFICES ASSUME FileInv, Quiet PROVE ClosedIsStored
    BY DEF ClosedIsStored
  <2>1. \A w \in Writers : ~Ending(w)
    BY DEF Quiet, Idle, Ending
  <2>2. renaming.to \notin FileNames
    BY DEF Quiet, Renaming
  <2> QED
    BY <2>1, <2>2 DEF ClosedIsStored, FileInv, FileInvariant, DataOnTheirWay, NamesAgree
<1> QED
  BY FileInvInit, <1>1, <1>2, PTL DEF FileSpec

(* Then an attribute that was set since the file was last written is in    *)
(* Swift (object.go:160-171, 183-199).                                     *)
THEOREM AttributesStoredHolds == ~Sharing /\ ~RenameRaces => (FileSpec => []AttributesStored)
<1> SUFFICES ASSUME ~Sharing, ~RenameRaces PROVE FileSpec => []AttributesStored
  OBVIOUS
<1>1. FileInv /\ [FileNext]_allVars => FileInv'
  BY FileInvStep
<1>2. FileInv => AttributesStored
  BY DEF AttributesStored, FileInv, FileInvariant, AttributesKnown
<1> QED
  BY FileInvInit, <1>1, <1>2, PTL DEF FileSpec
=============================================================================
