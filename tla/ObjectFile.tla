------------------------------- MODULE ObjectFile -------------------------------
(***************************************************************************)
(* What the lock of ObjectLock is for: one file's data and attributes in   *)
(* Swift while handles write it, attributes are changed and the file is    *)
(* renamed (svfs/handle.go, Setattr, Setxattr, Removexattr, copy and       *)
(* rename of svfs/object.go).                                              *)
(*                                                                         *)
(* A file is one object here.  An upload replaces it, with all its         *)
(* attributes, when it ends; a POST replaces all its attributes.  The node *)
(* has two names, o.path and o.so.Name: uploads and POSTs go to the        *)
(* second, everything else goes by the first, and a rename changes one     *)
(* after the other.                                                        *)
(*                                                                         *)
(* The kernel's lock on the inode keeps changes of attributes and renames  *)
(* apart from each other, but neither from a Release nor from an open.     *)
(* Without RenameRaces, applications keep renames and writers apart: a     *)
(* file is renamed when the handles that wrote it have been released, and  *)
(* opened for writing again when the rename is over.  Readers need not     *)
(* care.                                                                   *)
(***************************************************************************)
EXTENDS ObjectLock

CONSTANTS
  FileNames,   \* names the file may have
  FirstName,   \* the one it has first
  Xattrs,      \* extended attributes
  Canonical,   \* those with a name that is a canonical header key as it is
  RenameRaces  \* applications rename a file once they have closed it, and open
               \* it for writing while it is being renamed, as the kernel lets them

Keys == {"mtime"} \cup Xattrs

ASSUME FileAssumption ==
  /\ FirstName \in FileNames
  /\ "mtime" \notin Xattrs /\ Canonical \subseteq Xattrs
  /\ "none" \notin Writers \cup FileNames /\ "initial" \notin Writers
  /\ RenameRaces \in BOOLEAN

VARIABLES
  objects,   \* the objects in Swift: whose data, and which attributes
  path,      \* o.path
  soName,    \* o.so.Name, also that of the node's copy
  key,       \* the path changeCache has the object under
  sh,        \* the attributes the node has
  goal,      \* where each upload goes to
  change,    \* what the request being served does to the attributes
  renaming,  \* the new name, once the object has been copied, and the copied node
  expected,  \* history: whose data the file should have
  due        \* history: the attributes whose POST Swift has answered OK since
             \* the file was last written, and that no later request touched

nodeVars == <<path, soName, key, sh>>
historyVars == <<expected, due>>
fileVars == <<objects, nodeVars, goal, change, renaming, historyVars>>
allVars == <<vars, fileVars>>

NoObject == [data |-> "none", attrs |-> {}]
NoRename == [to |-> "none", locked |-> FALSE, writing |-> FALSE]
NoChange == [set |-> TRUE, attr |-> "mtime"]
Changes == {c \in [set : BOOLEAN, attr : Keys] : c.set \/ c.attr \in Xattrs}

FileTypeOK ==
  /\ objects \in [FileNames -> [data : Writers \cup {"none", "initial"}, attrs : SUBSET Keys]]
  /\ path \in FileNames /\ soName \in FileNames /\ key \in FileNames
  /\ sh \subseteq Keys
  /\ goal \in [Writers -> FileNames]
  /\ change \in [Updaters -> Changes]
  /\ renaming \in [to : FileNames \cup {"none"}, locked : BOOLEAN, writing : BOOLEAN]
  /\ expected \in Writers \cup {"initial"}
  /\ due \subseteq Keys

(* A file that a listing has found: its node has what Swift has.           *)
FileInit ==
  /\ Init
  /\ sh \in SUBSET Keys
  /\ objects = [n \in FileNames |->
                  IF n = FirstName THEN [data |-> "initial", attrs |-> sh] ELSE NoObject]
  /\ path = FirstName /\ soName = FirstName /\ key = FirstName
  /\ goal = [w \in Writers |-> FirstName]
  /\ change = [u \in Updaters |-> NoChange]
  /\ renaming = NoRename
  /\ expected = "initial" /\ due = {}

Renaming == renaming.to # "none"

-----------------------------------------------------------------------------
(* Handles.                                                                *)
OpenFile(w) == (RenameRaces \/ ~Renaming) /\ Open(w) /\ UNCHANGED fileVars
OpenFileRead(r) == OpenRead(r) /\ UNCHANGED fileVars

AddPath(w) ==
  /\ Add(w) /\ key' = path
  /\ UNCHANGED <<objects, path, soName, sh, goal, change, renaming, historyVars>>

(* The upload goes to so.Name.  It will replace the attributes.            *)
TruncateFile(w) ==
  /\ Truncate(w)
  /\ goal' = [goal EXCEPT ![w] = soName]
  /\ due' = {}
  /\ UNCHANGED <<objects, nodeVars, change, renaming, expected>>

CloseFile(h) ==
  /\ Close(h)
  /\ expected' = IF wd[h] THEN h ELSE expected
  /\ UNCHANGED <<objects, nodeVars, goal, change, renaming, due>>

UploadEnds(h) ==
  /\ CloseWriter(h)
  /\ objects' = IF wd[h] THEN [objects EXCEPT ![goal[h]] = [data |-> h, attrs |-> {}]]
                ELSE objects
  /\ UNCHANGED <<nodeVars, goal, change, renaming, historyVars>>

(* changeCache.Exist is asked for the path the node has now.               *)
ExistPath(h) ==
  /\ Goes(h, "exist", IF changing /\ key = path THEN "remove" ELSE "idle")
  /\ UNCHANGED <<locked, changing, writing, wd, fatal, fileVars>>

-----------------------------------------------------------------------------
(* Attributes.                                                             *)
UpdateFile(u) ==
  /\ ~Renaming /\ Idle(Updaters)
  /\ Update(u)
  /\ \E c \in Changes : change' = [change EXCEPT ![u] = c]
  /\ UNCHANGED <<objects, nodeVars, goal, renaming, historyVars>>

(* A handler first looks at what the node has, whatever Swift has: a value *)
(* that is the same need not be set, an attribute that is not there need   *)
(* not be removed.  Any attribute can have the value that is compared: the *)
(* mtime its own, an extended attribute the hexadecimal form of its own    *)
(* or, if the node has none under the name as it is given, the empty one.  *)
(* Removexattr, too, looks for the name as it is given, and finds only     *)
(* canonical ones.                                                         *)
Removable(c) == ~c.set /\ c.attr \in sh \cap Canonical
Answered(u) == change' = [change EXCEPT ![u] = NoChange]
NothingToDo(u) ==
  /\ AnswerAtOnce(u) /\ ~Removable(change[u]) /\ Answered(u)
  /\ UNCHANGED <<objects, nodeVars, goal, renaming, historyVars>>
CheckFile(u) ==
  /\ Check(u) /\ (change[u].set \/ Removable(change[u]))
  /\ UNCHANGED fileVars

(* Setattr sends all attributes of the node with the mtime; Setxattr and   *)
(* Removexattr send the extended ones only, and the mtime is gone from     *)
(* Swift.                                                                  *)
SentPlain(c, known) == IF c.attr = "mtime" THEN {"mtime"} ELSE known \cap Xattrs  \* mutant
Sent(c, known) == IF c.attr = "mtime" THEN known ELSE known \cap Xattrs
Known(c) == IF c.set THEN sh \cup {c.attr} ELSE sh \ {c.attr}

(* The node has changed when the POST is sent, also if it then fails, with *)
(* or without effect; the handler answers with the error.                  *)
PostAttributes(u) ==
  LET c == change[u]
      touched == IF c.attr = "mtime" THEN {"mtime"} ELSE {c.attr, "mtime"}
      there == objects[soName] # NoObject
      posted == [objects EXCEPT ![soName].attrs = Sent(c, Known(c))]
  IN  /\ Post(u) \/ PostAndUnlock(u)
      /\ sh' = Known(c)
      /\ \/ /\ there /\ objects' = posted
            /\ due' = (due \ touched) \cup (IF c.set THEN {c.attr} ELSE {})
         \/ /\ objects' = objects \/ (there /\ objects' = posted)
            /\ due' = due \ touched
      /\ Answered(u)
      /\ UNCHANGED <<path, soName, key, goal, renaming, expected>>

-----------------------------------------------------------------------------
(* Rename: the object is copied and so is the node, mutex and all, but for *)
(* the object's description, which the two share; the old object is        *)
(* deleted, and the node becomes what the copy was.                        *)
RenameCopy(n) ==
  /\ ~Renaming /\ ClosedByWriters /\ Idle(Updaters)
  /\ RenameRaces \/ Idle(Writers)
  /\ n # path /\ objects[path] # NoObject /\ ~fatal
  /\ objects' = [objects EXCEPT ![n] = objects[path]]
  /\ renaming' = [to |-> n, locked |-> locked, writing |-> writing]
  /\ soName' = n
  /\ UNCHANGED <<vars, path, key, sh, goal, change, historyVars>>

RenameDeleteKeepingPath ==  \* mutant: the node keeps its old path
  /\ Renaming
  /\ objects' = [objects EXCEPT ![path] = NoObject]
  /\ locked' = renaming.locked /\ writing' = renaming.writing
  /\ renaming' = NoRename
  /\ UNCHANGED <<pc, changing, wd, fatal, path, soName, key, sh, goal, change, historyVars>>
RenameDelete ==
  /\ Renaming
  /\ objects' = [objects EXCEPT ![path] = NoObject]
  /\ path' = renaming.to
  /\ locked' = renaming.locked /\ writing' = renaming.writing
  /\ renaming' = NoRename
  /\ UNCHANGED <<pc, changing, wd, fatal, soName, key, sh, goal, change, historyVars>>

-----------------------------------------------------------------------------
LockStep(w) == (Lock(w) \/ Mark(w)) /\ UNCHANGED fileVars
WaitStep(u) == Acquire(u) /\ UNCHANGED fileVars
ServeFile(h) ==
  \/ UploadEnds(h) \/ ExistPath(h)
  \/ (Unmark(h) \/ Remove(h) \/ Unlock(h)) /\ UNCHANGED fileVars

FileNext ==
  \/ \E w \in Writers : OpenFile(w) \/ LockStep(w) \/ AddPath(w) \/ TruncateFile(w)
  \/ \E r \in Readers : OpenFileRead(r)
  \/ \E h \in Handles : CloseFile(h) \/ ServeFile(h)
  \/ \E u \in Updaters : UpdateFile(u) \/ NothingToDo(u) \/ CheckFile(u) \/ WaitStep(u) \/ PostAttributes(u)
  \/ \E n \in FileNames : RenameCopy(n)
  \/ RenameDelete
FileSpec == FileInit /\ [][FileNext]_allVars

(* As in ObjectLock; and Swift answers a rename.                           *)
FileFairness ==
  /\ \A w \in Writers :
       /\ SF_allVars(Lock(w) /\ UNCHANGED fileVars)
       /\ WF_allVars(AddPath(w)) /\ WF_allVars(Mark(w) /\ UNCHANGED fileVars)
  /\ \A h \in Handles : WF_allVars(CloseFile(h)) /\ WF_allVars(ServeFile(h))
  /\ \A u \in Updaters :
       /\ WF_allVars(NothingToDo(u) \/ CheckFile(u)) /\ SF_allVars(WaitStep(u))
       /\ WF_allVars(PostAttributes(u))
  /\ WF_allVars(RenameDelete)
FileFairSpec == FileSpec /\ FileFairness

-----------------------------------------------------------------------------
(* docs/FAQ.md:8-9, handle.go:79-82: when nothing is under way, the file   *)
(* holds what the last application to close it wrote, under its name and   *)
(* under no other: uploads of successive handles end in the order of their *)
(* opening, however late a Release comes.                                  *)
Quiet == Idle(Processes) /\ ~Renaming
ClosedIsStored ==
  Quiet =>
    /\ objects[path].data = expected
    /\ \A n \in FileNames \ {path} : objects[n] = NoObject

(* object.go:160-170, 183-196: an attribute whose POST was answered OK     *)
(* after the file was closed is in Swift, although the upload that         *)
(* replaces all attributes may have been under way when the request came;  *)
(* other attributes and renames do not take it away.  (But an extended     *)
(* attribute takes the mtime away, see Sent, and a request that finds      *)
(* NothingToDo is answered OK without a POST.)                             *)
AttributesStored == Quiet => due \subseteq objects[path].attrs

(* What makes these hold from step to step.  A rename is alone but for     *)
(* readers, and finds the mutex that it copies free.  The names            *)
(* of the node agree but for a rename, and with those of the cache of      *)
(* changing objects and of an upload.                                      *)
RenameAlone ==
  IF Renaming
  THEN /\ Idle(Writers \cup Updaters) /\ ~locked /\ ~writing
       /\ ~renaming.locked /\ ~renaming.writing
       /\ renaming.to # path /\ soName = renaming.to
       /\ objects[renaming.to] = objects[path]
  ELSE soName = path
NamesAgree ==
  /\ changing => key = path
  /\ \A h \in Handles : wd[h] => h \in Writers /\ goal[h] = path
  /\ \A n \in FileNames \ {path, renaming.to} : objects[n] = NoObject
(* The data are there, or their upload is what a Release has still to end; *)
(* the attributes are there unless the file is being written.              *)
Ending(w) == wd[w] /\ pc[w] = "release"
DataOnTheirWay ==
  /\ objects[path].data # "none"
  /\ \A w \in Writers : Ending(w) => expected = w
  /\ (\A w \in Writers : ~Ending(w)) => objects[path].data = expected
AttributesKnown ==
  /\ due \subseteq sh
  /\ due \subseteq objects[path].attrs
  /\ \A w \in Writers : wd[w] => due = {}
FileInvariant ==
  FileTypeOK /\ RenameAlone /\ NamesAgree /\ DataOnTheirWay /\ AttributesKnown
=============================================================================
