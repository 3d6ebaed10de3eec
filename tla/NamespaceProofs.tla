--------------------------- MODULE NamespaceProofs ---------------------------
(***************************************************************************)
(* The handlers of svfs/directory.go implement a namespace: for the only   *)
(* mount of a container, every call of a cache method or of Swift is a     *)
(* step of the tree of names that the kernel is promised, or none.         *)
(***************************************************************************)
EXTENDS DirectoryProofs

USE DirectoryAssumption

(* What Namespace calls a process's phase and its answer.                  *)
PhaseOf == [p \in Procs |-> Phase(p)]
Told(p) == <<reply[p], IF pc[p] = "answer" /\ req[p].op = "readdir" THEN listing[p] ELSE {} >>
ToldOf == [p \in Procs |-> Told(p)]

(* A step of p is one of p's in the namespace.                             *)
StepsAlone(p) ==
  /\ PhaseOf' = [PhaseOf EXCEPT ![p] = Phase(p)']
  /\ ToldOf' = [ToldOf EXCEPT ![p] = Told(p)']

LEMMA StepAlone ==
  ASSUME NEW p \in Procs,
         \A q \in Procs \ {p} : /\ pc'[q] = pc[q] /\ req'[q] = req[q]
                                /\ listing'[q] = listing[q] /\ reply'[q] = reply[q]
  PROVE  StepsAlone(p)
<1>1. \A q \in Procs \ {p} : Phase(q)' = Phase(q) /\ Told(q)' = Told(q)
  BY DEF Phase, Told
<1> QED
  BY <1>1 DEF StepsAlone, PhaseOf, ToldOf

(* The steps of the namespace, in the variables of Directory.              *)
LEMMA NamesIn ==
  ASSUME NEW d
  PROVE  NS!In(d) = Objects(d)
BY DEF NS!In, NS!AllNames, NS!SubDirs, SubDirs, Objects

Quiet(p) == UNCHANGED <<stored, req>> /\ Phase(p)' = Phase(p) /\ Told(p)' = Told(p)

LEMMA QuietStutters ==
  ASSUME NEW p \in Procs, StepsAlone(p), Quiet(p)
  PROVE  UNCHANGED NS!nsVars
<1>1. PhaseOf' = PhaseOf /\ ToldOf' = ToldOf
  BY DEF StepsAlone, Quiet, PhaseOf, ToldOf
<1> QED
  BY <1>1 DEF NS!nsVars, Quiet, PhaseOf, ToldOf, Told

LEMMA AddStep ==
  ASSUME NEW p \in Procs, StepsAlone(p), UNCHANGED req,
         Phase(p) = "called", Phase(p)' = "changed", Told(p)' = Told(p),
         req[p].op \in {"create", "symlink", "mkdir", "link", "rename"},
         stored' = stored \cup {NewTarget(req[p])}
  PROVE  NS!NSAdd(p)
<1>1. ToldOf' = ToldOf
  BY DEF StepsAlone, ToldOf
<1> QED
  BY <1>1 DEF NS!NSAdd, NS!New, NewTarget, StepsAlone, PhaseOf, ToldOf, Told

LEMMA DropStep ==
  ASSUME NEW p \in Procs, StepsAlone(p), UNCHANGED req,
         Phase(p) = "called", Phase(p)' = "changed", Told(p)' = Told(p),
         req[p].op = "remove", Target(req[p]) \in stored,
         req[p].name \in SubDirs => Objects(req[p].name) = {},
         stored' = stored \ {Target(req[p])}
  PROVE  NS!NSDrop(p)
<1>1. ToldOf' = ToldOf
  BY DEF StepsAlone, ToldOf
<1>2. req[p].name \in NS!SubDirs => NS!In(req[p].name) = {}
  BY NamesIn DEF NS!SubDirs, SubDirs
<1> QED
  BY <1>1, <1>2 DEF NS!NSDrop, NS!Old, Target, StepsAlone, PhaseOf, ToldOf, Told

LEMMA MovedStep ==
  ASSUME NEW p \in Procs, StepsAlone(p), UNCHANGED req,
         Phase(p) = "changed", Phase(p)' = "answered", Told(p)' = <<"OK", {}>>,
         req[p].op = "rename", {Target(req[p]), NewTarget(req[p])} \subseteq stored,
         stored' = stored \ {Target(req[p])}
  PROVE  NS!NSMoved(p)
BY DEF NS!NSMoved, NS!Old, NS!New, Target, NewTarget, StepsAlone, PhaseOf, ToldOf, Told

LEMMA AnswerStep ==
  ASSUME NEW p \in Procs, StepsAlone(p), UNCHANGED <<req, stored>>,
         NEW word \in {"OK", "ENOENT", "ENOTEMPTY", "ENOTSUP"}, NEW children \in SUBSET Names,
         \/ Phase(p) = "called" /\ NS!RightUnchanged(req[p], word, children)
         \/ Phase(p) = "changed" /\ NS!RightChanged(req[p], word, children),
         Phase(p)' = "answered", Told(p)' = <<word, children>>
  PROVE  NS!NSAnswer(p)
<1>1. children \in SUBSET NS!AllNames
  BY DEF NS!AllNames, NS!SubDirs, SubDirs
<1>2. \E w \in {"OK", "ENOENT", "ENOTEMPTY", "ENOTSUP"}, cs \in SUBSET NS!AllNames :
        /\ \/ PhaseOf[p] = "called" /\ NS!RightUnchanged(req[p], w, cs)
           \/ PhaseOf[p] = "changed" /\ NS!RightChanged(req[p], w, cs)
        /\ ToldOf' = [ToldOf EXCEPT ![p] = <<w, cs>>]
  BY <1>1 DEF PhaseOf, StepsAlone
<1>3. PhaseOf' = [PhaseOf EXCEPT ![p] = "answered"]
  BY DEF StepsAlone
<1> QED
  BY <1>2, <1>3 DEF NS!NSAnswer, PhaseOf, ToldOf, Told

-----------------------------------------------------------------------------
(* A call that leads to another call answers nothing yet.                  *)
LEMMA GotoTells ==
  ASSUME TypeOK, NEW p \in Procs, NEW l \in Labels \ {"answer"}, Goto(p, l), pc[p] # "answer",
         UNCHANGED req
  PROVE  pc'[p] = l /\ Told(p)' = Told(p)
BY DEF TypeOK, Goto, Told

LEMMA AnswerTells ==
  ASSUME TypeOK, NEW p \in Procs, NEW a, Answer(p, a), UNCHANGED req
  PROVE  /\ pc'[p] = "answer" /\ Phase(p)' = "answered"
         /\ Told(p)' = <<a, IF req[p].op = "readdir" THEN listing'[p] ELSE {}>>
BY DEF TypeOK, Answer, Told, Phase

NSStep(p) == NS!NSAdd(p) \/ NS!NSDrop(p) \/ NS!NSMoved(p) \/ NS!NSAnswer(p) \/ UNCHANGED NS!nsVars

(* Lookup and ReadDirAll change nothing and answer what is there.          *)
LEMMA ReadImplements ==
  ASSUME TypeOK, OneMount, VFSLock = "exclusive", DirectoryInvariant, NEW p \in Procs,
         \/ LookupPeek(p) \/ ReadDirAllCached(p) \/ ReadDirAllFetch(p) \/ ReadDirAllFill(p)
         \/ LookupGet(p)
  PROVE  NSStep(p)
<1> DEFINE r == req[p]
<1>0. /\ r \in Requests /\ listing \in [Procs -> SUBSET Names] /\ faults \in 0 .. MaxFaults
      /\ Serve(p)
  BY DEF TypeOK, Serve
<1>1. /\ UNCHANGED <<req, stored>> /\ pc[p] \in {"peek", "getall", "fetch", "addall", "get"}
      /\ Phase(p) = "called"
  BY DEF LookupPeek, ReadDirAllCached, ReadDirAllFetch, ReadDirAllFill, LookupGet, At, swiftVars, Phase
<1>2. r.op \in ReadOps /\ pc[p] \in CallsOf(r)
  BY <1>0, <1>1 DEF DirectoryInvariant, OwnCalls, CallsOf, ReadOps, Requests
<1>3. StepsAlone(p)
  BY <1>0, ServeControl, StepAlone DEF DirectoryInvariant
<1>4. /\ HasFound(p) /\ HasListed(p) /\ r.dir \in Dirs /\ r.name \in Names
      /\ \A n \in Names : Settled(<<r.dir, n>>)
  BY <1>0, <1>1, <1>2, OwnHolds DEF Own, OwnCoherent, Locks, Requests
<1>5. ASSUME NEW l \in {"peek", "getall", "fetch", "addall", "get"}, Goto(p, l)
      PROVE  NSStep(p)
  <2>1. pc'[p] = l /\ Told(p)' = Told(p)
    BY <1>1, <1>5, GotoTells DEF Labels
  <2>2. Quiet(p)
    BY <1>1, <2>1 DEF Quiet, Phase
  <2> QED
    BY <1>3, <2>2, QuietStutters DEF NSStep
<1>6. ASSUME r.op = "readdir", Answer(p, "OK"), listing'[p] = Objects(r.dir)
      PROVE  NSStep(p)
  <2>1. Phase(p)' = "answered" /\ Told(p)' = <<"OK", Objects(r.dir)>>
    BY <1>1, <1>6, AnswerTells
  <2>2. NS!RightUnchanged(r, "OK", Objects(r.dir)) /\ Objects(r.dir) \in SUBSET Names
    BY <1>6, NamesIn DEF NS!RightUnchanged, Objects
  <2>3. NS!NSAnswer(p)
    BY <1>1, <1>3, <2>1, <2>2, AnswerStep
  <2> QED
    BY <2>3 DEF NSStep
<1>7. CASE LookupPeek(p)
  BY <1>5, <1>7 DEF LookupPeek
<1>8. CASE ReadDirAllCached(p)
  <2>1. CASE GetAllHit(r.dir) /\ r.op = "readdir"
    <3>1. Answer(p, "OK") /\ listing'[p] = content[r.dir].nodes
      BY <1>0, <1>8, <2>1 DEF ReadDirAllCached
    <3>2. content[r.dir].nodes = Objects(r.dir)
      <4>1. r.dir \in DOMAIN content /\ content[r.dir].nodes \subseteq Names
        BY <2>1 DEF GetAllHit, PeekFound, TypeOK, CacheTypeOK, Entry
      <4> QED
        BY <1>4, <4>1 DEF Settled, Objects
    <3> QED
      BY <1>6, <2>1, <3>1, <3>2
  <2>2. CASE ~(GetAllHit(r.dir) /\ r.op = "readdir")
    BY <1>2, <1>5, <1>8, <2>2 DEF ReadDirAllCached, ReadOps
  <2> QED
    BY <2>1, <2>2
<1>9. CASE ReadDirAllFetch(p)
  BY <1>0, <1>5, <1>9 DEF ReadDirAllFetch, SwiftFails, OneMount
<1>10. CASE ReadDirAllFill(p)
  <2>1. listing'[p] = Objects(r.dir)
    BY <1>4, <1>10 DEF ReadDirAllFill, At, HasListed
  <2> QED
    BY <1>2, <1>5, <1>6, <1>10, <2>1 DEF ReadDirAllFill, ReadOps
<1>11. CASE LookupGet(p)
  <2> DEFINE word == IF GetFound(r.dir, r.name) THEN "OK" ELSE "ENOENT"
  <2>0. Answer(p, word) /\ r.op = "lookup" /\ r.dir \in DOMAIN content
    BY <1>0, <1>2, <1>4, <1>11 DEF LookupGet, At, CallsOf, HasFound, Requests
  <2>1. Phase(p)' = "answered" /\ Told(p)' = <<word, {}>>
    BY <1>1, <2>0, AnswerTells
  <2>2. GetFound(r.dir, r.name) <=> NS!Old(r) \in stored
    BY <1>4, <2>0 DEF GetFound, Settled, NS!Old
  <2>3. NS!RightUnchanged(r, word, {})
    BY <2>0, <2>2 DEF NS!RightUnchanged
  <2>4. word \in {"OK", "ENOENT", "ENOTEMPTY", "ENOTSUP"}
    OBVIOUS
  <2> HIDE DEF word
  <2>5. NS!NSAnswer(p)
    BY <1>1, <1>3, <2>1, <2>3, <2>4, AnswerStep
  <2> QED
    BY <2>5 DEF NSStep
<1> QED
  BY <1>7, <1>8, <1>9, <1>10, <1>11

(* Create, Mkdir and Symlink add a name once, with their PUT.              *)
LEMMA MakeImplements ==
  ASSUME TypeOK, OneMount, VFSLock = "exclusive", DirectoryInvariant, NEW p \in Procs,
         PutObject(p) \/ OpenCreated(p) \/ SetCreated(p)
  PROVE  NSStep(p)
<1> DEFINE r == req[p]
<1>0. r \in Requests /\ faults \in 0 .. MaxFaults /\ Serve(p)
  BY DEF TypeOK, Serve
<1>1. UNCHANGED req /\ pc[p] \in {"put", "open", "set"}
  BY DEF PutObject, OpenCreated, SetCreated, At
<1>2. r.op \in {"create", "mkdir", "symlink"} /\ Target(r) = NewTarget(r)
  BY <1>0, <1>1 DEF DirectoryInvariant, OwnCalls, WellFormed, CallsOf, Requests
<1>3. StepsAlone(p) /\ HasStored(p)
  BY <1>0, <1>1, ServeControl, StepAlone DEF DirectoryInvariant
<1>4. CASE PutObject(p)
  <2>1. PICK l \in {"open", "set"} : Goto(p, l)
    BY <1>0, <1>4 DEF PutObject, SwiftWriteFails, SwiftFails, OneMount
  <2>2. pc'[p] = l /\ Told(p)' = Told(p) /\ pc[p] = "put"
    BY <1>1, <1>4, <2>1, GotoTells DEF Labels, PutObject, At
  <2>3. Phase(p) = "called" /\ Phase(p)' = "changed"
    BY <2>2 DEF Phase
  <2>4. stored' = stored \cup {NewTarget(r)}
    BY <1>0, <1>2, <1>4 DEF PutObject, SwiftWrites, SwiftWriteFails, SwiftFails, OneMount
  <2>5. NS!NSAdd(p)
    BY <1>1, <1>2, <1>3, <2>2, <2>3, <2>4, AddStep
  <2> QED
    BY <2>5 DEF NSStep
<1>5. CASE OpenCreated(p)
  <2>1. Goto(p, "set") /\ UNCHANGED stored /\ pc[p] = "open"
    BY <1>5 DEF OpenCreated, At, OneMount, swiftVars
  <2>2. pc'[p] = "set" /\ Told(p)' = Told(p)
    BY <1>1, <2>1, GotoTells DEF Labels
  <2>3. Quiet(p)
    BY <1>1, <2>1, <2>2 DEF Quiet, Phase
  <2> QED
    BY <1>3, <2>3, QuietStutters DEF NSStep
<1>6. CASE SetCreated(p)
  <2>1. Answer(p, "OK") /\ UNCHANGED stored /\ pc[p] = "set" /\ Phase(p) = "changed"
    BY <1>6 DEF SetCreated, At, swiftVars, Phase
  <2>2. Phase(p)' = "answered" /\ Told(p)' = <<"OK", {}>>
    BY <1>1, <1>2, <2>1, AnswerTells
  <2>3. NS!RightChanged(r, "OK", {})
    BY <1>2, <1>3, <2>1 DEF NS!RightChanged, NS!New, HasStored, Target, NewTarget
  <2>4. NS!NSAnswer(p)
    BY <1>1, <1>3, <2>1, <2>2, <2>3, AnswerStep
  <2> QED
    BY <2>4 DEF NSStep
<1> QED
  BY <1>4, <1>5, <1>6

(* A Remove that is refused changed nothing; one that is not drops a name, *)
(* and no directory with names in it, with its DELETE.                     *)
LEMMA RemoveImplements ==
  ASSUME TypeOK, OneMount, VFSLock = "exclusive", DirectoryInvariant, NEW p \in Procs, Serve(p), req[p].op = "remove"
  PROVE  NSStep(p)
<1> DEFINE r == req[p]
<1>0. r \in Requests /\ faults \in 0 .. MaxFaults /\ stored \subseteq Paths
  BY DEF TypeOK
<1>1. /\ UNCHANGED req /\ Target(r) = NewTarget(r)
      /\ pc[p] \in {"find", "empty", "delete", "peekdir", "deleteall", "uncache"}
      /\ pc[p] \in {"empty", "peekdir", "deleteall"} => r.name \in SubDirs
  BY <1>0, ServeControl DEF DirectoryInvariant, OwnCalls, WellFormed, CallsOf, Requests
<1>2. StepsAlone(p) /\ HasStored(p) /\ HasCached(p)
  BY <1>0, <1>1, ServeControl, StepAlone DEF DirectoryInvariant
<1>3. ASSUME NEW word \in {"ENOTEMPTY", "ENOTSUP"}, Answer(p, word), UNCHANGED stored,
             Phase(p) = "called", NS!RightUnchanged(r, word, {})
      PROVE  NSStep(p)
  <2>1. Phase(p)' = "answered" /\ Told(p)' = <<word, {}>>
    BY <1>1, <1>3, AnswerTells
  <2>2. NS!NSAnswer(p)
    BY <1>1, <1>2, <1>3, <2>1, AnswerStep
  <2> QED
    BY <2>2 DEF NSStep
<1>4. ASSUME NEW l \in Labels \ {"answer"}, Goto(p, l), UNCHANGED stored,
             \/ pc[p] \in {"find", "empty"} /\ l \in {"empty", "delete"}
             \/ pc[p] \in {"peekdir", "deleteall"} /\ l \in {"deleteall", "uncache"}
      PROVE  NSStep(p)
  <2>1. pc'[p] = l /\ Told(p)' = Told(p)
    BY <1>1, <1>4, GotoTells
  <2>2. Quiet(p)
    BY <1>1, <1>4, <2>1 DEF Quiet, Phase
  <2> QED
    BY <1>2, <2>2, QuietStutters DEF NSStep
<1>5. CASE FindNode(p)
  <2>1. NS!RightUnchanged(r, "ENOTSUP", {}) /\ Phase(p) = "called" /\ pc[p] = "find" /\ UNCHANGED stored
    BY <1>5 DEF NS!RightUnchanged, Phase, FindNode, At, swiftVars
  <2>2. Answer(p, "ENOTSUP") \/ Goto(p, "empty") \/ Goto(p, "delete")
    BY <1>5 DEF FindNode
  <2> QED
    BY <1>3, <1>4, <2>1, <2>2 DEF Labels
<1>6. CASE IsEmpty(p)
  <2>1. Phase(p) = "called" /\ pc[p] = "empty" /\ UNCHANGED stored /\ r.name \in SubDirs
    BY <1>1, <1>6 DEF Phase, IsEmpty, At, swiftVars
  <2>2. Populated(r.name) => NS!RightUnchanged(r, "ENOTEMPTY", {})
    BY <2>1, NamesIn DEF NS!RightUnchanged, NS!SubDirs, SubDirs, Populated, Objects
  <2>3. (Populated(r.name) /\ Answer(p, "ENOTEMPTY")) \/ Goto(p, "delete")
    BY <1>0, <1>6 DEF IsEmpty, SwiftFails, OneMount
  <2> QED
    BY <1>3, <1>4, <2>1, <2>2, <2>3 DEF Labels
<1>7. CASE DeleteObject(p)
  <2>1. pc[p] = "delete" /\ Target(r) \in stored /\ (r.name \in SubDirs => Objects(r.name) = {})
    BY <1>2, <1>7 DEF DeleteObject, At, HasStored
  <2>2. /\ stored' = stored \ {Target(r)}
        /\ Goto(p, AfterDelete(r)) /\ AfterDelete(r) \in {"peekdir", "uncache"}
    BY <1>0, <1>7, <2>1 DEF DeleteObject, AfterDelete, SwiftWrites, SwiftWriteFails, SwiftFails, OneMount
  <2>3. pc'[p] \in {"peekdir", "uncache"} /\ Told(p)' = Told(p)
    BY <1>1, <2>1, <2>2, GotoTells DEF Labels
  <2>4. Phase(p) = "called" /\ Phase(p)' = "changed"
    BY <2>1, <2>3, <1>1 DEF Phase
  <2>5. NS!NSDrop(p)
    BY <1>1, <1>2, <2>1, <2>2, <2>3, <2>4, DropStep
  <2> QED
    BY <2>5 DEF NSStep
<1>8. CASE RemoveDirectoryPeek(p)
  BY <1>4, <1>8 DEF RemoveDirectoryPeek, At, swiftVars, Labels
<1>9. CASE RemoveDirectoryDeleteAll(p)
  BY <1>2, <1>4, <1>9 DEF RemoveDirectoryDeleteAll, At, swiftVars, Labels, DeleteAllPanics, HasCached
<1>10. CASE Uncache(p)
  <2>1. Answer(p, "OK") /\ UNCHANGED stored /\ pc[p] = "uncache" /\ Phase(p) = "changed"
    BY <1>10 DEF Uncache, At, swiftVars, Phase
  <2>2. Phase(p)' = "answered" /\ Told(p)' = <<"OK", {}>>
    BY <1>1, <2>1, AnswerTells
  <2>3. NS!RightChanged(r, "OK", {})
    BY <1>2, <2>1 DEF NS!RightChanged, NS!Old, HasStored, Target
  <2>4. NS!NSAnswer(p)
    BY <1>1, <1>2, <2>1, <2>2, <2>3, AnswerStep
  <2> QED
    BY <2>4 DEF NSStep
<1> QED
  BY <1>1, <1>5, <1>6, <1>7, <1>8, <1>9, <1>10 DEF Serve, At, LookupPeek, ReadDirAllCached, ReadDirAllFetch,
     ReadDirAllFill, LookupGet, PutObject, OpenCreated, SetCreated, CopyObject, SetCopied

(* Link and Rename add the new name with their COPY, and a Rename drops    *)
(* the old one with its DELETE.                                            *)
LEMMA CopyImplements ==
  ASSUME TypeOK, OneMount, VFSLock = "exclusive", DirectoryInvariant, NEW p \in Procs, Serve(p),
         req[p].op \in {"link", "rename"}
  PROVE  NSStep(p)
<1> DEFINE r == req[p]
<1>0. r \in Requests /\ faults \in 0 .. MaxFaults
  BY DEF TypeOK
<1>1. /\ UNCHANGED req /\ r.name \notin SubDirs
      /\ pc[p] \in {"copy", "setnew"} \cup (IF r.op = "rename" THEN {"find", "uncache", "delete"} ELSE {})
  BY <1>0, ServeControl DEF DirectoryInvariant, OwnCalls, WellFormed, CallsOf
<1>2. StepsAlone(p) /\ HasStored(p)
  BY <1>0, <1>1, ServeControl, StepAlone DEF DirectoryInvariant
<1>3. ASSUME NEW l \in Labels \ {"answer"}, Goto(p, l), UNCHANGED stored, r.op = "rename",
             \/ pc[p] = "find" /\ l = "copy"
             \/ pc[p] = "setnew" /\ l = "uncache"
             \/ pc[p] = "uncache" /\ l = "delete"
      PROVE  NSStep(p)
  <2>1. pc'[p] = l /\ Told(p)' = Told(p)
    BY <1>1, <1>3, GotoTells
  <2>2. Quiet(p)
    BY <1>1, <1>3, <2>1 DEF Quiet, Phase
  <2> QED
    BY <1>2, <2>2, QuietStutters DEF NSStep
<1>4. CASE FindNode(p)
  <2>1. r.op = "rename" /\ pc[p] = "find" /\ Phase(p) = "called" /\ UNCHANGED stored
    BY <1>1, <1>4 DEF FindNode, At, swiftVars, Phase
  <2>2. CASE Goto(p, "copy")
    BY <1>3, <2>1, <2>2 DEF Labels
  <2>3. CASE Answer(p, "ENOTSUP")
    <3>1. Phase(p)' = "answered" /\ Told(p)' = <<"ENOTSUP", {}>>
      BY <1>1, <2>1, <2>3, AnswerTells
    <3>2. NS!RightUnchanged(r, "ENOTSUP", {})
      BY <2>1 DEF NS!RightUnchanged
    <3>3. NS!NSAnswer(p)
      BY <1>1, <1>2, <2>1, <3>1, <3>2, AnswerStep
    <3> QED
      BY <3>3 DEF NSStep
  <2> QED
    BY <1>4, <2>1, <2>2, <2>3 DEF FindNode
<1>5. CASE CopyObject(p)
  <2>1. pc[p] = "copy" /\ Target(r) \in stored
    BY <1>2, <1>5 DEF CopyObject, At, HasStored
  <2>2. stored' = stored \cup {NewTarget(r)} /\ Goto(p, "setnew")
    BY <1>0, <1>5, <2>1 DEF CopyObject, SwiftWrites, SwiftWriteFails, SwiftFails, OneMount
  <2>3. pc'[p] = "setnew" /\ Told(p)' = Told(p)
    BY <1>1, <2>1, <2>2, GotoTells DEF Labels
  <2>4. Phase(p) = "called" /\ Phase(p)' = "changed"
    BY <2>1, <2>3 DEF Phase
  <2>5. NS!NSAdd(p)
    BY <1>1, <1>2, <2>2, <2>3, <2>4, AddStep
  <2> QED
    BY <2>5 DEF NSStep
<1>6. CASE SetCopied(p)
  <2>1. pc[p] = "setnew" /\ Phase(p) = "changed" /\ UNCHANGED stored /\ NewTarget(r) \in stored
    BY <1>2, <1>6 DEF SetCopied, At, swiftVars, Phase, HasStored
  <2>2. CASE r.op = "rename"
    BY <1>3, <1>6, <2>1, <2>2 DEF SetCopied, Labels
  <2>3. CASE r.op = "link"
    <3>1. Answer(p, "OK")
      BY <1>6, <2>3 DEF SetCopied
    <3>2. Phase(p)' = "answered" /\ Told(p)' = <<"OK", {}>>
      BY <1>1, <2>3, <3>1, AnswerTells
    <3>3. NS!RightChanged(r, "OK", {})
      BY <2>1, <2>3 DEF NS!RightChanged, NS!New, NewTarget
    <3>4. NS!NSAnswer(p)
      BY <1>1, <1>2, <2>1, <3>2, <3>3, AnswerStep
    <3> QED
      BY <3>4 DEF NSStep
  <2> QED
    BY <2>2, <2>3
<1>7. CASE Uncache(p)
  BY <1>1, <1>3, <1>7 DEF Uncache, At, swiftVars, Labels
<1>8. CASE DeleteObject(p)
  <2>0. pc[p] = "delete" /\ r.op = "rename" /\ Phase(p) = "changed"
    BY <1>1, <1>8 DEF DeleteObject, At, Phase
  <2>1. {Target(r), NewTarget(r)} \subseteq stored
    BY <1>2, <2>0 DEF HasStored
  <2>2. stored' = stored \ {Target(r)} /\ Answer(p, "OK")
    BY <1>0, <1>8, <2>0, <2>1 DEF DeleteObject, SwiftWrites, SwiftWriteFails, SwiftFails, OneMount
  <2>3. Phase(p)' = "answered" /\ Told(p)' = <<"OK", {}>>
    BY <1>1, <2>0, <2>2, AnswerTells
  <2>4. NS!NSMoved(p)
    BY <1>1, <1>2, <2>0, <2>1, <2>2, <2>3, MovedStep
  <2> QED
    BY <2>4 DEF NSStep
<1> QED
  BY <1>1, <1>4, <1>5, <1>6, <1>7, <1>8 DEF Serve, At, LookupPeek, ReadDirAllCached, ReadDirAllFetch,
     ReadDirAllFill, LookupGet, PutObject, OpenCreated, SetCreated, IsEmpty, RemoveDirectoryPeek,
     RemoveDirectoryDeleteAll

LEMMA StartImplements ==
  ASSUME TypeOK, OneMount, VFSLock = "exclusive", NEW p \in Procs, Start(p)
  PROVE  NS!NSCall(p)
<1>1. PICK r \in Offered : /\ Sensible(r) /\ req' = [req EXCEPT ![p] = r]
                           /\ pc' = [pc EXCEPT ![p] = FirstCall(r)]
  BY DEF Start
<1>2. r \in Requests /\ FirstCall(r) \in {"getall", "peek", "put", "copy", "find"}
  <2>1. r \in Requests /\ r.op # "none"
    BY OfferedType
  <2> QED
    BY <2>1 DEF FirstCall, OneMount, Requests
<1>3. /\ pc[p] = "idle" /\ pc'[p] = FirstCall(r) /\ UNCHANGED <<stored, listing, reply>>
      /\ \A q \in Procs \ {p} : req'[q] = req[q] /\ pc'[q] = pc[q]
  BY <1>1 DEF Start, swiftVars, TypeOK
<1>4. StepsAlone(p)
  BY <1>3, StepAlone
<1>5. Phase(p) = "idle" /\ Phase(p)' = "called" /\ Told(p)' = Told(p)
  BY <1>2, <1>3 DEF Phase, Told
<1>6. ToldOf' = ToldOf /\ PhaseOf[p] = "idle" /\ PhaseOf' = [PhaseOf EXCEPT ![p] = "called"]
  BY <1>4, <1>5 DEF StepsAlone, PhaseOf, ToldOf
<1> QED
  BY <1>1, <1>2, <1>3, <1>6 DEF NS!NSCall, PhaseOf, ToldOf, Told

LEMMA ReturnImplements ==
  ASSUME TypeOK, NEW p \in Procs, Return(p)
  PROVE  NS!NSReturn(p)
<1>1. /\ pc[p] = "answer" /\ pc'[p] = "idle" /\ reply'[p] = "none" /\ UNCHANGED stored
      /\ req' = [req EXCEPT ![p] = NoRequest]
      /\ \A q \in Procs \ {p} : /\ pc'[q] = pc[q] /\ req'[q] = req[q]
                                /\ listing'[q] = listing[q] /\ reply'[q] = reply[q]
  BY DEF Return, swiftVars, TypeOK
<1>2. StepsAlone(p)
  BY <1>1, StepAlone
<1>3. Phase(p) = "answered" /\ Phase(p)' = "idle" /\ Told(p)' = <<"none", {}>>
  BY <1>1 DEF Phase, Told
<1>4. /\ PhaseOf[p] = "answered" /\ PhaseOf' = [PhaseOf EXCEPT ![p] = "idle"]
      /\ ToldOf' = [ToldOf EXCEPT ![p] = <<"none", {}>>]
  BY <1>2, <1>3 DEF StepsAlone, PhaseOf
<1> QED
  BY <1>1, <1>4 DEF NS!NSReturn, PhaseOf, ToldOf, Told

(* The handlers implement the namespace: every answer is right about the   *)
(* tree at the moment it is given, every change is one of at most two      *)
(* steps of its request, a rename never has neither of its names, and what *)
(* is refused changed nothing.                                             *)
THEOREM ImplementsNamespaceHolds == OneMount /\ VFSLock = "exclusive" => (Spec => ImplementsNamespace)
<1> SUFFICES ASSUME OneMount, VFSLock = "exclusive"
             PROVE  Spec => ImplementsNamespace
  OBVIOUS
<1>1. Init => NS!NSInit
  BY DEF Init, Phase, NS!NSInit, NS!SubDirs, Paths, SubDirs
<1>2. TypeOK /\ DirectoryInvariant /\ [Next]_vars => [NS!NSNext]_(NS!nsVars)
  <2> SUFFICES ASSUME TypeOK, DirectoryInvariant, [Next]_vars
               PROVE  NS!NSNext \/ UNCHANGED NS!nsVars
    OBVIOUS
  <2>1. ASSUME NEW p \in Procs, Start(p) PROVE NS!NSNext
    BY <2>1, StartImplements DEF NS!NSNext
  <2>2. ASSUME NEW p \in Procs, Return(p) PROVE NS!NSNext
    BY <2>2, ReturnImplements DEF NS!NSNext
  <2>3. ASSUME NEW p \in Procs, Serve(p) PROVE NS!NSNext \/ UNCHANGED NS!nsVars
    <3>1. CASE req[p].op \in {"remove", "link", "rename"}
      BY <2>3, <3>1, RemoveImplements, CopyImplements DEF NSStep, NS!NSNext
    <3>2. CASE req[p].op \notin {"remove", "link", "rename"}
      <4>1. req[p] \in Requests /\ pc[p] \in CallsOf(req[p])
        BY <2>3, ServeControl DEF DirectoryInvariant, OwnCalls, TypeOK
      <4>2. pc[p] \in {"peek", "getall", "fetch", "addall", "get", "put", "open", "set"}
        BY <3>2, <4>1 DEF CallsOf, Requests
      <4>3. NSStep(p)
        BY <2>3, <4>2, ReadImplements, MakeImplements DEF Serve, At, FindNode, IsEmpty, DeleteObject,
           RemoveDirectoryPeek, RemoveDirectoryDeleteAll, Uncache, CopyObject, SetCopied
      <4> QED
        BY <4>3 DEF NSStep, NS!NSNext
    <3> QED
      BY <3>1, <3>2
  <2>4. ~OtherClient
    BY DEF OtherClient, OneMount, TypeOK
  <2>5. ASSUME TimePasses \/ UNCHANGED vars PROVE UNCHANGED NS!nsVars
    BY <2>5 DEF TimePasses, vars, swiftVars, NS!nsVars, Phase
  <2> QED
    BY <2>1, <2>2, <2>3, <2>4, <2>5 DEF Next
<1> QED
  BY <1>1, <1>2, DirectoryTypeCorrect, DirectoryInvariantHolds, PTL DEF Spec, ImplementsNamespace, NS!NSSpec
=============================================================================
