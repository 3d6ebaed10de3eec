--------------------------- MODULE DirectoryProofs ---------------------------
(***************************************************************************)
(* Proofs about svfs/directory.go, for any tree of directories and names,  *)
(* any number of processes and any cache limits: a rename keeps its object *)
(* and only empty directories are removed, whatever Swift fails to do; and *)
(* for the only mount of a container, while Swift answers, the cache is    *)
(* coherent and lookups are exact.                                         *)
(***************************************************************************)
EXTENDS Directory, DirectoryCacheProofs

USE DirectoryAssumption

-----------------------------------------------------------------------------
(* Requests.                                                               *)
LEMMA NoRequestType == NoRequest \in Requests
<1>1. \E n \in Names : TRUE
  OBVIOUS
<1> QED
  BY <1>1 DEF NoRequest, Request, Requests

(* What the kernel offers and finds sensible is a request that is well     *)
(* formed, and its first call is one of its own.                           *)
LEMMA OfferedType ==
  ASSUME NEW r \in Offered
  PROVE  /\ r \in Requests /\ r.op # "none"
         /\ r.op \in {"link", "rename"} \/ Target(r) = NewTarget(r)
<1>1. CASE \E op \in {"readdir", "lookup", "create", "symlink", "mkdir", "remove"}, d \in Dirs, n \in Names :
             r = Request(op, d, n)
  BY <1>1 DEF Request, Requests, Target, NewTarget
<1>2. CASE \E op \in {"link", "rename"}, d \in Dirs, n \in Files, t \in Dirs, m \in Files :
             r = To(t, m, Request(op, d, n))
  BY <1>2 DEF Request, To, Requests
<1> QED
  BY <1>1, <1>2 DEF Offered

LEMMA SensibleFormed ==
  ASSUME NEW r \in Offered, Sensible(r), stored \subseteq Paths
  PROVE  WellFormed(r) /\ FirstCall(r) \in CallsOf(r) /\ FirstCall(r) \in Labels \ {"idle", "answer"}
<1>1. r \in Requests /\ r.op # "none"
  BY OfferedType
<1>2. r.op \in {"link", "rename"} \/ Target(r) = NewTarget(r)
  BY OfferedType
<1>3. r.op = "remove" /\ r.name \in SubDirs => r.dir = Top
  BY <1>1 DEF Sensible, Listing, Paths, Requests
<1>4. WellFormed(r)
  BY <1>1, <1>2, <1>3 DEF Sensible, WellFormed, Requests
<1>5. FirstCall(r) \in CallsOf(r) /\ FirstCall(r) \in Labels \ {"idle", "answer"}
  BY <1>1 DEF FirstCall, CallsOf, Labels, Requests
<1> QED
  BY <1>4, <1>5

(* The paths a request that makes, removes or moves a name works on.       *)
LEMMA TargetType ==
  ASSUME NEW r \in Requests, WellFormed(r)
  PROVE  /\ r.op \in {"create", "symlink", "mkdir"} => Target(r) \in Paths
         /\ r.op \in {"link", "rename"} => Target(r) \in Paths /\ NewTarget(r) \in Paths
BY DEF Requests, WellFormed, Target, NewTarget, Paths

-----------------------------------------------------------------------------
(* Types.  TypeOK in two parts besides the cache's.                        *)
SwiftType ==
  /\ stored \subseteq Paths
  /\ faults \in 0 .. MaxFaults /\ changes \in 0 .. MaxChanges
ProcType ==
  /\ pc \in [Procs -> Labels]
  /\ req \in [Procs -> Requests]
  /\ listing \in [Procs -> SUBSET Names]
  /\ reply \in [Procs -> {"none", "OK", "ENOENT", "EIO", "ENOTEMPTY", "ENOTSUP"}]

LEMMA TypeParts == TypeOK <=> CacheTypeOK /\ SwiftType /\ ProcType
BY DEF TypeOK, SwiftType, ProcType

LEMMA TypePartsPrime == TypeOK' <=> CacheTypeOK' /\ SwiftType' /\ ProcType'
BY DEF TypeOK, SwiftType, ProcType

LEMMA ServeCacheType ==
  ASSUME TypeOK, NEW p \in Procs, OwnCalls, Serve(p)
  PROVE  CacheTypeOK'
<1>0. /\ CacheTypeOK /\ listing[p] \in SUBSET Names
      /\ req[p].dir \in Dirs /\ req[p].todir \in Dirs /\ req[p].name \in Names /\ req[p].toname \in Names
  BY TypeParts DEF ProcType, Requests
<1>1. CASE ReadDirAllCached(p)
  BY <1>0, <1>1, GetAllType DEF ReadDirAllCached
<1>2. CASE ReadDirAllFill(p)
  BY <1>0, <1>2, AddAllType DEF ReadDirAllFill
<1>3. CASE SetCreated(p) \/ Uncache(p) \/ SetCopied(p)
  BY <1>0, <1>3, SetDeleteType DEF SetCreated, Uncache, SetCopied
<1>4. CASE RemoveDirectoryDeleteAll(p)
  <2>1. req[p].name \in Dirs
    BY <1>4, TypeParts DEF RemoveDirectoryDeleteAll, At, OwnCalls, CallsOf, SubDirs, ProcType, Requests
  <2> QED
    BY <1>0, <1>4, <2>1, DeleteAllType DEF RemoveDirectoryDeleteAll
<1>5. CASE UNCHANGED cacheVars
  BY <1>0, <1>5 DEF CacheTypeOK, cacheVars
<1> QED
  BY <1>1, <1>2, <1>3, <1>4, <1>5 DEF Serve, LookupPeek, ReadDirAllFetch, LookupGet, PutObject, OpenCreated,
     FindNode, IsEmpty, DeleteObject, RemoveDirectoryPeek, CopyObject

LEMMA ServeSwiftType ==
  ASSUME TypeOK, NEW p \in Procs, OwnCalls, Serve(p)
  PROVE  SwiftType'
<1>0. SwiftType /\ req[p] \in Requests
  BY TypeParts DEF ProcType
<1>1. CASE PutObject(p)
  <2>1. Target(req[p]) \in Paths
    BY <1>0, <1>1, TargetType DEF PutObject, At, OwnCalls, CallsOf, Requests
  <2> QED
    BY <1>0, <1>1, <2>1 DEF PutObject, SwiftType, SwiftWrites, SwiftWriteFails, SwiftFails
<1>2. CASE CopyObject(p)
  <2>1. NewTarget(req[p]) \in Paths
    BY <1>0, <1>2, TargetType DEF CopyObject, At, OwnCalls, CallsOf, Requests
  <2> QED
    BY <1>0, <1>2, <2>1 DEF CopyObject, SwiftType, SwiftWrites, SwiftWriteFails, SwiftFails, swiftVars
<1>3. CASE DeleteObject(p)
  BY <1>0, <1>3 DEF DeleteObject, SwiftType, SwiftWrites, SwiftWriteFails, SwiftFails, swiftVars
<1>4. CASE ReadDirAllFetch(p) \/ IsEmpty(p)
  BY <1>0, <1>4 DEF ReadDirAllFetch, IsEmpty, SwiftType, SwiftFails, swiftVars
<1>5. CASE UNCHANGED swiftVars
  BY <1>0, <1>5 DEF SwiftType, swiftVars
<1> QED
  BY <1>1, <1>2, <1>3, <1>4, <1>5 DEF Serve, LookupPeek, ReadDirAllCached, ReadDirAllFill, LookupGet,
     OpenCreated, SetCreated, FindNode, RemoveDirectoryPeek, RemoveDirectoryDeleteAll, Uncache, SetCopied

(* Where a call leads: to the next call or to an answer.                   *)
LEMMA ServeGoes ==
  ASSUME NEW p \in Procs, Serve(p)
  PROVE  \/ \E l \in Labels \ {"idle", "answer"} : Goto(p, l)
         \/ \E a \in {"OK", "ENOENT", "EIO", "ENOTEMPTY", "ENOTSUP"} : Answer(p, a)
BY DEF Serve, Labels, LookupPeek, ReadDirAllCached, ReadDirAllFetch, ReadDirAllFill, LookupGet, PutObject,
     OpenCreated, SetCreated, FindNode, IsEmpty, DeleteObject, AfterDelete, RemoveDirectoryPeek,
     RemoveDirectoryDeleteAll, Uncache, CopyObject, SetCopied

LEMMA ServeProcType ==
  ASSUME TypeOK, NEW p \in Procs, Serve(p)
  PROVE  ProcType'
<1>0. ProcType /\ CacheTypeOK
  BY TypeParts
<1>1. UNCHANGED req
  BY DEF Serve, At, LookupPeek, ReadDirAllCached, ReadDirAllFetch, ReadDirAllFill, LookupGet, PutObject,
     OpenCreated, SetCreated, FindNode, IsEmpty, DeleteObject, RemoveDirectoryPeek,
     RemoveDirectoryDeleteAll, Uncache, CopyObject, SetCopied
<1>2. listing' \in [Procs -> SUBSET Names]
  <2>1. CASE ReadDirAllCached(p)
    <3>1. \/ UNCHANGED listing
          \/ /\ req[p].dir \in DOMAIN content
             /\ listing' = [listing EXCEPT ![p] = content[req[p].dir].nodes]
      BY <2>1 DEF ReadDirAllCached, GetAllHit, PeekFound
    <3>2. \A d \in DOMAIN content : content[d].nodes \subseteq Names
      BY <1>0 DEF CacheTypeOK, Entry
    <3> QED
      BY <1>0, <3>1, <3>2 DEF ProcType
  <2>2. CASE ReadDirAllFetch(p)
    <3>1. Listing(req[p].dir) \subseteq Names
      BY DEF Listing
    <3>2. UNCHANGED listing \/ listing' = [listing EXCEPT ![p] = Listing(req[p].dir)]
      BY <2>2 DEF ReadDirAllFetch
    <3> QED
      BY <1>0, <3>1, <3>2 DEF ProcType
  <2>3. CASE UNCHANGED listing
    BY <1>0, <2>3 DEF ProcType
  <2> QED
    BY <2>1, <2>2, <2>3 DEF Serve, LookupPeek, ReadDirAllFill, LookupGet, PutObject, OpenCreated, SetCreated,
       FindNode, IsEmpty, DeleteObject, RemoveDirectoryPeek, RemoveDirectoryDeleteAll, Uncache, CopyObject,
       SetCopied
<1>3. /\ pc' \in [Procs -> Labels]
      /\ reply' \in [Procs -> {"none", "OK", "ENOENT", "EIO", "ENOTEMPTY", "ENOTSUP"}]
  <2>1. CASE \E l \in Labels : Goto(p, l)
    BY <1>0, <2>1 DEF Goto, ProcType
  <2>2. CASE \E a \in {"OK", "ENOENT", "EIO", "ENOTEMPTY", "ENOTSUP"} : Answer(p, a)
    BY <1>0, <2>2 DEF Answer, ProcType, Labels
  <2> QED
    BY <2>1, <2>2, ServeGoes
<1> QED
  BY <1>0, <1>1, <1>2, <1>3 DEF ProcType

(* Types are kept by every step, as long as every request makes its own    *)
(* calls.                                                                  *)
LEMMA TypeStep ==
  ASSUME TypeOK, OwnCalls, [Next]_vars
  PROVE  TypeOK'
<1>0. CacheTypeOK /\ SwiftType /\ ProcType
  BY TypeParts
<1>1. ASSUME NEW p \in Procs, Start(p) PROVE TypeOK'
  <2>1. PICK r \in Offered : /\ Sensible(r) /\ req' = [req EXCEPT ![p] = r]
                             /\ pc' = [pc EXCEPT ![p] = FirstCall(r)]
    BY <1>1 DEF Start
  <2>2. r \in Requests /\ FirstCall(r) \in Labels
    BY <1>0, <2>1, OfferedType, SensibleFormed DEF SwiftType
  <2>3. ProcType'
    BY <1>0, <1>1, <2>1, <2>2 DEF Start, ProcType
  <2> QED
    BY <1>0, <1>1, <2>3, TypePartsPrime DEF Start, CacheTypeOK, SwiftType, cacheVars, swiftVars
<1>2. ASSUME NEW p \in Procs, Serve(p) PROVE TypeOK'
  BY <1>2, ServeCacheType, ServeSwiftType, ServeProcType, TypePartsPrime
<1>3. ASSUME NEW p \in Procs, Return(p) PROVE TypeOK'
  <2>1. ProcType'
    BY <1>0, <1>3, NoRequestType DEF Return, ProcType, Labels
  <2> QED
    BY <1>0, <1>3, <2>1, TypePartsPrime DEF Return, CacheTypeOK, SwiftType, cacheVars, swiftVars
<1>4. CASE OtherClient
  BY <1>0, <1>4, TypePartsPrime DEF OtherClient, CacheTypeOK, SwiftType, ProcType, cacheVars
<1>5. CASE TimePasses
  BY <1>0, <1>5, TickType, TypePartsPrime DEF TimePasses, SwiftType, ProcType, swiftVars
<1>6. CASE UNCHANGED vars
  BY <1>0, <1>6, TypePartsPrime DEF vars, CacheTypeOK, SwiftType, ProcType
<1> QED
  BY <1>1, <1>2, <1>3, <1>4, <1>5, <1>6 DEF Next

-----------------------------------------------------------------------------
(* Requests make their own calls, and keep apart.                          *)

(* A step serves one process, and leaves the others where they were.       *)
LEMMA ServeControl ==
  ASSUME TypeOK, OwnCalls, NEW p \in Procs, Serve(p)
  PROVE  /\ UNCHANGED req
         /\ pc[p] \notin {"idle", "answer"} /\ WellFormed(req[p])
         /\ pc'[p] \in CallsOf(req[p]) \cup {"answer"} /\ pc'[p] # "idle"
         /\ \A q \in Procs \ {p} : /\ pc'[q] = pc[q] /\ listing'[q] = listing[q]
                                   /\ reply'[q] = reply[q]
<1>0. ProcType
  BY TypeParts
<1>1. UNCHANGED req
  BY DEF Serve, At, LookupPeek, ReadDirAllCached, ReadDirAllFetch, ReadDirAllFill, LookupGet, PutObject,
     OpenCreated, SetCreated, FindNode, IsEmpty, DeleteObject, RemoveDirectoryPeek,
     RemoveDirectoryDeleteAll, Uncache, CopyObject, SetCopied
<1>2. pc[p] \notin {"idle", "answer"}
  BY DEF Serve, At, LookupPeek, ReadDirAllCached, ReadDirAllFetch, ReadDirAllFill, LookupGet, PutObject,
     OpenCreated, SetCreated, FindNode, IsEmpty, DeleteObject, RemoveDirectoryPeek,
     RemoveDirectoryDeleteAll, Uncache, CopyObject, SetCopied
<1>3. WellFormed(req[p]) /\ pc[p] \in CallsOf(req[p])
  BY <1>2 DEF OwnCalls
<1>4. \A q \in Procs \ {p} : pc'[q] = pc[q] /\ reply'[q] = reply[q]
  BY <1>0, ServeGoes DEF Goto, Answer, ProcType
<1>5. \A q \in Procs \ {p} : listing'[q] = listing[q]
  BY <1>0 DEF ProcType, Serve, LookupPeek, ReadDirAllCached, ReadDirAllFetch, ReadDirAllFill, LookupGet,
     PutObject, OpenCreated, SetCreated, FindNode, IsEmpty, DeleteObject, RemoveDirectoryPeek,
     RemoveDirectoryDeleteAll, Uncache, CopyObject, SetCopied
<1>6. pc'[p] # "idle"
  BY <1>0, ServeGoes DEF Goto, Answer, ProcType
<1>7. pc'[p] \in CallsOf(req[p]) \cup {"answer"}
  <2>0. req[p] \in Requests
    BY <1>0 DEF ProcType
  <2>1. CASE LookupPeek(p) \/ ReadDirAllCached(p) \/ ReadDirAllFetch(p) \/ ReadDirAllFill(p) \/ LookupGet(p)
    BY <1>0, <1>3, <2>0, <2>1 DEF LookupPeek, ReadDirAllCached, ReadDirAllFetch, ReadDirAllFill, LookupGet, At,
       Goto, Answer, CallsOf, ProcType, Requests
  <2>2. CASE PutObject(p) \/ OpenCreated(p) \/ SetCreated(p)
    BY <1>0, <1>3, <2>0, <2>2 DEF PutObject, OpenCreated, SetCreated, At, Goto, Answer, CallsOf, ProcType, Requests
  <2>3. CASE FindNode(p) \/ IsEmpty(p) \/ DeleteObject(p)
    BY <1>0, <1>3, <2>0, <2>3 DEF FindNode, IsEmpty, DeleteObject, AfterDelete, DeleteIgnoresError, At, Goto,
       Answer, CallsOf, ProcType, Requests
  <2>4. CASE RemoveDirectoryPeek(p) \/ RemoveDirectoryDeleteAll(p) \/ Uncache(p)
    BY <1>0, <1>3, <2>0, <2>4 DEF RemoveDirectoryPeek, RemoveDirectoryDeleteAll, Uncache, At, Goto, Answer,
       CallsOf, ProcType, Requests
  <2>5. CASE CopyObject(p) \/ SetCopied(p)
    BY <1>0, <1>3, <2>0, <2>5 DEF CopyObject, SetCopied, At, Goto, Answer, CallsOf, ProcType, Requests
  <2> QED
    BY <2>1, <2>2, <2>3, <2>4, <2>5 DEF Serve
<1> QED
  BY <1>1, <1>2, <1>3, <1>4, <1>5, <1>6, <1>7

LEMMA LocksSymmetric ==
  ASSUME NEW r, NEW q, Compatible(r, q)
  PROVE  Compatible(q, r)
BY DEF Compatible

Control == TypeOK /\ OwnCalls /\ Apart

LEMMA ControlInit == Init => Control
BY CacheAssumption, NoRequestType DEF Init, Control, TypeOK, OwnCalls, Apart, CacheInit, CacheTypeOK, Labels

LEMMA ControlStep ==
  ASSUME Control, [Next]_vars
  PROVE  Control'
<1>0. TypeOK /\ OwnCalls /\ Apart /\ ProcType /\ SwiftType
  BY TypeParts DEF Control
<1>1. TypeOK'
  BY <1>0, TypeStep
<1>2. ASSUME NEW p \in Procs, Start(p) PROVE OwnCalls' /\ Apart'
  <2>1. PICK r \in Offered : /\ Sensible(r) /\ req' = [req EXCEPT ![p] = r]
                             /\ pc' = [pc EXCEPT ![p] = FirstCall(r)]
                             /\ \A q \in Procs \ {p} : pc[q] # "idle" => Compatible(r, req[q])
    BY <1>2 DEF Start
  <2>2. WellFormed(r) /\ FirstCall(r) \in CallsOf(r)
    BY <1>0, <2>1, SensibleFormed DEF SwiftType
  <2>3. /\ req'[p] = r /\ pc'[p] = FirstCall(r)
        /\ \A q \in Procs \ {p} : req'[q] = req[q] /\ pc'[q] = pc[q]
    BY <1>0, <2>1 DEF ProcType
  <2>4. OwnCalls'
    BY <1>0, <2>2, <2>3 DEF OwnCalls, WellFormed, Target, NewTarget
  <2>5. Apart'
    BY <1>0, <2>1, <2>3, LocksSymmetric DEF Apart, Compatible
  <2> QED
    BY <2>4, <2>5
<1>3. ASSUME NEW p \in Procs, Serve(p) PROVE OwnCalls' /\ Apart'
  BY <1>0, <1>3, ServeControl DEF OwnCalls, Apart
<1>4. ASSUME NEW p \in Procs, Return(p) PROVE OwnCalls' /\ Apart'
  <2>1. /\ pc'[p] = "idle"
        /\ \A q \in Procs \ {p} : req'[q] = req[q] /\ pc'[q] = pc[q]
    BY <1>0, <1>4 DEF Return, ProcType
  <2> QED
    BY <1>0, <2>1 DEF OwnCalls, Apart
<1>5. ASSUME OtherClient \/ TimePasses \/ UNCHANGED vars PROVE OwnCalls' /\ Apart'
  BY <1>0, <1>5 DEF OtherClient, TimePasses, vars, OwnCalls, Apart
<1>6. OwnCalls' /\ Apart'
  BY <1>2, <1>3, <1>4, <1>5 DEF Next
<1> QED
  BY <1>1, <1>6 DEF Control

THEOREM ControlHolds == Spec => []Control
BY ControlInit, ControlStep, PTL DEF Spec

(* Whatever the requests, the failures and the other clients are, every    *)
(* variable keeps its type, and every request makes its own calls while it *)
(* holds its directories: handlers of directory.go never mix up.           *)
THEOREM DirectoryTypeCorrect == Spec => []TypeOK
BY ControlHolds, PTL DEF Control

-----------------------------------------------------------------------------
(* What a step does to the container.                                      *)
LEMMA ServeStored ==
  ASSUME NEW p \in Procs, Serve(p)
  PROVE  \/ UNCHANGED stored
         \/ pc[p] = "put" /\ stored' = stored \cup {Target(req[p])}
         \/ pc[p] = "copy" /\ stored' = stored \cup {NewTarget(req[p])}
         \/ pc[p] = "delete" /\ stored' = stored \ {Target(req[p])}
<1>1. CASE PutObject(p)
  BY <1>1 DEF PutObject, At, SwiftWrites, SwiftWriteFails
<1>2. CASE CopyObject(p)
  BY <1>2 DEF CopyObject, At, SwiftWrites, SwiftWriteFails, swiftVars
<1>3. CASE DeleteObject(p)
  BY <1>3 DEF DeleteObject, At, SwiftWrites, SwiftWriteFails, swiftVars
<1>4. CASE UNCHANGED stored
  BY <1>4
<1> QED
  BY <1>1, <1>2, <1>3, <1>4 DEF Serve, swiftVars, LookupPeek, ReadDirAllCached, ReadDirAllFetch,
     ReadDirAllFill, LookupGet, OpenCreated, SetCreated, FindNode, IsEmpty, RemoveDirectoryPeek,
     RemoveDirectoryDeleteAll, Uncache, SetCopied

(* A rename's own steps: it copies only what is there, and deletes only    *)
(* what it has copied.                                                     *)
LEMMA RenameOwnStep ==
  ASSUME TypeOK, OwnCalls, NEW p \in Procs, Serve(p), RenamedIsKept(p)
  PROVE  RenamedIsKept(p)'
<1> SUFFICES ASSUME changes' = 0, req[p].op = "rename"
             PROVE  RenamedIsKept(p)'
  BY ServeControl DEF RenamedIsKept
<1>0. ProcType /\ req[p] \in Requests
  BY TypeParts DEF ProcType
<1>1. /\ UNCHANGED req /\ pc[p] \notin {"idle", "answer"}
      /\ pc[p] \in CallsOf(req[p]) /\ Target(req[p]) # NewTarget(req[p])
  BY ServeControl DEF OwnCalls, WellFormed
<1>2. /\ changes = 0 /\ Target(req[p]) \in stored
      /\ pc[p] \in {"setnew", "uncache", "delete"} => NewTarget(req[p]) \in stored
  <2>1. changes = 0
    BY DEF Serve, swiftVars, SwiftFails, SwiftWrites, SwiftWriteFails, LookupPeek, ReadDirAllCached,
       ReadDirAllFetch, ReadDirAllFill, LookupGet, PutObject, OpenCreated, SetCreated, FindNode, IsEmpty,
       DeleteObject, RemoveDirectoryPeek, RemoveDirectoryDeleteAll, Uncache, CopyObject, SetCopied
  <2> QED
    BY <1>1, <2>1 DEF RenamedIsKept
<1>3. pc[p] \in {"find", "copy", "setnew", "uncache", "delete"}
  BY <1>1 DEF CallsOf
<1>4. CASE FindNode(p) \/ SetCopied(p) \/ Uncache(p)
  BY <1>0, <1>1, <1>2, <1>4 DEF FindNode, SetCopied, Uncache, At, Goto, Answer, swiftVars, RenamedIsKept,
     ProcType
<1>5. CASE CopyObject(p)
  <2>1. \/ stored' = stored \cup {NewTarget(req[p])} /\ pc'[p] = "setnew"
        \/ stored' \in {stored, stored \cup {NewTarget(req[p])}} /\ pc'[p] = "answer"
    BY <1>0, <1>5 DEF CopyObject, Goto, Answer, SwiftWrites, SwiftWriteFails, swiftVars, ProcType
  <2> QED
    BY <1>1, <1>2, <2>1 DEF RenamedIsKept
<1>6. CASE DeleteObject(p)
  <2>1. stored' \in {stored, stored \ {Target(req[p])}} /\ pc'[p] = "answer" /\ pc[p] = "delete"
    BY <1>0, <1>6 DEF DeleteObject, At, Answer, SwiftWrites, SwiftWriteFails, swiftVars, DeleteIgnoresError,
       ProcType
  <2> QED
    BY <1>1, <1>2, <2>1 DEF RenamedIsKept
<1> QED
  BY <1>3, <1>4, <1>5, <1>6 DEF Serve, At, LookupPeek, ReadDirAllCached, ReadDirAllFetch, ReadDirAllFill,
     LookupGet, PutObject, OpenCreated, SetCreated, IsEmpty, RemoveDirectoryPeek, RemoveDirectoryDeleteAll

(* The others' steps: they delete nothing from a directory it holds.       *)
LEMMA RenameOthersStep ==
  ASSUME Control, VFSLock # "none", NEW p \in Procs, NEW q \in Procs \ {p}, Serve(q), RenamedIsKept(p)
  PROVE  RenamedIsKept(p)'
<1> SUFFICES ASSUME changes' = 0, req[p].op = "rename", pc[p] # "idle"
             PROVE  RenamedIsKept(p)'
  BY ServeControl DEF RenamedIsKept, Control
<1>1. UNCHANGED req /\ pc'[p] = pc[p] /\ pc[q] # "idle"
  BY ServeControl DEF Control
<1>2. changes = 0
  BY DEF Serve, swiftVars, SwiftFails, SwiftWrites, SwiftWriteFails, LookupPeek, ReadDirAllCached,
     ReadDirAllFetch, ReadDirAllFill, LookupGet, PutObject, OpenCreated, SetCreated, FindNode, IsEmpty,
     DeleteObject, RemoveDirectoryPeek, RemoveDirectoryDeleteAll, Uncache, CopyObject, SetCopied
<1>3. Locks(req[p]) \cap Locks(req[q]) = {}
  BY <1>1 DEF Control, Apart, Compatible, ReadOps
<1>4. Target(req[q]) \notin {Target(req[p]), NewTarget(req[p])}
  BY <1>3 DEF Locks, Target, NewTarget
<1>5. Target(req[p]) \in stored => Target(req[p]) \in stored'
  BY <1>4, ServeStored
<1>6. NewTarget(req[p]) \in stored => NewTarget(req[p]) \in stored'
  BY <1>4, ServeStored
<1> QED
  BY <1>1, <1>2, <1>5, <1>6 DEF RenamedIsKept

LEMMA RenameStep ==
  ASSUME Control, VFSLock # "none", \A p \in Procs : RenamedIsKept(p), [Next]_vars
  PROVE  \A p \in Procs : RenamedIsKept(p)'
<1> SUFFICES ASSUME NEW p \in Procs
             PROVE  RenamedIsKept(p)'
  OBVIOUS
<1>0. ProcType /\ SwiftType
  BY TypeParts DEF Control
<1>1. ASSUME NEW q \in Procs, Start(q) PROVE RenamedIsKept(p)'
  <2>1. PICK r \in Offered : /\ Sensible(r) /\ req' = [req EXCEPT ![q] = r]
                             /\ pc' = [pc EXCEPT ![q] = FirstCall(r)]
    BY <1>1 DEF Start
  <2>2. UNCHANGED <<stored, changes>>
    BY <1>1 DEF Start, swiftVars
  <2>3. CASE q # p
    BY <1>0, <2>1, <2>2, <2>3 DEF RenamedIsKept, ProcType
  <2>4. CASE q = p
    <3>1. req'[p] = r /\ pc'[p] = FirstCall(r)
      BY <1>0, <2>1, <2>4 DEF ProcType
    <3>2. r.op = "rename" => FirstCall(r) = "find" /\ Target(r) \in stored
      BY <1>0, <2>1 DEF FirstCall, Sensible, Listing, SwiftType, Target
    <3> QED
      BY <2>2, <3>1, <3>2 DEF RenamedIsKept
  <2> QED
    BY <2>3, <2>4
<1>2. ASSUME NEW q \in Procs, Serve(q) PROVE RenamedIsKept(p)'
  BY <1>2, RenameOwnStep, RenameOthersStep DEF Control
<1>3. ASSUME NEW q \in Procs, Return(q) PROVE RenamedIsKept(p)'
  BY <1>0, <1>3 DEF Return, RenamedIsKept, ProcType, swiftVars
<1>4. CASE OtherClient
  BY <1>0, <1>4 DEF OtherClient, RenamedIsKept, SwiftType
<1>5. CASE TimePasses \/ UNCHANGED vars
  BY <1>5 DEF TimePasses, vars, swiftVars, RenamedIsKept
<1> QED
  BY <1>1, <1>2, <1>3, <1>4, <1>5 DEF Next

(* As long as the kernel serialises the changes of a directory, a renamed  *)
(* object is there under its old or its new name, whichever requests to    *)
(* Swift fail or take effect without an answer, and whatever the others    *)
(* make, remove, list or rename at the same time: the copy is checked      *)
(* before the delete, and no other request deletes in either directory.    *)
THEOREM RenameKeepsObjectHolds == VFSLock # "none" => (Spec => []RenameKeepsObject)
<1> SUFFICES ASSUME VFSLock # "none"
             PROVE  Spec => []RenameKeepsObject
  OBVIOUS
<1> DEFINE Inv == Control /\ \A p \in Procs : RenamedIsKept(p)
<1>1. Init => Inv
  <2>1. Init => \A p \in Procs : RenamedIsKept(p)
    BY DEF Init, RenamedIsKept
  <2> QED
    BY <2>1, ControlInit
<1>2. Inv /\ [Next]_vars => Inv'
  BY ControlStep, RenameStep
<1>3. Inv => RenameKeepsObject
  BY DEF RenamedIsKept, RenameKeepsObject
<1> QED
  BY <1>1, <1>2, <1>3, PTL DEF Spec

-----------------------------------------------------------------------------
(* What an rmdir found empty stays empty until its DELETE, whatever Swift  *)
(* fails to do, if nobody but this mount changes the container.            *)
FoundEmpty(p) == pc[p] = "delete" /\ req[p].name \in SubDirs => ~Populated(req[p].name)

LEMMA FoundEmptyStep ==
  ASSUME Control, VFSLock # "none", MaxChanges = 0, "SkipRmdir" \notin TransferMode,
         \A p \in Procs : FoundEmpty(p), [Next]_vars
  PROVE  \A p \in Procs : FoundEmpty(p)'
<1> SUFFICES ASSUME NEW p \in Procs, NEW s \in SubDirs, pc'[p] = "delete", req'[p].name = s
             PROVE  ~Populated(s)'
  BY DEF FoundEmpty
<1>0. ProcType /\ SwiftType /\ Control'
  BY TypeParts, ControlStep DEF Control
<1>1. ASSUME NEW q \in Procs, Start(q) PROVE ~Populated(s)'
  <2>1. PICK r \in Offered : /\ Sensible(r) /\ req' = [req EXCEPT ![q] = r]
                             /\ pc' = [pc EXCEPT ![q] = FirstCall(r)]
    BY <1>1 DEF Start
  <2>2. FirstCall(r) # "delete"
    BY <2>1, OfferedType DEF FirstCall, Requests
  <2>3. pc[p] = "delete" /\ req'[p] = req[p] /\ UNCHANGED stored
    BY <1>0, <1>1, <2>1, <2>2 DEF ProcType, Start, swiftVars
  <2> QED
    BY <2>3 DEF FoundEmpty, Populated
<1>2. ASSUME NEW q \in Procs, Serve(q), q # p PROVE ~Populated(s)'
  <2>1. /\ UNCHANGED req /\ pc[p] = "delete" /\ pc[q] # "idle"
        /\ req[p] \in Requests /\ WellFormed(req[p]) /\ pc[p] \in CallsOf(req[p])
    BY <1>0, <1>2, ServeControl DEF Control, OwnCalls, ProcType
  <2>2. req[p].op = "remove"
    BY <2>1 DEF CallsOf, WellFormed, Requests
  <2>3. Locks(req[p]) \cap Locks(req[q]) = {}
    BY <1>2, <2>1, <2>2 DEF Control, Apart, Compatible, ReadOps
  <2>4. s \notin Locks(req[q])
    BY <2>1, <2>2, <2>3 DEF Locks
  <2>5. \A f \in Files : <<s, f>> \in stored' => <<s, f>> \in stored
    BY <1>2, <2>4, ServeStored DEF Target, NewTarget, Locks
  <2>6. ~Populated(s)
    BY <2>1 DEF FoundEmpty
  <2> QED
    BY <2>5, <2>6 DEF Populated
<1>3. ASSUME Serve(p) PROVE ~Populated(s)'
  <2>1. /\ UNCHANGED req /\ req[p] \in Requests /\ WellFormed(req[p]) /\ pc[p] \in CallsOf(req[p])
    BY <1>0, <1>3, ServeControl DEF Control, OwnCalls, ProcType
  <2>2. req[p].op # "rename"
    BY <2>1 DEF WellFormed
  <2>3. IsEmpty(p)
    BY <1>0, <1>3, <2>1, <2>2 DEF Serve, At, LookupPeek, ReadDirAllCached, ReadDirAllFetch, ReadDirAllFill,
       LookupGet, PutObject, OpenCreated, SetCreated, FindNode, DeleteObject, AfterDelete,
       RemoveDirectoryPeek, RemoveDirectoryDeleteAll, Uncache, CopyObject, SetCopied, Goto, Answer,
       ProcType
  <2>4. UNCHANGED stored /\ ~Populated(req[p].name)
    BY <1>0, <2>3 DEF IsEmpty, Goto, Answer, ProcType, swiftVars
  <2> QED
    BY <2>1, <2>4 DEF Populated
<1>4. ASSUME NEW q \in Procs, Return(q) PROVE ~Populated(s)'
  <2>1. pc[p] = "delete" /\ req'[p] = req[p] /\ UNCHANGED stored
    BY <1>0, <1>4 DEF Return, ProcType, swiftVars
  <2> QED
    BY <2>1 DEF FoundEmpty, Populated
<1>5. ~OtherClient
  BY <1>0 DEF OtherClient, SwiftType
<1>6. ASSUME TimePasses \/ UNCHANGED vars PROVE ~Populated(s)'
  BY <1>6 DEF TimePasses, vars, swiftVars, FoundEmpty, Populated
<1> QED
  BY <1>1, <1>2, <1>3, <1>4, <1>5, <1>6 DEF Next

(* The marker of a directory is deleted only while nothing is in the       *)
(* directory, although isEmpty and the DELETE are two requests: an rmdir   *)
(* holds the directory in between, so no other request makes anything in   *)
(* it.  This needs neither an answer from Swift nor a coherent cache, only *)
(* that nobody else writes to the container and that the check for files   *)
(* is not switched off.                                                    *)
THEOREM RemovesOnlyEmptyHolds ==
  VFSLock # "none" /\ MaxChanges = 0 /\ "SkipRmdir" \notin TransferMode => (Spec => RemovesOnlyEmpty)
<1> SUFFICES ASSUME VFSLock # "none", MaxChanges = 0, "SkipRmdir" \notin TransferMode
             PROVE  Spec => RemovesOnlyEmpty
  OBVIOUS
<1> DEFINE Removes == \A s \in SubDirs : <<Top, s>> \in stored /\ <<Top, s>> \notin stored' => ~Populated(s)
           Inv == Control /\ \A p \in Procs : FoundEmpty(p)
<1>1. Init => Inv
  <2>1. Init => \A p \in Procs : FoundEmpty(p)
    BY DEF Init, FoundEmpty
  <2> QED
    BY <2>1, ControlInit
<1>2. Inv /\ [Next]_vars => Inv'
  BY ControlStep, FoundEmptyStep
<1>3. Inv /\ [Next]_vars => Removes
  <2> SUFFICES ASSUME Inv, [Next]_vars,
                      NEW s \in SubDirs, <<Top, s>> \in stored, <<Top, s>> \notin stored'
               PROVE  ~Populated(s)
    OBVIOUS
  <2>1. ~OtherClient
    BY TypeParts DEF OtherClient, Control, SwiftType
  <2>2. PICK p \in Procs : Serve(p)
    BY <2>1 DEF Next, vars, Start, Return, TimePasses, swiftVars
  <2>3. pc[p] = "delete" /\ Target(req[p]) = <<Top, s>>
    BY <2>2, ServeStored
  <2> QED
    BY <2>3 DEF FoundEmpty, Target
<1> QED
  BY <1>1, <1>2, <1>3, PTL DEF Spec, RemovesOnlyEmpty

-----------------------------------------------------------------------------
(* The only mount of a container, on a kernel that changes a directory in  *)
(* one request at a time, that marks its directories and checks that they  *)
(* are empty, while Swift answers.                                         *)
OneMount ==
  /\ VFSLock # "none"
  /\ MaxFaults = 0 /\ MaxChanges = 0
  /\ TransferMode = {} /\ OpenModes \subseteq {"write"}
  /\ \A S \in InitialStore : \A path \in S : path[1] = Top \/ <<Top, path[1]>> \in S

(* A directory with a marker shows no pseudo-directories.                  *)
LEMMA MarkedListing ==
  ASSUME Marked, stored \subseteq Paths, NEW d \in Dirs
  PROVE  Listing(d) = Objects(d)
<1>1. ASSUME NEW s \in SubDirs, Populated(s) PROVE <<Top, s>> \in stored
  <2>1. PICK f \in Files : <<s, f>> \in stored
    BY <1>1 DEF Populated
  <2>2. HasMarker(s)
    BY <2>1 DEF Marked
  <2> QED
    BY <2>2 DEF HasMarker, SubDirs
<1> QED
  BY <1>1 DEF Listing, Objects

(* Requests of different processes work on different directories, or both  *)
(* only read theirs.                                                       *)
LEMMA OwnDirectories ==
  ASSUME OneMount, Apart, NEW p \in Procs, NEW q \in Procs \ {p}, pc[p] # "idle", pc[q] # "idle"
  PROVE  \/ Locks(req[p]) \cap Locks(req[q]) = {}
         \/ VFSLock = "shared" /\ req[p].op \in ReadOps /\ req[q].op \in ReadOps
BY DEF OneMount, Apart, Compatible

(* What p can be changing is in its own directories.                       *)
LEMMA ChangingOwn ==
  ASSUME OneMount, Apart, NEW p \in Procs, pc[p] # "idle", NEW d \in Locks(req[p]), NEW n,
         Changing(d, n)
  PROVE  /\ pc[p] # "answer" /\ req[p].op \notin ReadOps
         /\ <<d, n>> \in {Target(req[p]), NewTarget(req[p])}
<1>1. PICK q \in Procs : /\ pc[q] \notin {"idle", "answer"} /\ req[q].op \notin ReadOps
                         /\ <<d, n>> \in {Target(req[q]), NewTarget(req[q])}
  BY DEF Changing
<1>2. d \in Locks(req[q])
  BY <1>1 DEF Locks, Target, NewTarget
<1>3. q = p
  BY <1>1, <1>2, OwnDirectories
<1> QED
  BY <1>1, <1>3

(* A call of p leaves the directories p does not hold alone.               *)
LEMMA ServeFrame ==
  ASSUME Control, NEW p \in Procs, Serve(p), NEW d \in Dirs \ Locks(req[p])
  PROVE  /\ SameEntry(d)
         /\ \A n : <<d, n>> \in stored' <=> <<d, n>> \in stored
<1>0. /\ CacheTypeOK /\ ProcType
      /\ req[p].dir \in Dirs \ {d} /\ req[p].todir \in Dirs \ {d}
      /\ req[p].name \in Names /\ req[p].toname \in Names
      /\ listing[p] \in SUBSET Names
  BY TypeParts DEF Control, ProcType, Requests, Locks
<1>1. \A n : <<d, n>> \in stored' <=> <<d, n>> \in stored
  BY <1>0, ServeStored DEF Target, NewTarget
<1>2. SameEntry(d)
  <2>1. CASE ReadDirAllCached(p)
    BY <1>0, <2>1, GetAllEffect DEF ReadDirAllCached
  <2>2. CASE ReadDirAllFill(p)
    BY <1>0, <2>2, AddAllEffect DEF ReadDirAllFill
  <2>3. CASE SetCreated(p) \/ SetCopied(p)
    BY <1>0, <2>3, SetEffect DEF SetCreated, SetCopied
  <2>4. CASE Uncache(p)
    BY <1>0, <2>4, DeleteEffect DEF Uncache
  <2>5. CASE RemoveDirectoryDeleteAll(p)
    <3>1. req[p].op = "remove" /\ req[p].name \in SubDirs
      BY <1>0, <2>5 DEF RemoveDirectoryDeleteAll, At, Control, OwnCalls, CallsOf, ProcType, Requests
    <3>2. d # req[p].name /\ req[p].name \in Dirs
      BY <3>1 DEF Locks, SubDirs
    <3> QED
      BY <2>5, <3>2, DeleteAllEffect DEF RemoveDirectoryDeleteAll
  <2>6. CASE UNCHANGED cacheVars
    BY <2>6 DEF cacheVars, SameEntry
  <2> QED
    BY <2>1, <2>2, <2>3, <2>4, <2>5, <2>6 DEF Serve, LookupPeek, ReadDirAllFetch, LookupGet, PutObject,
       OpenCreated, FindNode, IsEmpty, DeleteObject, RemoveDirectoryPeek, CopyObject
<1> QED
  BY <1>1, <1>2

(* So what the others rely on stays.                                       *)
LEMMA OthersKeep ==
  ASSUME Control, OneMount, NEW p \in Procs, Serve(p), NEW q \in Procs \ {p},
         HasStored(q), HasCached(q), HasListed(q), HasFound(q)
  PROVE  HasStored(q)' /\ HasCached(q)' /\ HasListed(q)' /\ HasFound(q)'
<1> DEFINE r == req[q]
<1>0. /\ ProcType /\ r \in Requests /\ UNCHANGED req /\ pc[p] # "idle"
      /\ pc'[q] = pc[q] /\ listing'[q] = listing[q] /\ reply'[q] = reply[q]
  BY TypeParts, ServeControl DEF Control, ProcType
<1>1. CASE pc[q] = "idle"
  BY <1>0, <1>1 DEF HasStored, HasCached, HasListed, HasFound
<1>2. CASE pc[q] # "idle" /\ VFSLock = "shared" /\ req[p].op \in ReadOps /\ r.op \in ReadOps
  <2>1. WellFormed(req[p]) /\ pc[p] \in CallsOf(req[p]) /\ pc[q] \in CallsOf(r) \cup {"answer"}
    BY <1>0, <1>2, ServeControl DEF Control, OwnCalls
  <2>2. UNCHANGED stored
    BY <1>2, <2>1, ServeStored DEF CallsOf, ReadOps
  <2>3. pc[q] \in {"peek", "getall", "fetch", "addall", "get", "answer"}
    BY <1>2, <2>1 DEF CallsOf, ReadOps
  <2> QED
    BY <1>0, <1>2, <2>2, <2>3 DEF HasStored, HasCached, HasListed, HasFound, Objects
<1>3. CASE pc[q] # "idle" /\ Locks(req[p]) \cap Locks(r) = {}
  <2>2. \A d \in Locks(r) \cap Dirs : /\ SameEntry(d)
                                     /\ \A n : <<d, n>> \in stored' <=> <<d, n>> \in stored
    BY <1>3, ServeFrame
  <2>3. r.dir \in Locks(r) \cap Dirs /\ r.todir \in Locks(r) \cap Dirs
    BY <1>0 DEF Locks, Requests
  <2>4. /\ Target(r) \in stored' <=> Target(r) \in stored
        /\ NewTarget(r) \in stored' <=> NewTarget(r) \in stored
        /\ Settled(Target(r))' <=> Settled(Target(r))
        /\ Settled(NewTarget(r))' <=> Settled(NewTarget(r))
        /\ GetFound(r.dir, r.name)' <=> GetFound(r.dir, r.name)
        /\ PeekFound(r.dir)' <=> PeekFound(r.dir)
        /\ r.dir \in DOMAIN content' <=> r.dir \in DOMAIN content
        /\ Objects(r.dir)' = Objects(r.dir)
    BY <1>0, <2>2, <2>3 DEF Target, NewTarget, Settled, GetFound, PeekFound, Expired, SameEntry, Objects
  <2>5. ASSUME pc[q] = "delete" \/ pc[q] = "deleteall", r.name \in SubDirs
        PROVE  /\ Objects(r.name)' = Objects(r.name)
               /\ r.name \in DOMAIN content' <=> r.name \in DOMAIN content
    <3>1. r.op = "remove"
      BY <1>0, <2>5 DEF Control, OwnCalls, CallsOf, WellFormed, SubDirs, Requests
    <3>2. r.name \in Locks(r) \cap Dirs
      BY <2>5, <3>1 DEF Locks, SubDirs
    <3> QED
      BY <1>0, <2>2, <3>2 DEF Objects, SameEntry
  <2>6. pc[q] = "deleteall" => r.name \in SubDirs
    BY <1>0, <1>3 DEF Control, OwnCalls, CallsOf, Requests
  <2>7. HasStored(q)'
    BY <1>0, <2>4, <2>5 DEF HasStored
  <2>8. HasCached(q)'
    BY <1>0, <2>4, <2>5, <2>6 DEF HasCached
  <2>9. HasListed(q)' /\ HasFound(q)'
    BY <1>0, <2>4 DEF HasListed, HasFound
  <2> QED
    BY <2>7, <2>8, <2>9
<1> QED
  BY <1>0, <1>1, <1>2, <1>3, OwnDirectories DEF Control

-----------------------------------------------------------------------------
(* The steps of p's own request.  In the directories p holds, the cache is *)
(* right about every name but those p is changing.                         *)
OwnCoherent(p) ==
  \A d \in Locks(req[p]) \cap Dirs, n \in Names :
    \/ Settled(<<d, n>>)
    \/ /\ pc[p] \notin {"idle", "answer"} /\ req[p].op \notin ReadOps
       /\ <<d, n>> \in {Target(req[p]), NewTarget(req[p])}
Own(p) == HasStored(p) /\ HasCached(p) /\ HasListed(p) /\ HasFound(p) /\ OwnCoherent(p)

LEMMA OwnHolds ==
  ASSUME TypeOK, OneMount, DirectoryInvariant, NEW p \in Procs, pc[p] # "idle"
  PROVE  Own(p)
BY ChangingOwn DEF DirectoryInvariant, Own, OwnCoherent, Coherent

(* Lookup and ReadDirAll.                                                  *)
LEMMA ReadOwn ==
  ASSUME TypeOK, OneMount, DirectoryInvariant, NEW p \in Procs,
         \/ LookupPeek(p) \/ ReadDirAllCached(p) \/ ReadDirAllFetch(p) \/ ReadDirAllFill(p)
         \/ LookupGet(p)
  PROVE  Own(p)'
<1> DEFINE r == req[p]
<1>0. /\ CacheTypeOK /\ ProcType /\ SwiftType /\ r \in Requests /\ r.dir \in Dirs
      /\ listing[p] \in SUBSET Names
  BY TypeParts DEF ProcType, Requests
<1>1. UNCHANGED <<req, stored>> /\ pc[p] \in {"peek", "getall", "fetch", "addall", "get"}
  BY DEF LookupPeek, ReadDirAllCached, ReadDirAllFetch, ReadDirAllFill, LookupGet, At, swiftVars
<1>2. r.op \in ReadOps /\ Target(r) = NewTarget(r) /\ pc[p] \in CallsOf(r)
  BY <1>0, <1>1 DEF DirectoryInvariant, OwnCalls, WellFormed, CallsOf, ReadOps, Requests
<1>3. Locks(r) = {r.dir} /\ r.todir = r.dir
  BY <1>0, <1>2 DEF Locks, ReadOps, Target, NewTarget, Requests
<1>4. HasListed(p) /\ HasFound(p) /\ \A n \in Names : Settled(<<r.dir, n>>)
  BY <1>0, <1>1, <1>2, <1>3, OwnHolds DEF Own, OwnCoherent
<1>5. SUFFICES ASSUME NEW l \in {"peek", "getall", "fetch", "addall", "get", "answer"},
                      pc'[p] = l
               PROVE  /\ \A n \in Names : Settled(<<r.dir, n>>)'
                      /\ l = "addall" => listing'[p] = Objects(r.dir)
                      /\ l = "answer" /\ r.op = "lookup" /\ reply'[p] = "OK" => Target(r) \in stored
                      /\ VFSLock = "exclusive" =>
                           /\ l \in {"getall", "fetch"} /\ r.op = "lookup" => ~PeekFound(r.dir)'
                           /\ l = "get" => r.dir \in DOMAIN content'
                           /\ l = "answer" /\ r.op = "lookup" /\ Target(r) \in stored => reply'[p] = "OK"
  <2>1. pc'[p] \in {"peek", "getall", "fetch", "addall", "get", "answer"}
    BY <1>0 DEF LookupPeek, ReadDirAllCached, ReadDirAllFetch, ReadDirAllFill, LookupGet, Goto, Answer,
       ProcType
  <2> QED
    BY <1>1, <1>2, <1>3, <2>1 DEF Own, OwnCoherent, HasStored, HasCached, HasListed, HasFound, ReadOps, Objects
<1>6. CASE LookupPeek(p)
  <2>1. UNCHANGED cacheVars /\ pc'[p] = IF PeekFound(r.dir) THEN "get" ELSE "getall"
    BY <1>0, <1>6 DEF LookupPeek, Goto, ProcType
  <2>2. PeekFound(r.dir)' <=> PeekFound(r.dir)
    BY <1>1, <2>1 DEF cacheVars, PeekFound, Expired
  <2> QED
    BY <1>1, <1>4, <1>5, <2>1, <2>2 DEF cacheVars, Settled, PeekFound
<1>7. CASE ReadDirAllCached(p)
  <2>1. SameEntry(r.dir) \/ r.dir \notin DOMAIN content'
    BY <1>0, <1>7, GetAllEffect DEF ReadDirAllCached
  <2>2. \A n \in Names : Settled(<<r.dir, n>>)'
    BY <1>1, <1>4, <2>1 DEF Settled, SameEntry
  <2>3. VFSLock = "exclusive" /\ r.op = "lookup" => ~PeekFound(r.dir) /\ ~PeekFound(r.dir)'
    BY <1>4, <1>7, <2>1, <1>1 DEF ReadDirAllCached, At, HasFound, PeekFound, Expired, SameEntry
  <2>4. /\ pc'[p] \in {"answer", "fetch", "get"}
        /\ r.op = "lookup" => pc'[p] # "answer" /\ (VFSLock = "exclusive" => pc'[p] = "fetch")
        /\ r.op # "lookup" => pc'[p] # "get"
    BY <1>0, <1>7, <2>3 DEF ReadDirAllCached, GetAllHit, Goto, Answer, ProcType
  <2> QED
    BY <1>5, <2>2, <2>3, <2>4
<1>8. CASE ReadDirAllFetch(p)
  <2>1. pc'[p] = "addall" /\ listing'[p] = Listing(r.dir) /\ UNCHANGED cacheVars
    BY <1>0, <1>8 DEF ReadDirAllFetch, Goto, ProcType, SwiftFails, SwiftType, OneMount
  <2>2. Listing(r.dir) = Objects(r.dir)
    BY <1>0, MarkedListing DEF DirectoryInvariant, SwiftType
  <2> QED
    BY <1>1, <1>4, <1>5, <2>1, <2>2 DEF cacheVars, Settled
<1>9. CASE ReadDirAllFill(p)
  <2>1. listing[p] = Objects(r.dir)
    BY <1>4, <1>9 DEF ReadDirAllFill, At, HasListed
  <2>2. r.dir \in DOMAIN content' /\ content'[r.dir].nodes = Objects(r.dir)
    <3>1. AddAll(r.dir, listing[p])
      BY <1>9 DEF ReadDirAllFill
    <3>2. DOMAIN content' = DOMAIN content \cup {r.dir} /\ content'[r.dir].nodes = listing[p]
      BY <1>0, <3>1, AddAllEffect
    <3> QED
      BY <2>1, <3>2
  <2>3. pc'[p] = IF r.op = "lookup" THEN "get" ELSE "answer"
    BY <1>0, <1>9 DEF ReadDirAllFill, Goto, Answer, ProcType
  <2> QED
    BY <1>1, <1>5, <2>2, <2>3 DEF Settled, Objects
<1>10. CASE LookupGet(p)
  <2>1. r.name \in Names /\ (VFSLock = "exclusive" => r.dir \in DOMAIN content)
    BY <1>0, <1>4, <1>10 DEF LookupGet, At, HasFound, Requests
  <2>2. /\ GetFound(r.dir, r.name) => Target(r) \in stored
        /\ VFSLock = "exclusive" /\ Target(r) \in stored => GetFound(r.dir, r.name)
    BY <1>4, <2>1 DEF GetFound, Settled, Target
  <2>3. pc'[p] = "answer" /\ (reply'[p] = "OK" <=> GetFound(r.dir, r.name)) /\ UNCHANGED cacheVars
    BY <1>0, <1>10 DEF LookupGet, Answer, ProcType
  <2> QED
    BY <1>1, <1>4, <1>5, <2>2, <2>3 DEF cacheVars, Settled
<1> QED
  BY <1>6, <1>7, <1>8, <1>9, <1>10

(* Create, Mkdir and Symlink: the object first, the cache last.            *)
LEMMA MakeOwn ==
  ASSUME TypeOK, OneMount, DirectoryInvariant, NEW p \in Procs,
         PutObject(p) \/ OpenCreated(p) \/ SetCreated(p)
  PROVE  Own(p)'
<1> DEFINE r == req[p]
<1>0. /\ CacheTypeOK /\ ProcType /\ SwiftType /\ r \in Requests /\ r.dir \in Dirs /\ r.name \in Names
  BY TypeParts DEF ProcType, Requests
<1>1. UNCHANGED req /\ pc[p] \in {"put", "open", "set"}
  BY DEF PutObject, OpenCreated, SetCreated, At
<1>2. r.op \in {"create", "mkdir", "symlink"} /\ Target(r) = NewTarget(r)
  BY <1>0, <1>1 DEF DirectoryInvariant, OwnCalls, WellFormed, CallsOf, Requests
<1>3. Locks(r) = {r.dir} /\ r.todir = r.dir
  BY <1>0, <1>2 DEF Locks, Target, NewTarget, Requests
<1>4. HasStored(p) /\ \A n \in Names : Settled(<<r.dir, n>>) \/ n = r.name
  BY <1>0, <1>1, <1>2, <1>3, OwnHolds DEF Own, OwnCoherent, Target
<1>5. SUFFICES ASSUME NEW l \in {"open", "set", "answer"}, pc'[p] = l
               PROVE  /\ \A n \in Names : Settled(<<r.dir, n>>)' \/ (l # "answer" /\ n = r.name)
                      /\ l # "answer" => Target(r) \in stored'
  <2>1. pc'[p] \in {"open", "set", "answer"}
    BY <1>0 DEF PutObject, OpenCreated, SetCreated, Goto, Answer, ProcType
  <2> QED
    BY <1>1, <1>2, <1>3, <2>1 DEF Own, OwnCoherent, HasStored, HasCached, HasListed, HasFound, ReadOps, Target
<1>6. CASE PutObject(p)
  <2>1. stored' = stored \cup {Target(r)} /\ pc'[p] # "answer" /\ UNCHANGED cacheVars
    BY <1>0, <1>6 DEF PutObject, Goto, ProcType, SwiftWrites, SwiftWriteFails, SwiftFails, SwiftType, OneMount
  <2> QED
    BY <1>1, <1>4, <1>5, <2>1 DEF cacheVars, Settled, Target
<1>7. CASE OpenCreated(p)
  <2>1. pc'[p] = "set" /\ UNCHANGED <<cacheVars, stored>>
    BY <1>0, <1>7 DEF OpenCreated, Goto, ProcType, OneMount, swiftVars
  <2>2. Target(r) \in stored
    BY <1>4, <1>7 DEF OpenCreated, At, HasStored
  <2> QED
    BY <1>1, <1>4, <1>5, <2>1, <2>2 DEF cacheVars, Settled
<1>8. CASE SetCreated(p)
  <2>1. Set(r.dir, r.name) /\ UNCHANGED stored /\ pc'[p] = "answer"
    BY <1>0, <1>8 DEF SetCreated, Answer, ProcType, swiftVars
  <2>2. Target(r) \in stored
    BY <1>4, <1>8 DEF SetCreated, At, HasStored
  <2>3. ASSUME NEW n \in Names PROVE Settled(<<r.dir, n>>)'
    BY <1>0, <1>1, <1>4, <2>1, <2>2, SetEffect DEF Settled, Target
  <2> QED
    BY <1>5, <2>1, <2>3
<1> QED
  BY <1>6, <1>7, <1>8

(* Remove: the object first, the listing of the directory it removed next, *)
(* the name in the cache last.                                             *)
LEMMA RemoveOwn ==
  ASSUME TypeOK, OneMount, DirectoryInvariant, NEW p \in Procs, Serve(p), req[p].op = "remove"
  PROVE  Own(p)'
<1> DEFINE r == req[p]
           below == r.name \in SubDirs
<1>0. /\ CacheTypeOK /\ ProcType /\ SwiftType /\ r \in Requests /\ r.dir \in Dirs /\ r.name \in Names
  BY TypeParts DEF ProcType, Requests
<1>1. /\ UNCHANGED req /\ Target(r) = NewTarget(r) /\ pc[p] \in CallsOf(r)
      /\ below => r.dir = Top
      /\ pc'[p] \in CallsOf(r) \cup {"answer"}
  BY <1>0, ServeControl DEF DirectoryInvariant, OwnCalls, WellFormed
<1>2. /\ r.todir = r.dir /\ r.dir \in Locks(r) /\ below => r.name \in Locks(r) \cap Dirs
      /\ Locks(r) \subseteq {r.dir, r.name} /\ ~below => Locks(r) = {r.dir}
      /\ below => r.name # r.dir
  BY <1>0, <1>1 DEF Locks, Target, NewTarget, SubDirs
<1>3. /\ HasStored(p) /\ HasCached(p)
      /\ \A d \in Locks(r) \cap Dirs, n \in Names : Settled(<<d, n>>) \/ <<d, n>> = Target(r)
  BY <1>0, <1>1, <1>2, OwnHolds, ServeControl DEF Own, OwnCoherent, DirectoryInvariant
<1>4. SUFFICES
        ASSUME NEW l \in {"empty", "delete", "peekdir", "deleteall", "uncache", "answer"}, pc'[p] = l
        PROVE  /\ \A d \in Locks(r) \cap Dirs, n \in Names :
                    Settled(<<d, n>>)' \/ (l # "answer" /\ <<d, n>> = Target(r))
               /\ l \in {"empty", "delete"} => Target(r) \in stored'
               /\ l \in {"peekdir", "deleteall", "uncache"} => Target(r) \notin stored'
               /\ l = "delete" /\ below => Objects(r.name)' = {}
               /\ l = "empty" => Settled(Target(r))'
               /\ l = "deleteall" => r.name \in DOMAIN content'
  <2>1. pc'[p] \in {"empty", "delete", "peekdir", "deleteall", "uncache", "answer"}
    BY <1>0, <1>1 DEF Serve, At, CallsOf, LookupPeek, ReadDirAllCached, ReadDirAllFetch, ReadDirAllFill, LookupGet,
       PutObject, OpenCreated, SetCreated, FindNode, IsEmpty, DeleteObject, AfterDelete, RemoveDirectoryPeek,
       RemoveDirectoryDeleteAll, Uncache, CopyObject, SetCopied, Goto, Answer, ProcType
  <2> QED
    BY <1>1, <1>2, <2>1 DEF Own, OwnCoherent, HasStored, HasCached, HasListed, HasFound, ReadOps, Objects
<1>5. CASE FindNode(p)
  <2>1. /\ UNCHANGED <<cacheVars, stored>> /\ pc'[p] \in {"answer", "empty", "delete"}
        /\ below => pc'[p] # "delete"
    BY <1>0, <1>5 DEF FindNode, Goto, Answer, ProcType, OneMount, swiftVars
  <2>2. Target(r) \in stored /\ Settled(Target(r))
    BY <1>3, <1>5 DEF FindNode, At, HasStored, HasCached
  <2> QED
    BY <1>1, <1>3, <1>4, <2>1, <2>2 DEF cacheVars, Settled
<1>6. CASE IsEmpty(p)
  <2>1. /\ UNCHANGED <<cacheVars, stored>> /\ pc'[p] \in {"answer", "delete"}
        /\ pc'[p] = "delete" => ~Populated(r.name)
    BY <1>0, <1>6 DEF IsEmpty, Goto, Answer, ProcType, OneMount, swiftVars, SwiftFails, SwiftType
  <2>2. Target(r) \in stored /\ Settled(Target(r))
    BY <1>3, <1>6 DEF IsEmpty, At, HasStored, HasCached
  <2>3. below /\ ~Populated(r.name) => Objects(r.name)' = {}
    BY <1>0, <1>1, <2>1 DEF Objects, Populated, SwiftType, Paths, SubDirs
  <2> QED
    BY <1>1, <1>3, <1>4, <2>1, <2>2, <2>3 DEF cacheVars, Settled
<1>7. CASE DeleteObject(p)
  <2>1. Target(r) \in stored
    BY <1>3, <1>7 DEF DeleteObject, At, HasStored
  <2>2. /\ stored' = stored \ {Target(r)} /\ UNCHANGED cacheVars
        /\ pc'[p] = IF below THEN "peekdir" ELSE "uncache"
    BY <1>0, <1>7, <2>1 DEF DeleteObject, AfterDelete, Goto, ProcType, OneMount, SwiftWrites, SwiftWriteFails,
       SwiftFails, SwiftType
  <2> QED
    BY <1>1, <1>3, <1>4, <2>2 DEF cacheVars, Settled
<1>8. CASE RemoveDirectoryPeek(p)
  <2>1. /\ UNCHANGED <<cacheVars, stored>>
        /\ pc'[p] = IF PeekFound(r.name) THEN "deleteall" ELSE "uncache"
    BY <1>0, <1>8 DEF RemoveDirectoryPeek, Goto, ProcType, swiftVars
  <2>2. Target(r) \notin stored
    BY <1>3, <1>8 DEF RemoveDirectoryPeek, At, HasStored
  <2> QED
    BY <1>1, <1>3, <1>4, <2>1, <2>2 DEF cacheVars, Settled, PeekFound
<1>9. CASE RemoveDirectoryDeleteAll(p)
  <2>0. below
    BY <1>0, <1>1, <1>9 DEF RemoveDirectoryDeleteAll, At, CallsOf
  <2>1. r.name \in DOMAIN content /\ Target(r) \notin stored
    BY <1>3, <1>9 DEF RemoveDirectoryDeleteAll, At, HasStored, HasCached
  <2>2. UNCHANGED stored /\ pc'[p] = "uncache" /\ DeleteAll(r.name)
    BY <1>0, <1>9, <2>1 DEF RemoveDirectoryDeleteAll, DeleteAllPanics, Goto, ProcType, swiftVars
  <2>3. ASSUME NEW d \in Dirs, d \in DOMAIN content' PROVE SameEntry(d)
    <3>1. r.name \in Dirs /\ DeleteAll(r.name)
      BY <2>0, <2>2 DEF SubDirs
    <3> QED
      BY <2>3, <3>1, DeleteAllEffect
  <2>4. \A d \in Dirs, n \in Names : Settled(<<d, n>>) => Settled(<<d, n>>)'
    BY <2>2, <2>3 DEF Settled, SameEntry
  <2> QED
    BY <1>3, <1>4, <2>1, <2>2, <2>4
<1>10. CASE Uncache(p)
  <2>1. UNCHANGED stored /\ pc'[p] = "answer" /\ Delete(r.dir, r.name)
    BY <1>0, <1>10 DEF Uncache, Answer, ProcType, swiftVars
  <2>2. Target(r) \notin stored
    BY <1>3, <1>10 DEF Uncache, At, HasStored
  <2>3. ASSUME NEW d \in Locks(r) \cap Dirs, NEW n \in Names PROVE Settled(<<d, n>>)'
    BY <1>0, <1>3, <2>1, <2>2, DeleteEffect DEF Settled, Target, SameEntry
  <2> QED
    BY <1>4, <2>1, <2>3
<1> QED
  BY <1>0, <1>1, <1>5, <1>6, <1>7, <1>8, <1>9, <1>10 DEF Serve, At, CallsOf, LookupPeek, ReadDirAllCached,
     ReadDirAllFetch, ReadDirAllFill, LookupGet, PutObject, OpenCreated, SetCreated, CopyObject, SetCopied

(* Link and Rename: the copy, its name in the cache, and for a rename the  *)
(* old name in the cache before the old object.                            *)
LEMMA CopyOwn ==
  ASSUME TypeOK, OneMount, DirectoryInvariant, NEW p \in Procs, Serve(p),
         req[p].op \in {"link", "rename"}
  PROVE  Own(p)'
<1> DEFINE r == req[p]
<1>0. /\ CacheTypeOK /\ ProcType /\ SwiftType /\ r \in Requests
      /\ r.dir \in Dirs /\ r.name \in Names /\ r.todir \in Dirs /\ r.toname \in Names
  BY TypeParts DEF ProcType, Requests
<1>1. /\ UNCHANGED req /\ Target(r) # NewTarget(r) /\ r.name \notin SubDirs
      /\ pc[p] \in CallsOf(r) /\ pc'[p] \in CallsOf(r) \cup {"answer"}
  BY ServeControl DEF DirectoryInvariant, OwnCalls, WellFormed
<1>2. Locks(r) \cap Dirs = {r.dir, r.todir}
  BY <1>0 DEF Locks
<1>3. /\ HasStored(p) /\ HasCached(p)
      /\ \A d \in {r.dir, r.todir}, n \in Names :
           Settled(<<d, n>>) \/ <<d, n>> \in {Target(r), NewTarget(r)}
  BY <1>2, OwnHolds, ServeControl DEF Own, OwnCoherent, DirectoryInvariant
<1>4. SUFFICES
        ASSUME NEW l \in {"copy", "setnew", "uncache", "delete", "answer"}, pc'[p] = l
        PROVE  /\ \A d \in {r.dir, r.todir}, n \in Names :
                    Settled(<<d, n>>)' \/ <<d, n>> \in {Target(r), NewTarget(r)}
               /\ l \in {"copy", "setnew", "answer"} => Settled(Target(r))'
               /\ l \in {"uncache", "delete", "answer"} => Settled(NewTarget(r))'
               /\ l # "answer" => Target(r) \in stored'
               /\ l \notin {"copy", "answer"} => NewTarget(r) \in stored'
               /\ l = "delete" => ~GetFound(r.dir, r.name)'
  <2>1. pc'[p] \in {"copy", "setnew", "uncache", "delete", "answer"}
    BY <1>0, <1>1 DEF Serve, At, CallsOf, LookupPeek, ReadDirAllCached, ReadDirAllFetch, ReadDirAllFill, LookupGet,
       PutObject, OpenCreated, SetCreated, FindNode, IsEmpty, DeleteObject, AfterDelete, RemoveDirectoryPeek,
       RemoveDirectoryDeleteAll, Uncache, CopyObject, SetCopied, Goto, Answer, ProcType
  <2> QED
    BY <1>1, <1>2, <2>1 DEF Own, OwnCoherent, HasStored, HasCached, HasListed, HasFound, ReadOps, CallsOf
<1>5. CASE FindNode(p)
  <2>1. /\ UNCHANGED <<cacheVars, stored>>
        /\ pc'[p] \in {"answer", "copy"}
    BY <1>0, <1>1, <1>5 DEF FindNode, At, CallsOf, Goto, Answer, ProcType, swiftVars
  <2>2. Target(r) \in stored /\ Settled(Target(r)) /\ Settled(NewTarget(r))
    BY <1>3, <1>5 DEF FindNode, At, HasStored, HasCached
  <2> QED
    BY <1>1, <1>3, <1>4, <2>1, <2>2 DEF cacheVars, Settled
<1>6. CASE CopyObject(p)
  <2>1. Target(r) \in stored /\ Settled(Target(r))
    BY <1>3, <1>6 DEF CopyObject, At, HasStored, HasCached
  <2>2. /\ stored' = stored \cup {NewTarget(r)} /\ UNCHANGED cacheVars /\ pc'[p] = "setnew"
    BY <1>0, <1>6, <2>1 DEF CopyObject, Goto, ProcType, OneMount, SwiftWrites, SwiftWriteFails, SwiftFails,
       SwiftType
  <2>3. Settled(Target(r))'
    BY <1>1, <2>1, <2>2 DEF cacheVars, Settled
  <2>4. \A path : path # NewTarget(r) /\ Settled(path) => Settled(path)'
    BY <2>2 DEF cacheVars, Settled
  <2> QED
    BY <1>1, <1>3, <1>4, <2>1, <2>2, <2>3, <2>4
<1>7. CASE SetCopied(p)
  <2>1. /\ Set(r.todir, r.toname) /\ UNCHANGED stored
        /\ pc'[p] = IF r.op = "rename" THEN "uncache" ELSE "answer"
    BY <1>0, <1>7 DEF SetCopied, Goto, Answer, ProcType, swiftVars
  <2>2. Settled(Target(r)) /\ Target(r) \in stored /\ NewTarget(r) \in stored
    BY <1>3, <1>7 DEF SetCopied, At, HasStored, HasCached
  <2>3. Settled(NewTarget(r))'
    BY <1>0, <1>1, <2>1, <2>2, SetEffect DEF Settled, NewTarget
  <2>4. ASSUME NEW d \in Dirs, NEW n \in Names, <<d, n>> # NewTarget(r), Settled(<<d, n>>)
        PROVE  Settled(<<d, n>>)'
    BY <1>0, <1>1, <2>1, <2>4, SetEffect DEF Settled, NewTarget, SameEntry
  <2>5. Settled(Target(r))'
    BY <1>0, <1>1, <2>2, <2>4 DEF Target
  <2> QED
    BY <1>0, <1>1, <1>3, <1>4, <2>1, <2>2, <2>3, <2>4, <2>5
<1>8. CASE Uncache(p)
  <2>0. r.op = "rename"
    BY <1>0, <1>1, <1>8 DEF Uncache, At, CallsOf
  <2>1. Delete(r.dir, r.name) /\ UNCHANGED stored /\ pc'[p] = "delete"
    BY <1>0, <1>8, <2>0 DEF Uncache, Goto, ProcType, swiftVars
  <2>2. Settled(NewTarget(r)) /\ Target(r) \in stored /\ NewTarget(r) \in stored
    BY <1>3, <1>8, <2>0 DEF Uncache, At, HasStored, HasCached
  <2>3. ~GetFound(r.dir, r.name)'
    BY <1>0, <1>1, <2>1, DeleteEffect DEF GetFound
  <2>4. ASSUME NEW d \in Dirs, NEW n \in Names, <<d, n>> # Target(r), Settled(<<d, n>>)
        PROVE  Settled(<<d, n>>)'
    BY <1>0, <1>1, <2>1, <2>4, DeleteEffect DEF Settled, Target, SameEntry
  <2>5. Settled(NewTarget(r))'
    BY <1>0, <1>1, <2>2, <2>4 DEF NewTarget
  <2> QED
    BY <1>0, <1>1, <1>3, <1>4, <2>1, <2>2, <2>3, <2>4, <2>5
<1>9. CASE DeleteObject(p)
  <2>0. r.op = "rename"
    BY <1>0, <1>1, <1>9 DEF DeleteObject, At, CallsOf
  <2>1. /\ Target(r) \in stored /\ Settled(NewTarget(r)) /\ NewTarget(r) \in stored
        /\ ~GetFound(r.dir, r.name)
    BY <1>3, <1>9, <2>0 DEF DeleteObject, At, HasStored, HasCached
  <2>2. stored' = stored \ {Target(r)} /\ UNCHANGED cacheVars /\ pc'[p] = "answer"
    BY <1>0, <1>9, <2>0, <2>1 DEF DeleteObject, Answer, ProcType, OneMount, SwiftWrites, SwiftWriteFails,
       SwiftFails, SwiftType, DeleteIgnoresError
  <2>3. Settled(Target(r))'
    BY <1>1, <2>1, <2>2 DEF cacheVars, Settled, Target, GetFound
  <2>4. \A path : path # Target(r) /\ Settled(path) => Settled(path)'
    BY <2>2 DEF cacheVars, Settled
  <2> QED
    BY <1>1, <1>3, <1>4, <2>1, <2>2, <2>3, <2>4
<1> QED
  BY <1>0, <1>1, <1>5, <1>6, <1>7, <1>8, <1>9 DEF Serve, At, CallsOf, LookupPeek, ReadDirAllCached,
     ReadDirAllFetch, ReadDirAllFill, LookupGet, PutObject, OpenCreated, SetCreated, IsEmpty,
     RemoveDirectoryPeek, RemoveDirectoryDeleteAll

-----------------------------------------------------------------------------
(* The invariant as a whole.                                               *)
LEMMA ServeMarked ==
  ASSUME TypeOK, OneMount, DirectoryInvariant, NEW p \in Procs, Serve(p)
  PROVE  Marked'
<1> DEFINE r == req[p]
<1>0. ProcType /\ SwiftType /\ r \in Requests /\ Marked /\ Apart /\ HasStored(p)
  BY TypeParts DEF ProcType, DirectoryInvariant
<1>1. /\ UNCHANGED req /\ pc[p] # "idle" /\ WellFormed(r) /\ pc[p] \in CallsOf(r)
      /\ \A q \in Procs : pc'[q] # "idle" => pc[q] # "idle"
  BY ServeControl DEF DirectoryInvariant, OwnCalls
<1>2. ASSUME NEW d \in Dirs, HasMarker(d), ~HasMarker(d)'
      PROVE  pc[p] = "delete" /\ d \in SubDirs /\ r.op = "remove" /\ d = r.name /\ d \in Locks(r)
  <2>1. pc[p] = "delete" /\ Target(r) = <<Top, d>> /\ d \in SubDirs
    BY <1>2, ServeStored DEF HasMarker, SubDirs
  <2>2. r.op = "remove"
    BY <1>0, <1>1, <2>1 DEF CallsOf, WellFormed, Target, Requests
  <2> QED
    BY <2>1, <2>2 DEF Target, Locks
<1>3. ASSUME NEW path \in stored' PROVE HasMarker(path[1])'
  <2>1. HasMarker(path[1]) /\ path[1] \in Dirs
    <3>1. CASE path \in stored
      BY <1>0, <3>1 DEF Marked, SwiftType, Paths
    <3>2. CASE path \notin stored
      <4>1. path \in {Target(r), NewTarget(r)}
        BY <1>3, <3>2, ServeStored
      <4> QED
        BY <1>0, <1>1, <4>1 DEF Marked, Target, NewTarget, Requests
    <3> QED
      BY <3>1, <3>2
  <2>2. SUFFICES ASSUME ~HasMarker(path[1])'
                 PROVE  FALSE
    OBVIOUS
  <2>3. /\ pc[p] = "delete" /\ path[1] = r.name /\ r.name \in SubDirs
    BY <1>2, <2>1, <2>2
  <2>4. path \in stored /\ path \in Paths
    BY <1>0, <1>3, <2>3, ServeStored DEF SwiftType
  <2>5. path[2] \in Objects(r.name)
    BY <2>3, <2>4 DEF Objects, Paths
  <2> QED
    BY <1>0, <2>3, <2>5 DEF HasStored
<1>4. ASSUME NEW q \in Procs, pc[q] # "idle", NEW d \in {req[q].dir, req[q].todir}
      PROVE  HasMarker(d)'
  <2>1. HasMarker(d) /\ d \in Dirs
    BY <1>0, <1>4 DEF Marked, ProcType, Requests
  <2>2. CASE q = p
    BY <1>1, <1>2, <2>1, <2>2 DEF WellFormed, SubDirs, Target, NewTarget
  <2>3. CASE q # p
    <3> SUFFICES ASSUME ~HasMarker(d)'
                 PROVE  FALSE
      OBVIOUS
    <3>1. r.op = "remove" /\ d \in Locks(r)
      BY <1>2, <2>1
    <3>2. Locks(r) \cap Locks(req[q]) = {}
      BY <1>0, <1>1, <1>4, <2>3, <3>1, OwnDirectories DEF ReadOps
    <3> QED
      BY <1>4, <3>1, <3>2 DEF Locks
  <2> QED
    BY <2>2, <2>3
<1> QED
  BY <1>1, <1>3, <1>4 DEF Marked

LEMMA ServeOwn ==
  ASSUME TypeOK, OneMount, DirectoryInvariant, NEW p \in Procs, Serve(p)
  PROVE  Own(p)'
<1>1. req[p] \in Requests /\ pc[p] \in CallsOf(req[p])
  BY TypeParts, ServeControl DEF DirectoryInvariant, OwnCalls, ProcType
<1>2. CASE req[p].op \in {"remove", "link", "rename"}
  BY <1>2, RemoveOwn, CopyOwn
<1>3. CASE req[p].op \notin {"remove", "link", "rename"}
  <2>1. pc[p] \in {"peek", "getall", "fetch", "addall", "get", "put", "open", "set"}
    BY <1>1, <1>3 DEF CallsOf, Requests
  <2> QED
    BY <2>1, ReadOwn, MakeOwn DEF Serve, At, FindNode, IsEmpty, DeleteObject, RemoveDirectoryPeek,
       RemoveDirectoryDeleteAll, Uncache, CopyObject, SetCopied
<1> QED
  BY <1>2, <1>3

(* The cache stays right about every directory: those p holds, because of  *)
(* its own calls, and the others, because p leaves them alone.             *)
LEMMA ServeCoherent ==
  ASSUME TypeOK, OneMount, DirectoryInvariant, NEW p \in Procs, Serve(p)
  PROVE  Coherent'
<1>0. /\ UNCHANGED req /\ \A q \in Procs \ {p} : pc'[q] = pc[q]
      /\ Control /\ Own(p)'
  BY ServeControl, ServeOwn DEF DirectoryInvariant, Control
<1>1. ASSUME NEW d \in Dirs, NEW n \in Names, d \in Locks(req[p])
      PROVE  Settled(<<d, n>>)' \/ Changing(d, n)'
  BY <1>0, <1>1 DEF Own, OwnCoherent, Changing
<1>2. ASSUME NEW d \in Dirs, NEW n \in Names, d \notin Locks(req[p])
      PROVE  Settled(<<d, n>>)' \/ Changing(d, n)'
  <2>1. SameEntry(d) /\ (<<d, n>> \in stored' <=> <<d, n>> \in stored)
    BY <1>0, <1>2, ServeFrame
  <2>2. CASE Settled(<<d, n>>)
    BY <2>1, <2>2 DEF Settled, SameEntry
  <2>3. CASE Changing(d, n)
    <3>1. PICK q \in Procs : /\ pc[q] \notin {"idle", "answer"} /\ req[q].op \notin ReadOps
                             /\ <<d, n>> \in {Target(req[q]), NewTarget(req[q])}
      BY <2>3 DEF Changing
    <3>2. q # p
      BY <1>2, <3>1 DEF Locks, Target, NewTarget
    <3> QED
      BY <1>0, <3>1, <3>2 DEF Changing
  <2> QED
    BY <2>2, <2>3 DEF DirectoryInvariant, Coherent
<1> QED
  BY <1>1, <1>2 DEF Coherent

(* A new request finds the cache right about its names: nobody else is     *)
(* changing them.                                                          *)
LEMMA StartKeeps ==
  ASSUME TypeOK, TypeOK', OneMount, DirectoryInvariant, Apart', NEW p \in Procs, Start(p)
  PROVE  /\ Marked' /\ Coherent'
         /\ \A q \in Procs : HasStored(q)' /\ HasCached(q)' /\ HasListed(q)' /\ HasFound(q)'
<1>0. /\ ProcType /\ SwiftType /\ Marked /\ Coherent /\ UNCHANGED <<content, stored, listing, reply>>
      /\ \A q \in Procs : HasStored(q) /\ HasCached(q) /\ HasListed(q) /\ HasFound(q)
  BY TypeParts DEF DirectoryInvariant, Start, cacheVars, swiftVars
<1>1. PICK r \in Offered : /\ Sensible(r) /\ req' = [req EXCEPT ![p] = r]
                           /\ pc' = [pc EXCEPT ![p] = FirstCall(r)]
  BY DEF Start
<1>2. /\ r \in Requests /\ r.op # "none" /\ WellFormed(r)
      /\ FirstCall(r) \in CallsOf(r) \ {"idle", "answer"}
  BY <1>0, <1>1, OfferedType, SensibleFormed DEF SwiftType
<1>3. /\ req'[p] = r /\ pc'[p] = FirstCall(r) /\ pc[p] = "idle"
      /\ \A q \in Procs \ {p} : req'[q] = req[q] /\ pc'[q] = pc[q]
  BY <1>0, <1>1 DEF ProcType, Start
<1>4. \A d \in Dirs : Exists(d) => HasMarker(d)
  BY <1>0, MarkedListing DEF Exists, HasMarker, Objects, SwiftType
<1>5. Marked'
  BY <1>0, <1>1, <1>2, <1>3, <1>4 DEF Marked, HasMarker, Sensible, Requests
<1>6. Coherent'
  BY <1>0, <1>3 DEF Coherent, Settled, Changing
<1>7. ASSUME NEW q \in Procs \ {p} PROVE HasStored(q)' /\ HasCached(q)' /\ HasListed(q)' /\ HasFound(q)'
  BY <1>0, <1>3 DEF HasStored, HasCached, HasListed, HasFound, Settled, GetFound, PeekFound, Expired, Objects
<1>8. r.op \in {"remove", "link", "rename"} =>
        /\ Target(r) \in stored
        /\ Settled(Target(r)) /\ Settled(NewTarget(r))
  <2> SUFFICES ASSUME r.op \in {"remove", "link", "rename"}
               PROVE  Target(r) \in stored /\ Settled(Target(r)) /\ Settled(NewTarget(r))
    OBVIOUS
  <2>1. r.name \in Listing(r.dir) /\ r.dir \in Dirs
    BY <1>1, <1>2 DEF Sensible, Requests
  <2>2. Target(r) \in stored
    BY <1>0, <2>1, MarkedListing DEF SwiftType, Objects, Target
  <2>3. ASSUME NEW d \in {r.dir, r.todir}, NEW n \in Names PROVE Settled(<<d, n>>)
    <3>1. ~Changing(d, n)
      <4> SUFFICES ASSUME NEW q \in Procs, pc[q] \notin {"idle", "answer"},
                          <<d, n>> \in {Target(req[q]), NewTarget(req[q])}
                   PROVE  FALSE
        BY DEF Changing
      <4>1. q # p /\ d \in Locks(r) \cap Locks(req[q])
        BY <1>3, <2>3 DEF Locks, Target, NewTarget
      <4> QED
        BY <1>2, <1>3, <4>1 DEF OneMount, Apart, Compatible, ReadOps
    <3> QED
      BY <1>0, <1>2, <2>3, <3>1 DEF Coherent, Requests
  <2> QED
    BY <1>2, <2>2, <2>3 DEF Target, NewTarget, Requests
<1>9. HasStored(p)' /\ HasCached(p)' /\ HasListed(p)' /\ HasFound(p)'
  <2>1. FirstCall(r) \in {"getall", "peek", "put", "copy", "find"}
    BY <1>2 DEF FirstCall, OneMount, Requests
  <2>2. FirstCall(r) \in {"copy", "find"} => r.op \in {"remove", "link", "rename"}
    BY <1>2 DEF CallsOf, Requests
  <2>3. r.op = "lookup" => FirstCall(r) = "peek"
    BY DEF FirstCall
  <2> QED
    BY <1>0, <1>3, <1>8, <2>1, <2>2, <2>3 DEF HasStored, HasCached, HasListed, HasFound, Settled
<1> QED
  BY <1>5, <1>6, <1>7, <1>9

LEMMA ReturnKeeps ==
  ASSUME TypeOK, DirectoryInvariant, NEW p \in Procs, Return(p)
  PROVE  /\ Marked' /\ Coherent'
         /\ \A q \in Procs : HasStored(q)' /\ HasCached(q)' /\ HasListed(q)' /\ HasFound(q)'
<1>0. /\ ProcType /\ Marked /\ Coherent /\ UNCHANGED <<content, stored>>
      /\ \A q \in Procs : HasStored(q) /\ HasCached(q) /\ HasListed(q) /\ HasFound(q)
  BY TypeParts DEF DirectoryInvariant, Return, cacheVars, swiftVars
<1>1. /\ pc'[p] = "idle" /\ pc[p] = "answer"
      /\ \A q \in Procs \ {p} : /\ req'[q] = req[q] /\ pc'[q] = pc[q]
                                /\ listing'[q] = listing[q] /\ reply'[q] = reply[q]
  BY <1>0 DEF Return, ProcType
<1>2. Marked'
  BY <1>0, <1>1 DEF Marked, HasMarker
<1>3. Coherent'
  BY <1>0, <1>1 DEF Coherent, Settled, Changing
<1>4. ASSUME NEW q \in Procs PROVE HasStored(q)' /\ HasCached(q)' /\ HasListed(q)' /\ HasFound(q)'
  BY <1>0, <1>1 DEF HasStored, HasCached, HasListed, HasFound, Settled, GetFound, PeekFound, Expired, Objects
<1> QED
  BY <1>2, <1>3, <1>4

(* Time hides entries, and never shows one that had expired.               *)
LEMMA TimeKeeps ==
  ASSUME TypeOK, DirectoryInvariant, TimePasses
  PROVE  /\ Marked' /\ Coherent'
         /\ \A q \in Procs : HasStored(q)' /\ HasCached(q)' /\ HasListed(q)' /\ HasFound(q)'
<1>0. /\ CacheTypeOK /\ ProcType /\ Marked /\ Coherent /\ UNCHANGED <<stored, pc, req, listing, reply>>
      /\ \A q \in Procs : HasStored(q) /\ HasCached(q) /\ HasListed(q) /\ HasFound(q)
  BY TypeParts DEF DirectoryInvariant, TimePasses, swiftVars
<1>1. /\ DOMAIN content' = DOMAIN content
      /\ \A d \in DOMAIN content : content'[d].nodes = content[d].nodes
      /\ \A d \in Dirs : PeekFound(d)' => PeekFound(d)
  BY <1>0, TickEffect DEF TimePasses
<1>2. Marked'
  BY <1>0 DEF Marked, HasMarker
<1>3. \A path : Settled(path)' <=> Settled(path)
  BY <1>0, <1>1 DEF Settled
<1>4. Coherent'
  BY <1>0, <1>3 DEF Coherent, Changing
<1>5. ASSUME NEW q \in Procs PROVE HasStored(q)' /\ HasCached(q)' /\ HasListed(q)' /\ HasFound(q)'
  <2>1. req[q].dir \in Dirs
    BY <1>0 DEF ProcType, Requests
  <2>2. GetFound(req[q].dir, req[q].name)' <=> GetFound(req[q].dir, req[q].name)
    BY <1>0, <1>1 DEF GetFound
  <2>3. HasStored(q)' /\ HasListed(q)'
    BY <1>0 DEF HasStored, HasListed, Objects
  <2>4. HasCached(q)' /\ HasFound(q)'
    BY <1>0, <1>1, <1>3, <2>1, <2>2 DEF HasCached, HasFound
  <2> QED
    BY <2>3, <2>4
<1> QED
  BY <1>2, <1>4, <1>5

LEMMA InvariantInit == OneMount => (Init => DirectoryInvariant)
<1> SUFFICES ASSUME OneMount, Init
             PROVE  DirectoryInvariant
  OBVIOUS
<1>1. Control
  BY ControlInit
<1>2. Marked
  BY DEF Init, OneMount, Marked, HasMarker
<1>3. Coherent
  BY DEF Init, CacheInit, Coherent, Settled
<1>4. ASSUME NEW p \in Procs 
      PROVE  RenamedIsKept(p) /\ HasStored(p) /\ HasCached(p) /\ HasListed(p) /\ HasFound(p)
  BY DEF Init, RenamedIsKept, HasStored, HasCached, HasListed, HasFound
<1> QED
  BY <1>1, <1>2, <1>3, <1>4 DEF Control, DirectoryInvariant

LEMMA InvariantStep ==
  ASSUME TypeOK, OneMount, DirectoryInvariant, [Next]_vars
  PROVE  DirectoryInvariant'
<1>0. Control /\ SwiftType
  BY TypeParts DEF Control, DirectoryInvariant
<1>1. Control'
  BY <1>0, ControlStep
<1>2. \A p \in Procs : RenamedIsKept(p)'
  BY <1>0, RenameStep DEF OneMount, DirectoryInvariant
<1> DEFINE Rest == /\ Marked' /\ Coherent'
                   /\ \A q \in Procs : HasStored(q)' /\ HasCached(q)' /\ HasListed(q)' /\ HasFound(q)'
<1>3. ASSUME NEW p \in Procs, Start(p) PROVE Rest
  BY <1>1, <1>3, StartKeeps DEF Control
<1>4. ASSUME NEW p \in Procs, Serve(p) PROVE Rest
  <2>1. Marked' /\ Coherent' /\ Own(p)'
    BY <1>4, ServeMarked, ServeCoherent, ServeOwn
  <2>2. ASSUME NEW q \in Procs \ {p} PROVE HasStored(q)' /\ HasCached(q)' /\ HasListed(q)' /\ HasFound(q)'
    BY <1>0, <1>4, OthersKeep DEF DirectoryInvariant
  <2> QED
    BY <2>1, <2>2 DEF Own
<1>5. ASSUME NEW p \in Procs, Return(p) PROVE Rest
  BY <1>5, ReturnKeeps
<1>6. ~OtherClient
  BY <1>0 DEF OtherClient, OneMount, SwiftType
<1>7. ASSUME TimePasses PROVE Rest
  BY <1>7, TimeKeeps
<1>8. ASSUME UNCHANGED vars PROVE Rest
  BY <1>8 DEF vars, DirectoryInvariant, Marked, HasMarker, Coherent, Settled, Changing, HasStored, HasCached,
     HasListed, HasFound, GetFound, PeekFound, Expired, Objects
<1>9. Rest
  BY <1>3, <1>4, <1>5, <1>6, <1>7, <1>8 DEF Next
<1> QED
  BY <1>1, <1>2, <1>9 DEF Control, DirectoryInvariant

(* For the only mount of a container, nothing that a request has seen or   *)
(* done is undone before it is answered: what it created is there when it  *)
(* puts it in the cache, what it removed is not when it takes it out, a    *)
(* directory it found empty is still empty when it deletes its marker, and *)
(* the listing it fetched is still right when it fills the cache with it.  *)
THEOREM DirectoryInvariantHolds == OneMount => (Spec => []DirectoryInvariant)
<1> SUFFICES ASSUME OneMount
             PROVE  Spec => []DirectoryInvariant
  OBVIOUS
<1>1. Init => TypeOK /\ DirectoryInvariant
  BY InvariantInit, ControlInit DEF Control
<1>2. TypeOK /\ DirectoryInvariant /\ [Next]_vars => TypeOK' /\ DirectoryInvariant'
  BY InvariantStep, TypeStep DEF DirectoryInvariant
<1> QED
  BY <1>1, <1>2, PTL DEF Spec

(* Then a cached listing, whatever its age, differs from the container     *)
(* only in names that a request is changing at this moment.                *)
THEOREM CacheCoherentHolds == OneMount => (Spec => []CacheCoherent)
<1> SUFFICES ASSUME OneMount
             PROVE  Spec => []CacheCoherent
  OBVIOUS
<1>1. TypeOK /\ DirectoryInvariant => CacheCoherent
  <2> SUFFICES ASSUME TypeOK, DirectoryInvariant, NEW d \in DOMAIN content, NEW n \in Names
               PROVE  (n \in content[d].nodes <=> n \in Listing(d)) \/ Changing(d, n)
    BY DEF CacheCoherent
  <2>1. d \in Dirs /\ stored \subseteq Paths
    BY DEF TypeOK, CacheTypeOK
  <2>2. n \in Listing(d) <=> <<d, n>> \in stored
    BY <2>1, MarkedListing DEF DirectoryInvariant, Objects
  <2> QED
    BY <2>1, <2>2 DEF DirectoryInvariant, Coherent, Settled
<1> QED
  BY <1>1, DirectoryTypeCorrect, DirectoryInvariantHolds, PTL

(* And if the kernel runs lookups and listings of a directory one at a     *)
(* time, too, a lookup answers ENOENT for exactly the names that are not   *)
(* there when it is answered.                                              *)
THEOREM LookupExactHolds == OneMount /\ VFSLock = "exclusive" => (Spec => []LookupExact)
<1> SUFFICES ASSUME OneMount, VFSLock = "exclusive"
             PROVE  Spec => []LookupExact
  OBVIOUS
<1>1. TypeOK /\ DirectoryInvariant => LookupExact
  <2> SUFFICES ASSUME TypeOK, DirectoryInvariant,
                      NEW p \in Procs, pc[p] = "answer", req[p].op = "lookup"
               PROVE  reply[p] = "OK" <=> req[p].name \in Listing(req[p].dir)
    BY DEF LookupExact
  <2>1. req[p].dir \in Dirs /\ req[p].name \in Names /\ stored \subseteq Paths
    BY DEF TypeOK, Requests
  <2>2. req[p].name \in Listing(req[p].dir) <=> Target(req[p]) \in stored
    BY <2>1, MarkedListing DEF DirectoryInvariant, Objects, Target
  <2> QED
    BY <2>2 DEF DirectoryInvariant, HasListed, HasFound
<1> QED
  BY <1>1, DirectoryTypeCorrect, DirectoryInvariantHolds, PTL
=============================================================================
