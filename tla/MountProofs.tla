------------------------------- MODULE MountProofs -------------------------------
(***************************************************************************)
(* What is mounted or listed has its segment container, and a Remove takes *)
(* both, for any number of processes, containers and failing requests, as  *)
(* long as one mount is the only client that makes and removes containers. *)
(* And Statfs counts the data that move while it asks.                     *)
(***************************************************************************)
EXTENDS Mount, DirectoryCacheProofs

USE RootAssumption, MountAssumption

-----------------------------------------------------------------------------
(* The first call of a request is one of the labels.                       *)
LEMMA FirstCallType ==
  ASSUME NEW r \in Requests, r.op # "none"
  PROVE  /\ FirstCall(r) \in {"getall", "peek", "putbase", "deletesegments"}
         /\ r.op \in ReadOps => FirstCall(r) \in {"getall", "peek"}
         /\ r.op = "mkdir" => FirstCall(r) = "putbase"
         /\ r.op = "remove" => FirstCall(r) = "deletesegments"
BY DEF Requests, FirstCall, ReadOps

(* A request that is made is not "none".                                   *)
LEMMA SensibleOp ==
  ASSUME NEW r \in Requests, Sensible(r)
  PROVE  r.op # "none"
BY DEF Requests, Sensible, NoRequest

LEMMA NoRequestType == NoRequest \in Requests /\ NoRequest.op = "none"
<1>1. \E n \in Names : TRUE
  BY RootAssumption
<1> QED
  BY <1>1 DEF NoRequest, Requests

(* Making a container.                                                     *)
LEMMA CreateGrows ==
  ASSUME NEW c \in Containers, ContainerCreates(c) \/ ContainerCreateFails(c)
  PROVE  /\ Exists \subseteq Exists' /\ Exists' \subseteq Exists \cup {c}
         /\ \A x \in Exists : stored'[x] = stored[x]
         /\ c \in Exists' \ Exists => stored'[c] = "ours"
         /\ ContainerCreates(c) => c \in Exists'
BY DEF ContainerCreates, ContainerCreateFails, Exists, Made, Conflict, SwiftFails

-----------------------------------------------------------------------------
(* Types.                                                                  *)
LEMMA TypeInit == Init => TypeOK
BY CacheAssumption, NoRequestType DEF Init, RootInit, TypeOK, RootTypeOK, CacheInit, CacheTypeOK, Exists,
   Labels, NoUsage


(* TypeOK in three parts besides the cache's.                              *)
SwiftType ==
  /\ options \in Options
  /\ Exists \subseteq Containers /\ \A c \in Exists : stored[c] \in Policies
  /\ at \in [Units -> SUBSET Exists]
  /\ faults \in 0 .. MaxFaults /\ changes \in 0 .. MaxChanges
ProcType ==
  /\ pc \in [Procs -> Labels \cup StatfsLabels]
  /\ req \in [Procs -> Requests]
  /\ todo \in [Procs -> SUBSET Containers] /\ kept \in [Procs -> SUBSET Containers]
  /\ reply \in [Procs -> {"none", "OK", "ENOENT", "EIO", "ENOTEMPTY"}]
MountType ==
  /\ broken \subseteq Names
  /\ mounted \in {"base", "segments", "create", "headnew", "yes", "failed", "panic"}
  /\ usage \in [Procs -> [account : Nat, base : Nat, segments : Nat]]
  /\ steady \in [Procs -> SUBSET Units]

LEMMA TypeParts == TypeOK <=> CacheTypeOK /\ SwiftType /\ ProcType /\ MountType
BY DEF TypeOK, RootTypeOK, SwiftType, ProcType, MountType, StatfsLabels

LEMMA TypePartsPrime == TypeOK' <=> CacheTypeOK' /\ SwiftType' /\ ProcType' /\ MountType'
BY DEF TypeOK, RootTypeOK, SwiftType, ProcType, MountType, StatfsLabels

LEMMA ServeProcType ==
  ASSUME TypeOK, NEW p \in Procs, Serve(p)
  PROVE  ProcType'
<1>0. ProcType /\ SwiftType /\ req[p].name \in Names
  BY TypeParts DEF ProcType, Requests
<1>1. ASSUME MkdirPutBase(p) PROVE ProcType'
  BY <1>0, <1>1 DEF MkdirPutBase, ProcType, At, Goto, Answer, Keeps, Asks, ListingFails, ListingEnds, SwiftFails, swiftVars, cacheVars, Labels
<1>2. ASSUME MkdirPutSegments(p) PROVE ProcType'
  BY <1>0, <1>2 DEF MkdirPutSegments, ProcType, At, Goto, Answer, Keeps, Asks, ListingFails, ListingEnds, SwiftFails, swiftVars, cacheVars, Labels
<1>3. ASSUME MkdirSet(p) PROVE ProcType'
  BY <1>0, <1>3 DEF MkdirSet, ProcType, At, Goto, Answer, Keeps, Asks, ListingFails, ListingEnds, SwiftFails, swiftVars, cacheVars, Labels
<1>4. ASSUME RemoveSegments(p) PROVE ProcType'
  BY <1>0, <1>4 DEF RemoveSegments, ProcType, DeleteContainer, At, Goto, Answer, Keeps, Asks, ListingFails, ListingEnds, SwiftFails, swiftVars, cacheVars, Labels
<1>5. ASSUME RemoveBase(p) PROVE ProcType'
  BY <1>0, <1>5 DEF RemoveBase, ProcType, DeleteContainer, At, Goto, Answer, Keeps, Asks, ListingFails, ListingEnds, SwiftFails, swiftVars, cacheVars, Labels
<1>6. ASSUME RemoveUncache(p) PROVE ProcType'
  BY <1>0, <1>6 DEF RemoveUncache, ProcType, DeleteContainer, At, Goto, Answer, Keeps, Asks, ListingFails, ListingEnds, SwiftFails, swiftVars, cacheVars, Labels
<1>7. ASSUME LookupPeek(p) PROVE ProcType'
  BY <1>0, <1>7 DEF LookupPeek, ProcType, At, Goto, Answer, Keeps, Asks, ListingFails, ListingEnds, SwiftFails, swiftVars, cacheVars, Labels
<1>8. ASSUME ReadDirAllCached(p) PROVE ProcType'
  BY <1>0, <1>8 DEF ReadDirAllCached, ProcType, SwiftType, At, Goto, Answer, Keeps, Asks, ListingFails, ListingEnds, SwiftFails, swiftVars, cacheVars, Labels
<1>9. ASSUME ReadDirAllFetch(p) PROVE ProcType'
  BY <1>0, <1>9 DEF ReadDirAllFetch, ProcType, SwiftType, At, Goto, Answer, Keeps, Asks, ListingFails, ListingEnds, SwiftFails, swiftVars, cacheVars, Labels
<1>10. ASSUME ReadDirAllHead(p) PROVE ProcType'
  BY <1>0, <1>10 DEF ReadDirAllHead, ProcType, SwiftType, At, Goto, Answer, Keeps, Asks, ListingFails, ListingEnds, SwiftFails, swiftVars, cacheVars, Labels
<1>11. ASSUME CreateMissing(p) PROVE ProcType'
  BY <1>0, <1>11 DEF CreateMissing, ProcType, SwiftType, Containers, Suffixed, Missing, Bases, At, Goto, Answer, Keeps, Asks, ListingFails, ListingEnds, SwiftFails, swiftVars, cacheVars, Labels
<1>12. ASSUME HeadCreated(p) PROVE ProcType'
  BY <1>0, <1>12 DEF HeadCreated, ProcType, At, Goto, Answer, Keeps, Asks, ListingFails, ListingEnds, SwiftFails, swiftVars, cacheVars, Labels
<1>13. ASSUME ReadDirAllFill(p) PROVE ProcType'
  BY <1>0, <1>13 DEF ReadDirAllFill, ProcType, SwiftType, At, Goto, Answer, Keeps, Asks, ListingFails, ListingEnds, SwiftFails, swiftVars, cacheVars, Labels
<1>14. ASSUME LookupGet(p) PROVE ProcType'
  BY <1>0, <1>14 DEF LookupGet, ProcType, At, Goto, Answer, Keeps, Asks, ListingFails, ListingEnds, SwiftFails, swiftVars, cacheVars, Labels
<1> QED
  BY <1>1, <1>2, <1>3, <1>4, <1>5, <1>6, <1>7, <1>8, <1>9, <1>10, <1>11, <1>12, <1>13, <1>14 DEF Serve

(* What a request to Swift does to the containers.                         *)
LEMMA CreateType ==
  ASSUME SwiftType, NEW c \in Containers, ContainerCreates(c) \/ ContainerCreateFails(c),
         UNCHANGED <<options, at, changes>>
  PROVE  SwiftType'
<1>1. Policies' = Policies /\ "ours" \in Policies
  BY DEF Policies
<1>2. faults' \in 0 .. MaxFaults
  BY DEF SwiftType, ContainerCreates, ContainerCreateFails, SwiftFails
<1>3. \A x \in Exists' : stored'[x] \in Policies
  BY <1>1, CreateGrows DEF SwiftType
<1> QED
  BY <1>1, <1>2, <1>3, CreateGrows DEF SwiftType

LEMMA DeleteShrinks ==
  ASSUME SwiftType, NEW p \in Procs, NEW c \in Containers, NEW next, DeleteContainer(p, c, next),
         UNCHANGED <<options, at, changes>>
  PROVE  /\ SwiftType'
         /\ Exists' \subseteq Exists /\ Exists \subseteq Exists' \cup {c}
         /\ broken \subseteq broken' /\ broken' \subseteq broken \cup Names
         /\ c \in Exists \ Exists' => \A n \in Names : c \in Pair(n) => n \in broken'
         /\ pc'[p] = next /\ pc \in [Procs -> STRING] /\ next # "answer" => c \notin Exists'
BY DEF DeleteContainer, SwiftType, Full, Exists, SwiftFails, Goto, Answer, Policies

LEMMA ServeSwiftType ==
  ASSUME TypeOK, NEW p \in Procs, Serve(p)
  PROVE  SwiftType'
<1>0. /\ SwiftType /\ req[p].name \in Names
      /\ req[p].name \in Containers /\ Segments[req[p].name] \in Containers
      /\ \A n \in Missing(kept[p]) : Segments[n] \in Containers
  BY TypeParts DEF ProcType, Requests, Containers, Suffixed, Missing, Bases
<1>1. ASSUME MkdirPutBase(p) PROVE SwiftType'
  BY <1>0, <1>1, CreateType DEF MkdirPutBase, At
<1>2. ASSUME MkdirPutSegments(p) PROVE SwiftType'
  BY <1>0, <1>2, CreateType DEF MkdirPutSegments, At
<1>3. ASSUME MkdirSet(p) PROVE SwiftType'
  BY <1>0, <1>3 DEF MkdirSet, SwiftType, At, SwiftFails, swiftVars, Exists, Policies
<1>4. ASSUME RemoveSegments(p) PROVE SwiftType'
  BY <1>0, <1>4, DeleteShrinks DEF RemoveSegments, At
<1>5. ASSUME RemoveBase(p) PROVE SwiftType'
  BY <1>0, <1>5, DeleteShrinks DEF RemoveBase, At
<1>6. ASSUME RemoveUncache(p) PROVE SwiftType'
  BY <1>0, <1>6 DEF RemoveUncache, SwiftType, At, SwiftFails, swiftVars, Exists, Policies
<1>7. ASSUME LookupPeek(p) PROVE SwiftType'
  BY <1>0, <1>7 DEF LookupPeek, SwiftType, At, SwiftFails, swiftVars, Exists, Policies
<1>8. ASSUME ReadDirAllCached(p) PROVE SwiftType'
  BY <1>0, <1>8 DEF ReadDirAllCached, SwiftType, At, SwiftFails, swiftVars, Exists, Policies
<1>9. ASSUME ReadDirAllFetch(p) PROVE SwiftType'
  BY <1>0, <1>9 DEF ReadDirAllFetch, SwiftType, At, SwiftFails, swiftVars, Exists, Policies
<1>10. ASSUME ReadDirAllHead(p) PROVE SwiftType'
  <2>1. UNCHANGED <<options, stored, at, changes>>
    BY <1>10 DEF ReadDirAllHead, At
  <2>2. UNCHANGED faults \/ SwiftFails
    BY <1>10, Zenon DEF ReadDirAllHead
  <2>3. faults' \in 0 .. MaxFaults
    BY <1>0, <2>2 DEF SwiftType, SwiftFails
  <2> QED
    BY <1>0, <2>1, <2>3 DEF SwiftType, Exists, Policies
<1>11. ASSUME CreateMissing(p) PROVE SwiftType'
  <2>1. CASE UNCHANGED <<stored, faults>>
    BY <1>0, <1>11, <2>1 DEF CreateMissing, At, SwiftType, Exists, Policies
  <2>2. CASE \E n \in Missing(kept[p]) :
               ContainerCreates(Segments[n]) \/ ContainerCreateFails(Segments[n])
    BY <1>0, <1>11, <2>2, CreateType DEF CreateMissing, At
  <2> QED
    BY <1>11, <2>1, <2>2 DEF CreateMissing
<1>12. ASSUME HeadCreated(p) PROVE SwiftType'
  BY <1>0, <1>12 DEF HeadCreated, SwiftType, At, SwiftFails, swiftVars, Exists, Policies
<1>13. ASSUME ReadDirAllFill(p) PROVE SwiftType'
  BY <1>0, <1>13 DEF ReadDirAllFill, SwiftType, At, SwiftFails, swiftVars, Exists, Policies
<1>14. ASSUME LookupGet(p) PROVE SwiftType'
  BY <1>0, <1>14 DEF LookupGet, SwiftType, At, SwiftFails, swiftVars, Exists, Policies
<1> QED
  BY <1>1, <1>2, <1>3, <1>4, <1>5, <1>6, <1>7, <1>8, <1>9, <1>10, <1>11, <1>12, <1>13, <1>14 DEF Serve

LEMMA ServeCacheType ==
  ASSUME TypeOK, NEW p \in Procs, Serve(p)
  PROVE  CacheTypeOK'
<1>0. /\ CacheTypeOK /\ req[p].name \in Names /\ Bases(kept[p]) \in SUBSET Names
      /\ Top \in Dirs
  BY TypeParts DEF ProcType, Requests, Bases
<1>1. CASE MkdirSet(p) \/ RemoveUncache(p)
  BY <1>0, <1>1, SetDeleteType DEF MkdirSet, RemoveUncache
<1>2. CASE ReadDirAllCached(p)
  BY <1>0, <1>2, GetAllType DEF ReadDirAllCached
<1>3. CASE ReadDirAllFill(p)
  BY <1>0, <1>3, AddAllType DEF ReadDirAllFill
<1>4. CASE UNCHANGED cacheVars
  BY <1>0, <1>4 DEF CacheTypeOK, cacheVars
<1> QED
  BY <1>1, <1>2, <1>3, <1>4 DEF Serve, MkdirPutBase, MkdirPutSegments, RemoveSegments, RemoveBase,
     LookupPeek, ReadDirAllFetch, ReadDirAllHead, CreateMissing, HeadCreated, LookupGet

LEMMA ServeMountType ==
  ASSUME TypeOK, NEW p \in Procs, Serve(p), UNCHANGED <<mounted, usage, steady>>
  PROVE  MountType'
<1>0. MountType /\ SwiftType /\ req[p].name \in Names
  BY TypeParts DEF ProcType, Requests
<1>1. broken' \subseteq broken \cup Names
  BY <1>0 DEF Serve, MkdirPutBase, MkdirPutSegments, MkdirSet, RemoveSegments, RemoveBase, RemoveUncache,
     LookupPeek, ReadDirAllCached, ReadDirAllFetch, ReadDirAllHead, CreateMissing, HeadCreated,
     ReadDirAllFill, LookupGet, DeleteContainer
<1> QED
  BY <1>0, <1>1 DEF MountType

(* The account needs no start.                                             *)
AccountIsMounted == Target = NoTarget => mounted = "yes"

LEMMA AccountIsMountedStep ==
  ASSUME AccountIsMounted, [Next]_vars
  PROVE  AccountIsMounted'
<1>1. UNCHANGED options
  BY DEF Next, vars, rootVars, StartMount, StartBase, StartSegments, StartCreate, StartHeadCreated,
     MountAgain, Starting, DataChanges, DataChange, StartStatfs, ServeStatfs, StatfsAccount,
     StatfsContainers, StatfsContainer, Asking, StatfsEnds, AnswerStatfs, Return, Start, OtherClient,
     TimePasses, Serve, At, MkdirPutBase, MkdirPutSegments, MkdirSet, RemoveSegments, RemoveBase,
     RemoveUncache, LookupPeek, ReadDirAllCached, ReadDirAllFetch, ReadDirAllHead, CreateMissing,
     HeadCreated, ReadDirAllFill, LookupGet
<1>2. StartMount \/ UNCHANGED mounted
  BY DEF Next, vars, DataChanges, StartStatfs, ServeStatfs, StatfsAccount, StatfsContainers,
     StatfsContainer, Asking, StatfsEnds, AnswerStatfs
<1>3. StartMount => Target # NoTarget
  BY DEF AccountIsMounted, StartMount, StartBase, StartSegments, StartCreate, StartHeadCreated,
     MountAgain, Starting
<1> QED
  BY <1>1, <1>2, <1>3 DEF AccountIsMounted, Target

(* The start on one container.                                             *)
LEMMA MountStepType ==
  ASSUME TypeOK, AccountIsMounted, StartMount
  PROVE  TypeOK'
<1>0. CacheTypeOK /\ SwiftType /\ ProcType /\ MountType
  BY TypeParts
<1>1. Segments[Target] \in Containers
  <2>1. Target # NoTarget
    BY DEF AccountIsMounted, StartMount, StartBase, StartSegments, StartCreate, StartHeadCreated,
       MountAgain, Starting
  <2>2. Target \in Names
    BY <1>0, <2>1 DEF SwiftType, Target
  <2> QED
    BY <2>2 DEF Containers, Suffixed
<1>2. UNCHANGED <<cacheVars, options, at, changes, localVars, broken, usage, steady>>
  BY DEF StartMount, StartBase, StartSegments, StartCreate, StartHeadCreated, MountAgain, Starting
<1>3. mounted' \in {"base", "segments", "create", "headnew", "yes", "failed", "panic"}
  BY DEF StartMount, StartBase, StartSegments, StartCreate, StartHeadCreated, MountAgain, Starting
<1>4. SwiftType'
  <2>1. CASE StartCreate
    BY <1>0, <1>1, <1>2, <2>1, CreateType DEF StartCreate
  <2>2. CASE UNCHANGED stored /\ faults' \in 0 .. MaxFaults
    BY <1>0, <1>2, <2>2 DEF SwiftType, Exists, Policies
  <2> QED
    BY <1>0, <2>1, <2>2 DEF StartMount, StartBase, StartSegments, StartHeadCreated, MountAgain,
       Reads, ReadFails, SwiftFails, SwiftType
<1> QED
  BY <1>0, <1>2, <1>3, <1>4, TypePartsPrime DEF CacheTypeOK, ProcType, MountType, cacheVars, localVars

(* Statfs.                                                                 *)
LEMMA ContainersFinite == IsFiniteSet(Containers)
<1> DEFINE suffix == [n \in Names |-> Segments[n]]
<1>1. IsFiniteSet(Names)
  BY CacheAssumption
<1>2. suffix \in Surjection(Names, Suffixed)
  BY DEF Surjection, Suffixed
<1>3. IsFiniteSet(Suffixed)
  BY <1>1, <1>2, FS_Surjection
<1> QED
  BY <1>1, <1>3, FS_Union DEF Containers

LEMMA BytesType ==
  ASSUME TypeOK
  PROVE  Account \in Nat /\ \A c \in Containers : Bytes(c) \in Nat
<1>1. ASSUME NEW c \in Containers PROVE Bytes(c) \in Nat
  BY FS_Subset, FS_CardinalityType DEF Bytes
<1>2. IsFiniteSet(Units \X Containers)
  BY ContainersFinite, FS_Product
<1> QED
  BY <1>1, <1>2, FS_Subset, FS_CardinalityType DEF Account

LEMMA StatfsStepType ==
  ASSUME TypeOK, NEW p \in Procs, StartStatfs(p) \/ ServeStatfs(p)
  PROVE  TypeOK'
<1>0. CacheTypeOK /\ SwiftType /\ ProcType /\ MountType
  BY TypeParts
<1>1. ASSUME StartStatfs(p) PROVE TypeOK'
  BY <1>0, <1>1, TypePartsPrime
     DEF StartStatfs, CacheTypeOK, SwiftType, ProcType, MountType, cacheVars, swiftVars, Exists, Policies,
         StatfsLabels
<1>2. ASSUME StatfsAccount(p) \/ StatfsContainers(p) PROVE TypeOK'
  <2>1. CacheTypeOK' /\ SwiftType'
    BY <1>0, <1>2 DEF StatfsAccount, StatfsContainers, StatfsContainer, Asking, At, Told, StatfsFails,
       SwiftFails, CacheTypeOK, SwiftType, cacheVars, Exists, Policies
  <2>2. ProcType'
    BY <1>0, <1>2 DEF StatfsAccount, StatfsContainers, StatfsContainer, Asking, At, Told, StatfsFails,
       Goto, Answer, ProcType, StatfsLabels, Labels
  <2>3. \A c \in Exists : Bytes(c) \in Nat
    BY <1>0, BytesType DEF SwiftType
  <2>4. usage' \in [Procs -> [account : Nat, base : Nat, segments : Nat]]
    BY <1>0, <1>2, <2>3, BytesType DEF StatfsAccount, StatfsContainers, StatfsContainer, Told, StatfsFails,
       MountType
  <2>5. MountType'
    BY <1>0, <1>2, <2>4 DEF StatfsAccount, StatfsContainers, StatfsContainer, Asking, MountType
  <2> QED
    BY <2>1, <2>2, <2>5, TypePartsPrime
<1>3. ASSUME StatfsEnds(p) \/ AnswerStatfs(p) PROVE TypeOK'
  <2>1. CacheTypeOK' /\ SwiftType'
    BY <1>0, <1>3 DEF StatfsEnds, AnswerStatfs, Return, CacheTypeOK, SwiftType, cacheVars, swiftVars,
       Exists, Policies
  <2>2. ProcType'
    BY <1>0, <1>3, NoRequestType DEF StatfsEnds, AnswerStatfs, Return, ProcType, Labels
  <2>3. MountType'
    BY <1>0, <1>3 DEF StatfsEnds, AnswerStatfs, Return, MountType, NoUsage
  <2> QED
    BY <2>1, <2>2, <2>3, TypePartsPrime
<1> QED
  BY <1>1, <1>2, <1>3 DEF ServeStatfs

(* The rest.                                                               *)
LEMMA TypeStep ==
  ASSUME TypeOK, AccountIsMounted, [Next]_vars
  PROVE  TypeOK'
<1>0. CacheTypeOK /\ SwiftType /\ ProcType /\ MountType
  BY TypeParts
<1>1. ASSUME NEW p \in Procs, Serve(p), UNCHANGED <<mounted, usage, steady>> PROVE TypeOK'
  BY <1>1, ServeProcType, ServeSwiftType, ServeCacheType, ServeMountType, TypePartsPrime
<1>2. ASSUME NEW p \in Procs, Start(p), UNCHANGED <<mounted, usage, steady>> PROVE TypeOK'
  <2>1. ProcType'
    BY <1>0, <1>2, SensibleOp, FirstCallType DEF Start, ProcType, Labels
  <2> QED
    BY <1>0, <1>2, <2>1, TypePartsPrime
       DEF Start, CacheTypeOK, SwiftType, MountType, cacheVars, swiftVars, Exists, Policies
<1>3. ASSUME OtherClient, UNCHANGED <<mounted, usage, steady>> PROVE TypeOK'
  <2>1. SwiftType'
    BY <1>0, <1>3 DEF OtherClient, SwiftType, Full, Exists, Policies
  <2> QED
    BY <1>0, <1>3, <2>1, TypePartsPrime
       DEF OtherClient, CacheTypeOK, ProcType, MountType, cacheVars, localVars
<1>4. ASSUME TimePasses, UNCHANGED <<mounted, usage, steady>> PROVE TypeOK'
  <2>1. CacheTypeOK'
    BY <1>0, <1>4, TickType DEF TimePasses
  <2> QED
    BY <1>0, <1>4, <2>1, TypePartsPrime
       DEF TimePasses, SwiftType, ProcType, MountType, swiftVars, localVars, Exists, Policies
<1>5. ASSUME DataChanges PROVE TypeOK'
  <2>1. SwiftType'
    BY <1>0, <1>5 DEF DataChanges, DataChange, Upload, MoveCopy, DeleteData, Pair, SwiftType, Exists,
       Policies
  <2>2. MountType'
    BY <1>0, <1>5 DEF DataChanges, DataChange, MountType
  <2> QED
    BY <1>0, <1>5, <2>1, <2>2, TypePartsPrime
       DEF DataChanges, DataChange, CacheTypeOK, ProcType, cacheVars, localVars
<1>6. ASSUME UNCHANGED vars PROVE TypeOK'
  BY <1>0, <1>6, TypePartsPrime
     DEF vars, rootVars, CacheTypeOK, SwiftType, ProcType, MountType, Exists, Policies
<1> QED
  BY <1>1, <1>2, <1>3, <1>4, <1>5, <1>6, MountStepType, StatfsStepType DEF Next

(* Every variable keeps its type.                                          *)
THEOREM MountTypeCorrect == Spec => []TypeOK
<1>1. Init => TypeOK /\ AccountIsMounted
  BY TypeInit DEF Init, AccountIsMounted
<1>2. TypeOK /\ AccountIsMounted /\ [Next]_vars => (TypeOK /\ AccountIsMounted)'
  BY TypeStep, AccountIsMountedStep
<1> QED
  BY <1>1, <1>2, PTL DEF Spec

-----------------------------------------------------------------------------
(* The invariant.                                                          *)
PairInv == TypeOK /\ PairInvariant

LEMMA PairInit == Init => PairInvariant
BY DEF Init, RootInit, CacheInit, PairInvariant, OwnCalls, Alone, MountedPair, HalfDone, Known,
   ServedInPairs, Served, RemovedInPairs, RemovedInPair, NoRequest, MkdirLabels, RemoveLabels, ReadLabels, KnowsLabels

-----------------------------------------------------------------------------
(* A call of a request moves its own process only, to a call of the same   *)
(* operation.                                                              *)
LEMMA ServeMoves ==
  ASSUME TypeOK, NEW p \in Procs, Serve(p)
  PROVE  /\ UNCHANGED <<req, options, changes, at>>
         /\ pc[p] \in MkdirLabels \cup RemoveLabels \cup ReadLabels
         /\ pc'[p] \in MkdirLabels => pc[p] \in MkdirLabels
         /\ pc'[p] \in RemoveLabels => pc[p] \in RemoveLabels
         /\ pc'[p] \in ReadLabels => pc[p] \in ReadLabels
         /\ pc'[p] \notin StatfsLabels \cup {"idle"}
         /\ \A q \in Procs \ {p} : pc'[q] = pc[q] /\ kept'[q] = kept[q] /\ reply'[q] = reply[q]
<1>0. ProcType
  BY TypeParts
<1> USE DEF ProcType, At, Goto, Answer, Keeps, Asks, ListingFails, ListingEnds, swiftVars,
            MkdirLabels, RemoveLabels, ReadLabels, KnowsLabels, StatfsLabels
<1>1. CASE MkdirPutBase(p)
  BY <1>0, <1>1 DEF MkdirPutBase
<1>2. CASE MkdirPutSegments(p)
  BY <1>0, <1>2 DEF MkdirPutSegments
<1>3. CASE MkdirSet(p)
  BY <1>0, <1>3 DEF MkdirSet
<1>4. CASE RemoveSegments(p)
  BY <1>0, <1>4 DEF RemoveSegments, DeleteContainer
<1>5. CASE RemoveBase(p)
  BY <1>0, <1>5 DEF RemoveBase, DeleteContainer
<1>6. CASE RemoveUncache(p)
  BY <1>0, <1>6 DEF RemoveUncache
<1>7. CASE LookupPeek(p)
  BY <1>0, <1>7 DEF LookupPeek
<1>8. CASE ReadDirAllCached(p)
  BY <1>0, <1>8 DEF ReadDirAllCached
<1>9. CASE ReadDirAllFetch(p)
  BY <1>0, <1>9 DEF ReadDirAllFetch
<1>10. CASE ReadDirAllHead(p)
  BY <1>0, <1>10 DEF ReadDirAllHead
<1>11. CASE CreateMissing(p)
  BY <1>0, <1>11 DEF CreateMissing
<1>12. CASE HeadCreated(p)
  BY <1>0, <1>12 DEF HeadCreated
<1>13. CASE ReadDirAllFill(p)
  BY <1>0, <1>13 DEF ReadDirAllFill
<1>14. CASE LookupGet(p)
  BY <1>0, <1>14 DEF LookupGet
<1> QED
  BY <1>1, <1>2, <1>3, <1>4, <1>5, <1>6, <1>7, <1>8, <1>9, <1>10, <1>11, <1>12, <1>13, <1>14 DEF Serve

(* Who is served has what he has seen; a request whose operation changes   *)
(* the containers is alone.                                                *)
LEMMA ServeControl ==
  ASSUME PairInv, NEW p \in Procs, Serve(p), UNCHANGED mounted
  PROVE  /\ OwnCalls' /\ Alone' /\ MountedPair'
         /\ Target = NoTarget /\ Target' = NoTarget
         /\ pc[p] \in MkdirLabels \cup RemoveLabels => \A q \in Procs \ {p} : req[q].op = "none"
         /\ \A q \in Procs \ {p} : req[q].op \notin {"mkdir", "remove"}
<1>0. /\ TypeOK /\ OwnCalls /\ Alone /\ MountedPair
      /\ ProcType
  BY TypeParts DEF PairInv, PairInvariant
<1>1. /\ req' = req /\ options' = options
      /\ \A q \in Procs \ {p} : pc'[q] = pc[q]
  BY <1>0, ServeMoves
<1>2. req[p].op # "none" /\ Target = NoTarget
  BY <1>0, ServeMoves DEF OwnCalls, ReadOps
<1>3. OwnCalls'
  BY <1>0, <1>1, <1>2, ServeMoves DEF OwnCalls, Target
<1>4. Alone'
  BY <1>0, <1>1 DEF Alone
<1>5. MountedPair'
  BY <1>0, <1>1, <1>2 DEF MountedPair, Target
<1>6. \A q \in Procs \ {p} : req[q].op \notin {"mkdir", "remove"}
  BY <1>0, <1>2 DEF Alone
<1>7. pc[p] \in MkdirLabels \cup RemoveLabels => \A q \in Procs \ {p} : req[q].op = "none"
  BY <1>0 DEF Alone, OwnCalls
<1> QED
  BY <1>1, <1>2, <1>3, <1>4, <1>5, <1>6, <1>7 DEF Target

(* So nothing that another process relies on is taken back.                *)
LEMMA ServeOthers ==
  ASSUME PairInv, NEW p \in Procs, Serve(p), UNCHANGED mounted, NEW q \in Procs \ {p},
         pc[p] \in RemoveLabels \/ Exists \subseteq Exists'
  PROVE  HalfDone(q)' /\ Known(q)' /\ RemovedInPair(q)'
<1>0. TypeOK /\ OwnCalls /\ HalfDone(q) /\ Known(q)
  BY DEF PairInv, PairInvariant
<1>1. /\ req' = req /\ changes' = changes
      /\ pc'[q] = pc[q] /\ kept'[q] = kept[q]
  BY <1>0, ServeMoves
<1>2. /\ req[q].op \notin {"mkdir", "remove"}
      /\ pc[p] \in RemoveLabels => req[q].op = "none"
  BY ServeControl
<1>3. /\ pc[q] \notin MkdirLabels \cup RemoveLabels
      /\ pc[p] \in RemoveLabels => pc[q] \notin KnowsLabels
  BY <1>0, <1>2 DEF OwnCalls, ReadLabels, ReadOps
<1>4. HalfDone(q)'
  BY <1>1, <1>3 DEF HalfDone, MkdirLabels, RemoveLabels
<1>5. Known(q)'
  BY <1>0, <1>1, <1>3 DEF Known, KnowsLabels, Missing, Bases
<1>6. RemovedInPair(q)'
  BY <1>1, <1>2 DEF RemovedInPair
<1> QED
  BY <1>4, <1>5, <1>6

-----------------------------------------------------------------------------
(* What the cache holds of the account.                                    *)
LEMMA ServedOfAccount ==
  ASSUME TypeOK, Target = NoTarget
  PROVE  \A n : n \in Served <=> \E d \in DOMAIN content : n \in content[d].nodes
BY DEF Served

LEMMA ServedShrinks ==
  ASSUME TypeOK, Target = NoTarget, UNCHANGED options,
         GetAll(Top) \/ Tick \/ UNCHANGED cacheVars \/ (\E n \in Names : Delete(Top, n))
  PROVE  Served' \subseteq Served
<1>0. CacheTypeOK
  BY TypeParts
<1>1. Target' = NoTarget
  BY DEF Target
<1> SUFFICES ASSUME NEW d \in DOMAIN content'
             PROVE  d \in DOMAIN content /\ content'[d].nodes \subseteq content[d].nodes
  BY <1>1 DEF Served
<1>2. CASE GetAll(Top)
  <2>1. CASE Top \notin DOMAIN content
    BY <1>2, <2>1 DEF GetAll, cacheVars
  <2>2. CASE Top \in DOMAIN content
    <3> DEFINE e == Accessed(content[Top])
    <3>1. e.nodes = content[Top].nodes
      BY <1>0, <2>2, AccessedType DEF CacheTypeOK
    <3>2. content' = Without(Top) \/ content' = Put(Top, e)
      BY <1>2, <2>2 DEF GetAll, Evict
    <3> QED
      BY <2>2, <3>1, <3>2 DEF Without, Put
  <2> QED
    BY <2>1, <2>2
<1>3. CASE Tick
  BY <1>0, <1>3 DEF Tick, CacheTypeOK, Entry
<1>4. CASE UNCHANGED cacheVars
  BY <1>4 DEF cacheVars
<1>5. CASE \E n \in Names : Delete(Top, n)
  BY <1>0, <1>5 DEF Delete, CacheTypeOK, Entry
<1> QED
  BY <1>2, <1>3, <1>4, <1>5

(* Pairs stay pairs while nothing is served that was not, and containers   *)
(* only come.                                                              *)
LEMMA PairsStay ==
  ASSUME ServedInPairs, UNCHANGED changes, Served' \subseteq Served, Exists \subseteq Exists',
         broken \subseteq broken'
  PROVE  ServedInPairs'
BY DEF ServedInPairs, Pair

-----------------------------------------------------------------------------
(* Mkdir: both containers are there when the directory is cached.          *)
LEMMA MkdirInv ==
  ASSUME PairInv, NEW p \in Procs, UNCHANGED mounted,
         MkdirPutBase(p) \/ MkdirPutSegments(p) \/ MkdirSet(p)
  PROVE  PairInvariant'
<1>0. /\ TypeOK /\ ProcType /\ SwiftType /\ Serve(p)
      /\ OwnCalls /\ HalfDone(p) /\ ServedInPairs
  BY TypeParts DEF PairInv, PairInvariant, Serve
<1>1. /\ req[p].name \in Names /\ req[p].name \in Containers /\ Segments[req[p].name] \in Containers
      /\ req[p].op = "mkdir"
  BY <1>0 DEF ProcType, Requests, Containers, Suffixed, OwnCalls, MkdirLabels, MkdirPutBase,
     MkdirPutSegments, MkdirSet, At
<1>2. /\ Exists \subseteq Exists' /\ UNCHANGED <<req, options, changes>>
      /\ Target = NoTarget /\ Target' = NoTarget
  BY <1>0, <1>1, ServeMoves, ServeControl, CreateGrows DEF MkdirPutBase, MkdirPutSegments, MkdirSet,
     swiftVars, Exists
<1>3. HalfDone(p)' /\ Known(p)' /\ RemovedInPair(p)'
  <2>1. CASE MkdirPutBase(p)
    BY <1>0, <1>1, <1>2, <2>1, CreateGrows DEF MkdirPutBase, At, Goto, Answer, HalfDone, Known,
       RemovedInPair, KnowsLabels, ProcType
  <2>2. CASE MkdirPutSegments(p)
    BY <1>0, <1>1, <1>2, <2>2, CreateGrows DEF MkdirPutSegments, At, Goto, Answer, HalfDone, Known,
       RemovedInPair, KnowsLabels, ProcType
  <2>3. CASE MkdirSet(p)
    BY <1>0, <1>1, <1>2, <2>3 DEF MkdirSet, At, Answer, HalfDone, Known, RemovedInPair, KnowsLabels,
       ProcType
  <2> QED
    BY <2>1, <2>2, <2>3
<1>4. ServedInPairs'
  <2>1. CASE UNCHANGED <<cacheVars, broken>>
    BY <1>0, <1>2, <2>1, ServedShrinks, PairsStay
  <2>2. CASE MkdirSet(p)
    <3>1. changes = 0 => Pair(req[p].name) \subseteq Exists
      BY <1>0, <2>2 DEF MkdirSet, At, HalfDone, Pair
    <3>2. Served' \subseteq Served \cup {req[p].name}
      BY <1>0, <1>1, <1>2, <2>2, TypeParts DEF MkdirSet, Set, Served, CacheTypeOK, Entry
    <3> QED
      BY <1>0, <1>2, <2>2, <3>1, <3>2 DEF MkdirSet, ServedInPairs, Pair
  <2> QED
    BY <2>1, <2>2 DEF MkdirPutBase, MkdirPutSegments, MkdirSet
<1> QED
  BY <1>0, <1>2, <1>3, <1>4, ServeControl, ServeOthers DEF PairInvariant, RemovedInPairs

(* Remove: both are gone when it answers OK, and whoever lost one of them  *)
(* is known.                                                               *)
LEMMA RemoveInv ==
  ASSUME PairInv, NEW p \in Procs, UNCHANGED mounted,
         RemoveSegments(p) \/ RemoveBase(p) \/ RemoveUncache(p)
  PROVE  PairInvariant'
<1>0. /\ TypeOK /\ ProcType /\ SwiftType /\ Serve(p)
      /\ OwnCalls /\ HalfDone(p) /\ ServedInPairs
  BY TypeParts DEF PairInv, PairInvariant, Serve
<1>1. /\ req[p].name \in Names /\ req[p].name \in Containers /\ Segments[req[p].name] \in Containers
      /\ req[p].op = "remove" /\ pc[p] \in RemoveLabels
  BY <1>0 DEF ProcType, Requests, Containers, Suffixed, OwnCalls, RemoveLabels, RemoveSegments,
     RemoveBase, RemoveUncache, At
<1>2. /\ UNCHANGED <<req, options, changes, at>>
      /\ Target = NoTarget /\ Target' = NoTarget
  BY <1>0, ServeMoves, ServeControl
<1>3. faults' >= faults /\ faults \in Nat
  BY <1>0, <1>2 DEF RemoveSegments, RemoveBase, RemoveUncache, DeleteContainer, SwiftFails, swiftVars,
     SwiftType
<1>4. CASE RemoveSegments(p)
  <2>1. DeleteContainer(p, Segments[req[p].name], "deletebase")
    BY <1>4 DEF RemoveSegments
  <2>2. /\ Exists' \subseteq Exists
        /\ pc'[p] # "answer" => pc'[p] = "deletebase" /\ Segments[req[p].name] \notin Exists'
    BY <1>0, <1>1, <1>2, <2>1 DEF DeleteContainer, Goto, Answer, Exists, ProcType
  <2>3. pc'[p] = "answer" => reply'[p] = "ENOTEMPTY" \/ (reply'[p] = "EIO" /\ faults' > 0)
    BY <1>0, <2>1 DEF DeleteContainer, Goto, Answer, SwiftFails, ProcType, SwiftType
  <2>4. HalfDone(p)' /\ Known(p)' /\ RemovedInPair(p)'
    BY <1>2, <2>2, <2>3 DEF HalfDone, Known, RemovedInPair, KnowsLabels
  <2>5. ServedInPairs'
    <3>1. Served' \subseteq Served
      BY <1>0, <1>2, <1>4, ServedShrinks DEF RemoveSegments
    <3>2. \A n \in Names : Pair(n) \subseteq Exists => Pair(n) \subseteq Exists' \/ n \in broken'
      BY <2>1, <1>0 DEF DeleteContainer, Exists, Pair
    <3>3. broken \subseteq broken' /\ Served \subseteq Names
      BY <1>0, <1>2, <2>1, TypeParts DEF DeleteContainer, Served, CacheTypeOK, Entry
    <3> QED
      BY <1>0, <1>2, <3>1, <3>2, <3>3 DEF ServedInPairs
  <2> QED
    BY <1>0, <1>1, <2>4, <2>5, ServeControl, ServeOthers DEF PairInvariant, RemovedInPairs
<1>5. CASE RemoveBase(p)
  <2>1. DeleteContainer(p, req[p].name, "uncache") /\ pc[p] = "deletebase"
    BY <1>5 DEF RemoveBase, At
  <2>2. /\ Exists' \subseteq Exists
        /\ pc'[p] # "answer" => pc'[p] = "uncache" /\ req[p].name \notin Exists'
    BY <1>0, <1>1, <1>2, <2>1 DEF DeleteContainer, Goto, Answer, Exists, ProcType
  <2>3. pc'[p] = "answer" => reply'[p] = "ENOTEMPTY" \/ (reply'[p] = "EIO" /\ faults' > 0)
    BY <1>0, <2>1 DEF DeleteContainer, Goto, Answer, SwiftFails, ProcType, SwiftType
  <2>4. HalfDone(p)' /\ Known(p)' /\ RemovedInPair(p)'
    BY <1>0, <1>2, <2>1, <2>2, <2>3 DEF HalfDone, Known, RemovedInPair, KnowsLabels
  <2>5. ServedInPairs'
    <3>1. Served' \subseteq Served
      BY <1>0, <1>2, <1>5, ServedShrinks DEF RemoveBase
    <3>2. \A n \in Names : Pair(n) \subseteq Exists => Pair(n) \subseteq Exists' \/ n \in broken'
      BY <2>1, <1>0 DEF DeleteContainer, Exists, Pair
    <3>3. broken \subseteq broken' /\ Served \subseteq Names
      BY <1>0, <1>2, <2>1, TypeParts DEF DeleteContainer, Served, CacheTypeOK, Entry
    <3> QED
      BY <1>0, <1>2, <3>1, <3>2, <3>3 DEF ServedInPairs
  <2> QED
    BY <1>0, <1>1, <2>4, <2>5, ServeControl, ServeOthers DEF PairInvariant, RemovedInPairs
<1>6. CASE RemoveUncache(p)
  <2>1. /\ pc[p] = "uncache" /\ pc'[p] = "answer"
        /\ UNCHANGED <<stored, broken>> /\ Delete(Top, req[p].name) /\ reply'[p] = "OK"
    BY <1>0, <1>6 DEF RemoveUncache, At, Answer, swiftVars, ProcType
  <2>2. HalfDone(p)' /\ Known(p)' /\ RemovedInPair(p)'
    BY <1>0, <1>2, <2>1 DEF HalfDone, Known, RemovedInPair, KnowsLabels, Pair, Exists
  <2>3. ServedInPairs'
    BY <1>0, <1>1, <1>2, <2>1, ServedShrinks, PairsStay DEF Exists
  <2> QED
    BY <1>0, <1>1, <2>2, <2>3, ServeControl, ServeOthers DEF PairInvariant, RemovedInPairs
<1> QED
  BY <1>4, <1>5, <1>6

(* Listings and lookups: what is cached is known to be in pairs.           *)
LEMMA ReadInv ==
  ASSUME PairInv, NEW p \in Procs, UNCHANGED mounted,
         \/ LookupPeek(p) \/ ReadDirAllCached(p) \/ ReadDirAllFetch(p) \/ ReadDirAllHead(p)
         \/ CreateMissing(p) \/ HeadCreated(p) \/ ReadDirAllFill(p) \/ LookupGet(p)
  PROVE  PairInvariant'
<1>0. /\ TypeOK /\ ProcType /\ SwiftType /\ Serve(p)
      /\ OwnCalls /\ Known(p) /\ ServedInPairs
  BY TypeParts DEF PairInv, PairInvariant, Serve
<1>1. /\ req[p].op \in ReadOps /\ pc[p] \notin MkdirLabels \cup RemoveLabels
  BY <1>0 DEF OwnCalls, ReadLabels, KnowsLabels, MkdirLabels, RemoveLabels, LookupPeek,
     ReadDirAllCached, ReadDirAllFetch, ReadDirAllHead, CreateMissing, HeadCreated, ReadDirAllFill,
     LookupGet, At
<1>2. /\ UNCHANGED <<req, options, changes>>
      /\ Target = NoTarget /\ Target' = NoTarget
  BY <1>0, ServeMoves, ServeControl
<1>3. Exists \subseteq Exists'
  <2>1. CASE UNCHANGED stored
    BY <2>1 DEF Exists
  <2>2. CASE CreateMissing(p)
    <3>1. \A n \in Missing(kept[p]) : Segments[n] \in Containers
      BY DEF Missing, Bases, Containers, Suffixed
    <3> QED
      BY <2>1, <2>2, <3>1, CreateGrows DEF CreateMissing
  <2> QED
    BY <2>1, <2>2 DEF LookupPeek, ReadDirAllCached, ReadDirAllFetch, ReadDirAllHead, HeadCreated,
       ReadDirAllFill, LookupGet, swiftVars
<1>4. HalfDone(p)' /\ RemovedInPair(p)'
  BY <1>0, <1>1, <1>2, ServeMoves DEF HalfDone, RemovedInPair, ReadOps, MkdirLabels, RemoveLabels
<1>5. Known(p)'
  <2> USE DEF At, Goto, Answer, Keeps, ListingFails, ListingEnds, Known, KnowsLabels, ProcType
  <2>1. CASE ReadDirAllFetch(p)
    BY <1>0, <2>1 DEF ReadDirAllFetch, Exists
  <2>2. CASE ReadDirAllHead(p)
    <3>1. pc[p] = "head"
      BY <2>2, Zenon DEF ReadDirAllHead
    <3>2. kept'[p] \subseteq kept[p] \cup Exists
      <4>1. CASE UNCHANGED kept
        BY <4>1
      <4>2. CASE \E c \in todo[p] \cap Exists :
                   Keeps(p, kept[p] \cup (IF stored[c] = "ours" THEN {c} ELSE {}))
        BY <1>0, <4>2
      <4> QED
        BY <2>2, <4>1, <4>2, Zenon DEF ReadDirAllHead
    <3>3. pc'[p] # "addall"
      <4>1. Goto(p, "create") \/ Goto(p, "head") \/ ListingFails(p)
        BY <2>2, Zenon DEF ReadDirAllHead
      <4> QED
        BY <1>0, <4>1
    <3> QED
      BY <1>0, <1>2, <1>3, <3>1, <3>2, <3>3
  <2>3. CASE CreateMissing(p)
    BY <1>0, <1>2, <1>3, <2>3 DEF CreateMissing, Missing, Bases
  <2>4. CASE HeadCreated(p)
    BY <1>0, <1>2, <1>3, <2>4 DEF HeadCreated
  <2>5. CASE LookupPeek(p) \/ ReadDirAllCached(p) \/ ReadDirAllFill(p) \/ LookupGet(p)
    BY <1>0, <2>5 DEF LookupPeek, ReadDirAllCached, ReadDirAllFill, LookupGet
  <2> QED
    BY <2>1, <2>2, <2>3, <2>4, <2>5
<1>6. ServedInPairs'
  <2>1. CASE ReadDirAllFill(p)
    <3>1. /\ changes = 0 => kept[p] \subseteq Exists
          /\ Missing(kept[p]) = {}
      BY <1>0, <2>1 DEF ReadDirAllFill, At, Known, KnowsLabels
    <3>2. changes = 0 => \A n \in Bases(kept[p]) : Pair(n) \subseteq Exists
      BY <3>1 DEF Missing, Bases, Pair
    <3>3. Served' \subseteq Bases(kept[p])
      BY <1>0, <1>2, <2>1, TypeParts DEF ReadDirAllFill, AddAll, Put, Served, CacheTypeOK
    <3> QED
      BY <1>2, <1>3, <3>2, <3>3 DEF ServedInPairs
  <2>2. CASE ~ReadDirAllFill(p)
    <3>1. UNCHANGED broken /\ (GetAll(Top) \/ UNCHANGED cacheVars)
      BY <2>2 DEF LookupPeek, ReadDirAllCached, ReadDirAllFetch, ReadDirAllHead, CreateMissing,
         HeadCreated, LookupGet
    <3> QED
      BY <1>0, <1>2, <1>3, <3>1, ServedShrinks, PairsStay
  <2> QED
    BY <2>1, <2>2
<1> QED
  BY <1>0, <1>3, <1>4, <1>5, <1>6, ServeControl, ServeOthers DEF PairInvariant, RemovedInPairs

-----------------------------------------------------------------------------
(* The start on one container, where no request of the account is served.  *)
LEMMA StartInv ==
  ASSUME PairInv, StartMount
  PROVE  PairInvariant'
<1>0. /\ TypeOK /\ ProcType /\ SwiftType /\ MountType
      /\ OwnCalls /\ Alone /\ MountedPair /\ ServedInPairs /\ RemovedInPairs
      /\ \A p \in Procs : HalfDone(p) /\ Known(p)
  BY TypeParts DEF PairInv, PairInvariant
<1>1. UNCHANGED <<cacheVars, options, at, changes, pc, req, todo, kept, reply, broken, usage, steady>>
  BY DEF StartMount, StartBase, StartSegments, StartCreate, StartHeadCreated, MountAgain, Starting,
     localVars
<1>2. Target # NoTarget /\ Target' = Target
  BY <1>0, <1>1 DEF StartMount, StartBase, StartSegments, StartCreate, StartHeadCreated, MountAgain,
     Starting, MountedPair, Target
<1>3. Target \in Names /\ Segments[Target] \in Containers
  BY <1>0, <1>2 DEF SwiftType, Target, Containers, Suffixed
<1>4. Exists \subseteq Exists'
  BY <1>3, CreateGrows DEF StartMount, StartBase, StartSegments, StartCreate, StartHeadCreated,
     MountAgain, Reads, ReadFails, Exists
<1>5. OwnCalls' /\ Alone'
  BY <1>0, <1>1, <1>2 DEF OwnCalls, Alone
<1>6. \A p \in Procs : HalfDone(p)' /\ Known(p)' /\ RemovedInPair(p)'
  <2> TAKE p \in Procs
  <2>1. req[p].op = "none" /\ req[p].op \notin ReadOps
    BY <1>0, <1>2 DEF OwnCalls, ReadOps
  <2>2. pc[p] \notin MkdirLabels \cup RemoveLabels \cup KnowsLabels
    BY <1>0, <2>1 DEF OwnCalls, ReadLabels
  <2> QED
    BY <1>1, <2>1, <2>2 DEF HalfDone, Known, RemovedInPair, MkdirLabels, RemoveLabels, KnowsLabels
<1>7. MountedPair'
  <2>1. CASE StartCreate
    BY <1>0, <1>1, <1>2, <1>3, <1>4, <2>1, CreateGrows DEF StartCreate, Starting, MountedPair
  <2>2. CASE UNCHANGED stored
    BY <1>0, <1>1, <1>2, <2>2 DEF StartMount, StartBase, StartSegments, StartCreate, StartHeadCreated,
       MountAgain, Starting, MountedPair, Exists
  <2> QED
    BY <2>1, <2>2 DEF StartMount, StartBase, StartSegments, StartHeadCreated, MountAgain, Reads, ReadFails
<1>8. ServedInPairs'
  BY <1>1, <1>2, <1>7 DEF ServedInPairs, Served, MountedPair, Pair
<1> QED
  BY <1>5, <1>6, <1>7, <1>8 DEF PairInvariant, RemovedInPairs

-----------------------------------------------------------------------------
(* A step that starts or ends a request, or asks for Statfs's numbers,     *)
(* leaves the containers and the other processes alone.                    *)
LEMMA QuietStep ==
  ASSUME PairInv, NEW p \in Procs, UNCHANGED <<cacheVars, options, stored, changes, broken, mounted>>,
         faults' \in Nat, faults' >= faults,
         \A q \in Procs \ {p} : UNCHANGED <<pc[q], req[q], kept[q], reply[q]>>,
         pc'[p] \notin {"putsegments", "set", "deletebase", "uncache"} \cup KnowsLabels,
         pc'[p] = "answer" => req'[p].op = "none",
         OwnCalls', Alone'
  PROVE  PairInvariant'
<1>0. /\ TypeOK /\ SwiftType
      /\ OwnCalls /\ Alone /\ MountedPair /\ ServedInPairs /\ RemovedInPairs
      /\ \A q \in Procs : HalfDone(q) /\ Known(q)
  BY TypeParts DEF PairInv, PairInvariant
<1>1. Exists' = Exists /\ Target' = Target /\ Served' = Served
  BY DEF Exists, Target, Served, cacheVars
<1>2. MountedPair' /\ ServedInPairs'
  BY <1>0, <1>1 DEF MountedPair, ServedInPairs
<1>3. HalfDone(p)' /\ Known(p)' /\ RemovedInPair(p)'
  BY DEF HalfDone, Known, RemovedInPair, KnowsLabels
<1>4. ASSUME NEW q \in Procs \ {p} PROVE HalfDone(q)' /\ Known(q)' /\ RemovedInPair(q)'
  <2>1. faults \in Nat /\ (faults > 0 => faults' > 0)
    BY <1>0 DEF SwiftType
  <2>2. HalfDone(q)' /\ Known(q)'
    BY <1>0, <1>1 DEF HalfDone, Known, Missing, Bases
  <2>3. RemovedInPair(q)'
    BY <1>0, <1>1, <2>1 DEF RemovedInPairs, RemovedInPair
  <2> QED
    BY <2>2, <2>3
<1> QED
  BY <1>2, <1>3, <1>4 DEF PairInvariant, RemovedInPairs

LEMMA BeginInv ==
  ASSUME PairInv, NEW p \in Procs, Start(p), UNCHANGED mounted
  PROVE  PairInvariant'
<1>0. ProcType /\ OwnCalls /\ Alone /\ UNCHANGED options /\ Target = NoTarget /\ SwiftType
  BY TypeParts DEF PairInv, PairInvariant, Start, Target
<1>1. PICK r \in Requests :
        /\ Sensible(r)
        /\ \A q \in Procs \ {p} : req[q].op = "none" \/ (r.op \in ReadOps /\ req[q].op \in ReadOps)
        /\ req' = [req EXCEPT ![p] = r] /\ pc' = [pc EXCEPT ![p] = FirstCall(r)]
  BY DEF Start
<1>2. r.op # "none" /\ r.op \in {"readdir", "lookup", "mkdir", "remove"}
  BY <1>1, SensibleOp DEF Requests
<1>3. /\ req'[p] = r /\ pc'[p] = FirstCall(r)
      /\ \A q \in Procs \ {p} : req'[q] = req[q] /\ pc'[q] = pc[q]
  BY <1>0, <1>1 DEF ProcType
<1>4. FirstCall(r) = IF r.op = "mkdir" THEN "putbase" ELSE IF r.op = "remove" THEN "deletesegments"
                     ELSE IF r.op = "readdir" THEN "getall" ELSE "peek"
  BY <1>2 DEF FirstCall
<1>5. OwnCalls'
  BY <1>0, <1>2, <1>3, <1>4 DEF OwnCalls, Target, MkdirLabels, RemoveLabels, ReadLabels, KnowsLabels,
     StatfsLabels, ReadOps
<1>6. Alone'
  BY <1>0, <1>1, <1>2, <1>3 DEF Alone, ReadOps
<1>7. pc'[p] \notin {"putsegments", "set", "deletebase", "uncache", "answer"} \cup KnowsLabels
  BY <1>3, <1>4 DEF KnowsLabels
<1>8. /\ UNCHANGED <<cacheVars, stored, changes, broken, kept, reply>>
      /\ faults' \in Nat /\ faults' >= faults
  BY <1>0 DEF Start, swiftVars, SwiftType
<1> QED
  BY <1>0, <1>3, <1>5, <1>6, <1>7, <1>8, QuietStep

LEMMA StatfsInv ==
  ASSUME PairInv, NEW p \in Procs, StartStatfs(p) \/ ServeStatfs(p)
  PROVE  PairInvariant'
<1>0. ProcType /\ SwiftType /\ OwnCalls /\ Alone
  BY TypeParts DEF PairInv, PairInvariant
<1>1. /\ UNCHANGED <<cacheVars, options, stored, changes, broken, mounted>>
      /\ faults' \in Nat /\ faults' >= faults
  BY <1>0 DEF StartStatfs, ServeStatfs, StatfsAccount, StatfsContainers, StatfsContainer, Asking, At,
     Told, StatfsFails, SwiftFails, StatfsEnds, AnswerStatfs, Return, swiftVars, SwiftType
<1>2. \A q \in Procs \ {p} : UNCHANGED <<pc[q], req[q], kept[q], reply[q]>>
  BY <1>0 DEF StartStatfs, ServeStatfs, StatfsAccount, StatfsContainers, StatfsContainer, Asking, At,
     Told, StatfsFails, StatfsEnds, AnswerStatfs, Return, Goto, Answer, ProcType
<1>3. pc'[p] \in StatfsLabels \cup {"idle", "answer"}
  BY <1>0 DEF StartStatfs, ServeStatfs, StatfsAccount, StatfsContainers, StatfsContainer, Told,
     StatfsFails, StatfsEnds, AnswerStatfs, Return, Goto, Answer, ProcType, StatfsLabels
<1>4. req'[p].op = "none"
  <2>1. CASE pc[p] \in StatfsLabels \cup {"idle"} /\ UNCHANGED req
    BY <1>0, <2>1 DEF OwnCalls
  <2>2. CASE Return(p)
    BY <1>0, <2>2, NoRequestType DEF Return, ProcType
  <2> QED
    BY <2>1, <2>2 DEF StartStatfs, ServeStatfs, StatfsAccount, StatfsContainers, StatfsContainer, Asking,
       At, StatfsEnds, AnswerStatfs, StatfsLabels
<1>5. OwnCalls'
  BY <1>0, <1>1, <1>2, <1>3, <1>4 DEF OwnCalls, Target, MkdirLabels, RemoveLabels, ReadLabels,
     KnowsLabels, StatfsLabels
<1>6. Alone'
  BY <1>0, <1>2, <1>4 DEF Alone
<1>7. pc'[p] \notin {"putsegments", "set", "deletebase", "uncache"} \cup KnowsLabels
  BY <1>3 DEF StatfsLabels, KnowsLabels
<1> QED
  BY <1>1, <1>2, <1>4, <1>5, <1>6, <1>7, QuietStep

-----------------------------------------------------------------------------
LEMMA PairStep ==
  ASSUME PairInv, [Next]_vars
  PROVE  PairInv'
<1>0. /\ TypeOK /\ CacheTypeOK
      /\ OwnCalls /\ Alone /\ MountedPair /\ ServedInPairs /\ RemovedInPairs
      /\ \A p \in Procs : HalfDone(p) /\ Known(p)
  BY TypeParts DEF PairInv, PairInvariant
<1>1. TypeOK'
  BY <1>0, TypeStep DEF MountedPair, AccountIsMounted
<1>2. ASSUME NEW p \in Procs, Serve(p), UNCHANGED mounted PROVE PairInvariant'
  BY <1>2, MkdirInv, RemoveInv, ReadInv DEF Serve
<1>3. ASSUME OtherClient, UNCHANGED mounted PROVE PairInvariant'
  <2>1. changes' # 0 /\ UNCHANGED <<options, pc, req, kept, reply>>
    BY <1>0, <1>3, TypeParts DEF OtherClient, SwiftType, localVars
  <2> QED
    BY <1>0, <1>3, <2>1 DEF PairInvariant, OwnCalls, Alone, MountedPair, HalfDone, Known, Missing,
       Bases, ServedInPairs, RemovedInPairs, RemovedInPair, Target
<1>4. ASSUME Served' \subseteq Served, UNCHANGED <<options, stored, faults, changes, localVars, broken, mounted>>
      PROVE  PairInvariant'
  <2>1. ServedInPairs'
    BY <1>0, <1>4, PairsStay DEF Exists
  <2> QED
    BY <1>0, <1>4, <2>1 DEF PairInvariant, OwnCalls, Alone, MountedPair, HalfDone, Known, Missing,
       Bases, RemovedInPairs, RemovedInPair, Target, Exists, localVars
<1>5. ASSUME TimePasses, UNCHANGED mounted PROVE PairInvariant'
  <2>1. Served' \subseteq Served
    <3>1. CASE Target = NoTarget
      BY <1>0, <1>5, <3>1, ServedShrinks DEF TimePasses
    <3>2. CASE Target # NoTarget
      BY <1>5, <3>2 DEF TimePasses, Served, Target
    <3> QED
      BY <3>1, <3>2
  <2> QED
    BY <1>4, <1>5, <2>1 DEF TimePasses, swiftVars
<1>6. ASSUME DataChanges PROVE PairInvariant'
  BY <1>4, <1>6 DEF DataChanges, DataChange, Served, Target, cacheVars
<1>7. ASSUME UNCHANGED vars PROVE PairInvariant'
  BY <1>4, <1>7 DEF vars, rootVars, localVars, Served, Target
<1> QED
  BY <1>1, <1>2, <1>3, <1>5, <1>6, <1>7, BeginInv, StatfsInv, StartInv DEF Next, PairInv

LEMMA PairInvariantStep == Spec => []PairInv
<1>1. Init => PairInv
  BY TypeInit, PairInit DEF PairInv
<1>2. PairInv /\ [Next]_vars => PairInv'
  BY PairStep
<1> QED
  BY <1>1, <1>2, PTL DEF Spec

-----------------------------------------------------------------------------
(* Arithmetic: the remainder of what is in range or out of it by at most   *)
(* one modulus, and quotients that are rounded down.                       *)
LEMMA Remainder ==
  ASSUME NEW i \in Int, NEW t \in Nat \ {0}
  PROVE  /\ 0 <= i /\ i < t => i % t = i
         /\ -t <= i /\ i < 0 => i % t = i + t
         /\ t <= i /\ i < 2 * t => i % t = i - t
         /\ i % t \in 0 .. t - 1
<1> DEFINE d == i \div t
<1>1. d \in Int /\ i = t * d + (i % t) /\ i % t \in 0 .. t - 1
  OBVIOUS
<1> HIDE DEF d
<1>2. (d >= 1 => t * d >= t) /\ (d >= 2 => t * d >= 2 * t)
  BY <1>1
<1>3. d <= -1 => t * d <= -t
  BY <1>1
<1>4. d <= -2 => t * d <= -2 * t
  BY <1>1
<1>5. (d = 0 => t * d = 0) /\ (d = -1 => t * d = -t) /\ (d = 1 => t * d = t)
  BY <1>1
<1> QED
  BY <1>1, <1>2, <1>3, <1>4, <1>5

LEMMA Quotients ==
  ASSUME NEW i \in Nat, NEW j \in Nat, NEW b \in Nat \ {0}
  PROVE  /\ i \div b \in 0 .. i
         /\ i <= j => i \div b <= j \div b
         /\ i \div b + j \div b <= (i + j) \div b
<1> DEFINE x == i \div b
           y == j \div b
           z == (i + j) \div b
<1>1. /\ x \in Int /\ i = b * x + (i % b) /\ i % b \in 0 .. b - 1
      /\ y \in Int /\ j = b * y + (j % b) /\ j % b \in 0 .. b - 1
      /\ z \in Int /\ i + j = b * z + ((i + j) % b) /\ (i + j) % b \in 0 .. b - 1
  OBVIOUS
<1> HIDE DEF x, y, z
<1>2. x >= 0
  BY <1>1
<1>3. x <= i
  BY <1>1, <1>2
<1>4. ASSUME i <= j PROVE x <= y
  <2>1. b * x - b * y < b
    BY <1>1, <1>4
  <2> QED
    BY <1>1, <2>1
<1>5. x + y <= z
  <2>1. b * (x + y) - b * z < b
    BY <1>1
  <2> QED
    BY <1>1, <2>1
<1> QED
  BY <1>1, <1>2, <1>3, <1>4, <1>5 DEF x, y, z

(* What the numbers of a Statfs can be.                                    *)
LEMMA BytesBounds ==
  ASSUME TypeOK
  PROVE  /\ \A S \in SUBSET Units : IsFiniteSet(S) /\ Cardinality(S) \in 0 .. MaxInt
         /\ Account \in 0 .. MaxInt
         /\ Cardinality({u \in Units : at[u] \cap Containers # {}}) <= Account
<1> DEFINE Stored == {s \in Units \X Containers : s[2] \in at[s[1]]}
<1>1. IsFiniteSet(Units) /\ IsFiniteSet(Units \X Containers)
  BY ContainersFinite, FS_Product
<1>2. Cardinality(Units) <= MaxInt /\ Cardinality(Units) \in Nat
  <2>1. PICK c \in Containers : TRUE
    BY DEF Containers
  <2> DEFINE first == [u \in Units |-> <<u, c>>]
  <2>2. first \in Injection(Units, Units \X Containers)
    BY DEF Injection, IsInjective
  <2> HIDE DEF first
  <2>3. Cardinality(Units) <= Cardinality(Units \X Containers)
    BY <1>1, <2>2, FS_Injection
  <2>4. Cardinality(Units) \in Nat /\ Cardinality(Units \X Containers) \in Nat
    BY <1>1, FS_CardinalityType
  <2> QED
    BY <2>3, <2>4
<1>3. ASSUME NEW S \in SUBSET Units PROVE IsFiniteSet(S) /\ Cardinality(S) \in 0 .. MaxInt
  <2>1. IsFiniteSet(S) /\ Cardinality(S) <= Cardinality(Units)
    BY <1>1, FS_Subset
  <2>2. Cardinality(S) \in Nat
    BY <2>1, FS_CardinalityType
  <2> QED
    BY <1>2, <2>1, <2>2
<1>4. IsFiniteSet(Stored) /\ Account = Cardinality(Stored) /\ Cardinality(Stored) \in 0 .. MaxInt
  <2>1. IsFiniteSet(Stored) /\ Cardinality(Stored) <= Cardinality(Units \X Containers)
    BY <1>1, FS_Subset
  <2>2. Cardinality(Stored) \in Nat /\ Cardinality(Units \X Containers) \in Nat
    BY <1>1, <2>1, FS_CardinalityType
  <2> QED
    BY <2>1, <2>2 DEF Account
<1>5. Cardinality({u \in Units : at[u] \cap Containers # {}}) <= Cardinality(Stored)
  <2> DEFINE Holding == {u \in Units : at[u] \cap Containers # {}}
             unit == [s \in Stored |-> s[1]]
  <2>1. ASSUME NEW u \in Holding PROVE \E s \in Stored : unit[s] = u
    <3>1. PICK c \in Containers : c \in at[u]
      OBVIOUS
    <3>2. <<u, c>> \in Stored /\ unit[<<u, c>>] = u
      BY <3>1
    <3> QED
      BY <3>2
  <2>2. unit \in [Stored -> Holding]
    OBVIOUS
  <2>3. unit \in Surjection(Stored, Holding)
    BY <2>1, <2>2, Zenon DEF Surjection
  <2> HIDE DEF Stored, Holding, unit
  <2>4. Cardinality(Holding) <= Cardinality(Stored)
    BY <1>4, <2>3, FS_Surjection
  <2> QED
    BY <2>4 DEF Holding
<1> QED
  BY <1>3, <1>4, <1>5

-----------------------------------------------------------------------------
(* Statfs counts.                                                          *)
CountsInv == PairInv /\ \A p \in Procs : Counts(p)

LEMMA CountsStill ==
  ASSUME NEW q \in Procs, Counts(q), UNCHANGED <<options, at>>,
         pc'[q] = pc[q] \/ pc'[q] \notin StatfsLabels, usage'[q] = usage[q], steady'[q] = steady[q]
  PROVE  Counts(q)'
BY DEF Counts, Scope, Target, BytesUsed, StatfsLabels

(* Data that are not where they were counted do not come back there.       *)
LEMMA DataCounts ==
  ASSUME CountsInv, DataChanges, NEW q \in Procs
  PROVE  Counts(q)'
<1>0. /\ SwiftType /\ MountType /\ Counts(q) /\ Target' = Target /\ Scope' = Scope
      /\ TypeOK
      /\ UNCHANGED <<pc, usage, options>>
  BY TypeParts DEF CountsInv, PairInv, DataChanges, DataChange, Target, Scope, localVars
<1>1. /\ steady'[q] = {u \in steady[q] : at'[u] \cap Scope # {}}
      /\ steady[q] \subseteq Units /\ steady'[q] \subseteq steady[q]
  BY <1>0 DEF DataChanges, MountType
<1>2. steady'[q] \subseteq {u \in Units : at'[u] \cap Scope # {}}
  BY <1>1
<1>3. ASSUME Target # NoTarget, NEW v \in steady'[q], Target \notin at[v] PROVE Target \notin at'[v]
  <2>1. Target \in Names /\ v \in Units
    BY <1>0, <1>1, <1>3 DEF SwiftType, Target
  <2>2. Segments[Target] \in at[v]
    BY <1>0, <1>1, <1>3 DEF Counts, Scope, Pair
  <2>3. CASE at'[v] \subseteq at[v]
    BY <1>3, <2>3
  <2>4. CASE \E n \in Names : at[v] = {n} /\ at'[v] = Pair(n)
    BY <1>3, <2>1, <2>2, <2>4 DEF Pair
  <2>5. at'[v] \subseteq at[v] \/ \E n \in Names : at[v] = {n} /\ at'[v] = Pair(n)
    <3>1. PICK w \in Units : Upload(w) \/ MoveCopy(w) \/ DeleteData(w)
      BY DEF DataChanges, DataChange
    <3>2. at \in [Units -> SUBSET Exists]
      BY <1>0 DEF SwiftType
    <3>3. v # w => at'[v] = at[v]
      BY <2>1, <3>1, <3>2 DEF Upload, MoveCopy, DeleteData
    <3>4. CASE v = w
      BY <2>1, <2>2, <3>1, <3>2, <3>4 DEF Upload, MoveCopy, DeleteData
    <3> QED
      BY <3>3, <3>4
  <2> QED
    BY <2>3, <2>4, <2>5
<1>4. pc'[q] = "segments" =>
        \E counted \in SUBSET Units :
          /\ usage'[q].base = Cardinality(counted)
          /\ \A v \in steady'[q] \ counted : Target' \notin at'[v]
  BY <1>0, <1>1, <1>3 DEF Counts
<1>5. pc'[q] = "statfs" => BytesUsed(usage[q])' \in Cardinality(steady'[q]) .. 2 * MaxInt
  <2>1. Cardinality(steady'[q]) <= Cardinality(steady[q])
    BY <1>0, <1>1, BytesBounds, FS_Subset
  <2>2. Cardinality(steady'[q]) \in Nat /\ Cardinality(steady[q]) \in Nat
    BY <1>0, <1>1, BytesBounds
  <2>3. BytesUsed(usage[q])' = BytesUsed(usage[q])
    BY <1>0 DEF BytesUsed
  <2> QED
    BY <1>0, <2>1, <2>2, <2>3 DEF Counts
<1> QED
  BY <1>0, <1>2, <1>4, <1>5 DEF Counts

(* One request after the other: the container, then its segments.         *)
LEMMA StatfsCounts ==
  ASSUME CountsInv, NEW p \in Procs, StartStatfs(p) \/ ServeStatfs(p)
  PROVE  Counts(p)'
<1>0. /\ TypeOK /\ SwiftType /\ ProcType /\ MountType /\ Counts(p) /\ OwnCalls
      /\ UNCHANGED <<options, at>> /\ Target' = Target /\ Scope' = Scope
  BY TypeParts DEF CountsInv, PairInv, PairInvariant, StartStatfs, ServeStatfs, StatfsAccount,
     StatfsContainers, StatfsContainer, Asking, At, StatfsEnds, AnswerStatfs, Return, swiftVars, Target, Scope
<1>1. CASE StartStatfs(p)
  BY <1>0, <1>1 DEF StartStatfs, Counts, ProcType, MountType
<1>2. CASE StatfsEnds(p) \/ AnswerStatfs(p)
  BY <1>0, <1>2 DEF StatfsEnds, AnswerStatfs, Return, Counts, ProcType, MountType
<1>3. CASE StatfsFails(p) /\ UNCHANGED steady
  BY <1>0, <1>3 DEF StatfsFails, Answer, Counts, ProcType
<1>4. CASE Answer(p, "EIO") /\ UNCHANGED <<steady, usage>>
  BY <1>0, <1>4 DEF Answer, Counts, ProcType
<1>5. CASE Told(p, "account", Account, IF Target = NoTarget THEN "statfs" ELSE "base") /\ UNCHANGED steady
  <2>1. CASE Target # NoTarget
    BY <1>0, <1>5, <2>1 DEF Told, Goto, Counts, ProcType
  <2>2. CASE Target = NoTarget
    <3>1. Scope = Containers
      BY <2>2 DEF Scope
    <3>2. steady[p] \subseteq {u \in Units : at[u] \cap Containers # {}}
      BY <1>0, <3>1 DEF Counts
    <3>3. Cardinality(steady[p]) <= Cardinality({u \in Units : at[u] \cap Containers # {}})
      BY <1>0, <3>2, BytesBounds, FS_Subset
    <3>4. /\ Cardinality(steady[p]) \in Nat /\ Account \in 0 .. MaxInt
          /\ Cardinality({u \in Units : at[u] \cap Containers # {}}) \in Nat
      BY <1>0, <3>2, BytesBounds
    <3>5. Account \in Cardinality(steady[p]) .. 2 * MaxInt
      BY <1>0, <3>3, <3>4, BytesBounds
    <3>6. pc'[p] = "statfs" /\ usage'[p].account = Account
      BY <1>0, <1>5, <2>2 DEF Told, Goto, ProcType, MountType
    <3> QED
      BY <1>0, <1>5, <2>2, <3>5, <3>6 DEF Counts, BytesUsed
  <2> QED
    BY <2>1, <2>2
<1>6. CASE pc[p] = "base" /\ Told(p, "base", Bytes(Target), "segments") /\ UNCHANGED steady
  <2> DEFINE counted == {u \in Units : Target \in at[u]}
  <2>1. Target # NoTarget
    BY <1>0, <1>6 DEF Counts
  <2>2. pc'[p] = "segments" /\ usage'[p].base = Cardinality(counted) /\ steady'[p] = steady[p]
    BY <1>0, <1>6 DEF Told, Goto, ProcType, MountType, Bytes
  <2>3. \A u \in steady[p] \ counted : Target \notin at[u]
    BY <1>0 DEF MountType
  <2>4. counted \in SUBSET Units
    OBVIOUS
  <2> HIDE DEF counted
  <2> QED
    BY <1>0, <2>1, <2>2, <2>3, <2>4 DEF Counts
<1>7. CASE /\ pc[p] = "segments" /\ Told(p, "segments", Bytes(Segments[Target]), "statfs")
           /\ UNCHANGED steady
  <2> DEFINE moved == {u \in Units : Segments[Target] \in at[u]}
  <2>1. Target # NoTarget
    BY <1>0, <1>7 DEF Counts
  <2>2. PICK counted \in SUBSET Units :
          /\ usage[p].base = Cardinality(counted)
          /\ \A u \in steady[p] \ counted : Target \notin at[u]
    BY <1>0, <1>7 DEF Counts
  <2>3. moved \in SUBSET Units /\ steady[p] \subseteq counted \cup moved
    BY <1>0, <2>1, <2>2 DEF Counts, Scope, Pair
  <2>4. /\ pc'[p] = "statfs" /\ steady'[p] = steady[p]
        /\ usage'[p].base = Cardinality(counted) /\ usage'[p].segments = Cardinality(moved)
    BY <1>0, <1>7, <2>2 DEF Told, Goto, ProcType, MountType, Bytes
  <2> HIDE DEF moved
  <2>5. /\ Cardinality(counted) \in 0 .. MaxInt /\ Cardinality(moved) \in 0 .. MaxInt
        /\ IsFiniteSet(counted) /\ IsFiniteSet(moved) /\ counted \cap moved \in SUBSET Units
    BY <1>0, <2>3, BytesBounds
  <2>6. /\ Cardinality(counted \cap moved) \in Nat
        /\ Cardinality(counted \cup moved) \in Nat
        /\ Cardinality(steady[p]) \in Nat
    BY <1>0, <2>3, <2>5, BytesBounds DEF MountType
  <2>7. Cardinality(counted \cup moved) <= Cardinality(counted) + Cardinality(moved)
    <3>1. Cardinality(counted \cup moved)
            = Cardinality(counted) + Cardinality(moved) - Cardinality(counted \cap moved)
      BY <2>5, FS_Union, Zenon
    <3> QED
      BY <2>5, <2>6, <3>1
  <2>8. Cardinality(steady[p]) <= Cardinality(counted \cup moved)
    BY <2>3, <2>5, FS_Union, FS_Subset
  <2>9. usage'[p].base + usage'[p].segments \in Cardinality(steady[p]) .. 2 * MaxInt
    BY <2>4, <2>5, <2>6, <2>7, <2>8
  <2> QED
    BY <1>0, <2>1, <2>4, <2>9 DEF Counts, BytesUsed
<1> QED
  BY <1>1, <1>2, <1>3, <1>4, <1>5, <1>6, <1>7
     DEF ServeStatfs, StatfsAccount, StatfsContainers, StatfsContainer, Asking, At

LEMMA CountsStep ==
  ASSUME CountsInv, [Next]_vars
  PROVE  CountsInv'
<1>0. /\ PairInv /\ TypeOK /\ ProcType /\ MountType /\ PairInv'
      /\ \A p \in Procs : Counts(p)
  BY TypeParts, PairStep DEF CountsInv, PairInv
<1>1. ASSUME NEW p \in Procs, Serve(p) \/ Start(p), UNCHANGED <<mounted, usage, steady>>, NEW q \in Procs
      PROVE  Counts(q)'
  <2>1. CASE Serve(p)
    BY <1>0, <1>1, <2>1, ServeMoves, CountsStill
  <2>2. CASE Start(p)
    <3>1. pc'[q] = pc[q] \/ pc'[q] \in {"getall", "peek", "putbase", "deletesegments"}
      BY <1>0, <2>2, SensibleOp, FirstCallType DEF Start, ProcType
    <3> QED
      BY <1>0, <1>1, <2>2, <3>1, CountsStill DEF Start, swiftVars, StatfsLabels
  <2> QED
    BY <1>1, <2>1, <2>2
<1>2. ASSUME NEW p \in Procs, StartStatfs(p) \/ ServeStatfs(p), NEW q \in Procs \ {p}
      PROVE  Counts(q)'
  BY <1>0, <1>2, CountsStill DEF StartStatfs, ServeStatfs, StatfsAccount, StatfsContainers,
     StatfsContainer, Asking, At, Told, StatfsFails, StatfsEnds, AnswerStatfs, Return, Goto, Answer,
     ProcType, MountType, swiftVars
<1>3. ASSUME UNCHANGED <<options, at, pc, usage, steady>>, NEW q \in Procs PROVE Counts(q)'
  BY <1>0, <1>3, CountsStill
<1>4. ASSUME \/ StartMount \/ UNCHANGED vars
             \/ (OtherClient \/ TimePasses) /\ UNCHANGED <<mounted, usage, steady>>
      PROVE  UNCHANGED <<options, at, pc, usage, steady>>
  BY <1>4 DEF StartMount, StartBase, StartSegments, StartCreate, StartHeadCreated, MountAgain, Starting,
     OtherClient, TimePasses, vars, rootVars, localVars, swiftVars
<1>5. \A q \in Procs : Counts(q)'
  <2> TAKE q \in Procs
  <2>1. CASE DataChanges
    BY <2>1, DataCounts
  <2>2. CASE \E p \in Procs : StartStatfs(p) \/ ServeStatfs(p)
    BY <1>2, <2>2, StatfsCounts
  <2>3. CASE /\ (\E p \in Procs : Start(p) \/ Serve(p)) \/ OtherClient \/ TimePasses
             /\ UNCHANGED <<mounted, usage, steady>>
    BY <1>1, <1>3, <1>4, <2>3
  <2>4. CASE StartMount \/ UNCHANGED vars
    BY <1>3, <1>4, <2>4
  <2> QED
    BY <2>1, <2>2, <2>3, <2>4 DEF Next
<1> QED
  BY <1>0, <1>5 DEF CountsInv

(* A listing that is about to be cached knows its containers to be in      *)
(* pairs, a request relies on nothing that another can take back, and a    *)
(* Statfs has counted what it will not come across later.                  *)
THEOREM AccountInvariantHolds == Spec => []AccountInvariant
<1>1. Init => CountsInv
  BY TypeInit, PairInit DEF CountsInv, PairInv, Counts, Init, RootInit
<1>2. CountsInv /\ [Next]_vars => CountsInv'
  BY CountsStep
<1>3. CountsInv => AccountInvariant
  BY DEF CountsInv, PairInv, AccountInvariant
<1> QED
  BY <1>1, <1>2, <1>3, PTL DEF Spec

(* What is mounted, or in the cached listing of the account, has its       *)
(* segment container, whichever requests failed when it was made, listed   *)
(* or mounted (root.go:91, fs.go:164).                                     *)
THEOREM ServedInPairsHolds == Spec => []ServedInPairs
<1>1. AccountInvariant => ServedInPairs
  BY DEF AccountInvariant, PairInvariant
<1> QED
  BY <1>1, AccountInvariantHolds, PTL

(* A Remove that answers OK has removed both containers, also one that     *)
(* goes on where an earlier one stopped (root.go:69).                      *)
THEOREM RemovedInPairsHolds == Spec => []RemovedInPairs
<1>1. AccountInvariant => RemovedInPairs
  BY DEF AccountInvariant, PairInvariant
<1> QED
  BY <1>1, AccountInvariantHolds, PTL

(* df's "used" takes in all data that were there during the request, also  *)
(* those that went to the segment container between two of its requests    *)
(* (fs.go:121), also where its unsigned numbers wrap around.               *)
THEOREM StatfsCountsAllHolds == Spec => []StatfsCountsAll
<1>1. ASSUME TypeOK, AccountInvariant PROVE StatfsCountsAll
  <2>1. SUFFICES ASSUME NEW p \in Procs, pc[p] = "statfs",
                        Target # NoTarget \/ options.quota = 0 \/ usage[p].account <= options.quota
                 PROVE  Uint(Blocks(usage[p]) - Bavail(usage[p])) >= Cardinality(steady[p]) \div BlockSize
    BY DEF StatfsCountsAll
  <2> DEFINE n == BytesUsed(usage[p])
             k == Cardinality(steady[p])
             modulus == 2 * (MaxInt + 1)
             max == MaxInt \div BlockSize
  <2>2. /\ n \in k .. 2 * MaxInt /\ k \in Nat /\ n \in Nat /\ modulus \in Nat \ {0}
        /\ modulus = 2 * MaxInt + 2 /\ options.quota \in 0 .. MaxInt
        /\ usage[p].account \in Nat /\ BlockSize \in Nat \ {0} /\ MaxInt \in Nat
    <3>1. SwiftType /\ MountType
      BY <1>1, TypeParts
    <3>2. k \in Nat
      BY <1>1, <3>1, BytesBounds DEF MountType
    <3>3. n \in k .. 2 * MaxInt
      BY <1>1, <2>1 DEF AccountInvariant, Counts
    <3>4. options.quota \in 0 .. MaxInt /\ usage[p].account \in Nat
      BY <3>1 DEF SwiftType, MountType
    <3> QED
      BY <3>2, <3>3, <3>4
  <2>3. \A i \in Int : /\ i \in 0 .. modulus - 1 => Uint(i) = i
                       /\ i \in -modulus .. -1 => Uint(i) = i + modulus
                       /\ i \in modulus .. 2 * modulus - 1 => Uint(i) = i - modulus
                       /\ Uint(i) \in 0 .. modulus - 1
    <3> TAKE i \in Int
    <3> HIDE DEF modulus
    <3>1. Uint(i) = i % modulus
      BY DEF Uint, modulus
    <3>2. /\ 0 <= i /\ i < modulus => i % modulus = i
          /\ -modulus <= i /\ i < 0 => i % modulus = i + modulus
          /\ modulus <= i /\ i < 2 * modulus => i % modulus = i - modulus
          /\ i % modulus \in 0 .. modulus - 1
      BY <2>2, Remainder
    <3> QED
      BY <2>2, <3>1, <3>2
  <2> DEFINE d == n \div BlockSize
  <2>4. InUse(usage[p]) = d /\ Cardinality(steady[p]) = k
    BY DEF InUse
  <2>5. /\ d \in 0 .. n /\ k \div BlockSize \in 0 .. d /\ max \in 0 .. MaxInt
    <3> HIDE DEF n, k
    <3>1. d \in 0 .. n /\ k \div BlockSize \in 0 .. k /\ k \div BlockSize <= d
      BY <2>2, Quotients
    <3>2. max \in 0 .. MaxInt
      BY <2>2, Quotients
    <3> QED
      BY <2>2, <3>1, <3>2
  <2>6. SUFFICES Uint(Blocks(usage[p]) - Bavail(usage[p])) >= k \div BlockSize
    BY <2>4
  <2>7. CASE options.quota = 0
    <3>1. Blocks(usage[p]) = max /\ Bavail(usage[p]) = Uint(max - d)
      BY <2>4, <2>7 DEF Blocks, Bavail
    <3> HIDE DEF n, k, d, max, modulus
    <3>2. max - Uint(max - d) = d \/ max - Uint(max - d) = d - modulus
      <4>1. max - d \in 0 .. modulus - 1 \/ max - d \in -modulus .. -1
        BY <2>2, <2>5
      <4>2. Uint(max - d) = max - d \/ Uint(max - d) = max - d + modulus
        BY <2>3, <2>5, <4>1
      <4> QED
        BY <2>2, <2>5, <4>2
    <3>3. Uint(max - Uint(max - d)) = d
      BY <2>2, <2>3, <2>5, <3>2
    <3> QED
      BY <2>5, <3>1, <3>3
  <2>8. CASE options.quota > 0 /\ Target # NoTarget
    <3> DEFINE free == Uint(options.quota - usage[p].account)
               avail == free \div BlockSize
    <3>1. Bavail(usage[p]) = avail /\ Blocks(usage[p]) = Uint(avail + d)
      BY <2>4, <2>8 DEF Bavail, Blocks
    <3> HIDE DEF n, k, d, max, modulus, free
    <3>2. free \in 0 .. modulus - 1
      BY <2>2, <2>3 DEF free
    <3>3. avail \in 0 .. modulus - 1
      BY <2>2, <3>2, Quotients
    <3> HIDE DEF avail
    <3>4. Uint(avail + d) - avail = d \/ Uint(avail + d) - avail = d - modulus
      <4>1. CASE avail + d <= modulus - 1
        BY <2>2, <2>3, <2>5, <3>3, <4>1
      <4>2. CASE avail + d >= modulus
        <5>1. avail + d \in modulus .. 2 * modulus - 1
          BY <2>2, <2>5, <3>3, <4>2
        <5> QED
          BY <2>2, <2>3, <2>5, <3>3, <5>1
      <4> QED
        BY <2>2, <2>5, <3>3, <4>1, <4>2
    <3>5. Uint(Uint(avail + d) - avail) = d
      BY <2>2, <2>3, <2>5, <3>4
    <3> QED
      BY <2>5, <3>1, <3>5
  <2>9. CASE options.quota > 0 /\ Target = NoTarget
    <3> DEFINE left == options.quota - n
               size == options.quota \div BlockSize
    <3>1. n = usage[p].account
      BY <2>9 DEF BytesUsed
    <3>2. Bavail(usage[p]) = Uint(left) \div BlockSize /\ Blocks(usage[p]) = size
      BY <2>9, <3>1 DEF Bavail, Blocks
    <3> HIDE DEF n, k, max, modulus
    <3>3. left \in 0 .. MaxInt /\ options.quota = left + n
      BY <2>1, <2>2, <2>9, <3>1
    <3>4. Uint(left) = left
      BY <2>2, <2>3, <3>3
    <3> HIDE DEF left
    <3>5. left \div BlockSize \in Nat /\ size \in 0 .. MaxInt /\ left \div BlockSize + d <= size
      BY <2>2, <3>3, Quotients
    <3> HIDE DEF d, size
    <3>6. size - left \div BlockSize \in d .. MaxInt
      BY <2>2, <2>5, <3>5
    <3>7. Uint(size - left \div BlockSize) = size - left \div BlockSize
      BY <2>2, <2>3, <2>5, <3>6
    <3> QED
      BY <2>5, <3>2, <3>4, <3>6, <3>7
  <2> QED
    BY <2>2, <2>7, <2>8, <2>9
<1> QED
  BY <1>1, MountTypeCorrect, AccountInvariantHolds, PTL
=============================================================================
