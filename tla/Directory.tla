------------------------------ MODULE Directory ------------------------------
(***************************************************************************)
(* The handlers of a directory node, svfs/directory.go and the node copies *)
(* and deletions of object.go and symlink.go they call, over the directory *)
(* cache and a Swift container.                                            *)
(*                                                                         *)
(* bazil.org/fuse serves every request in a goroutine of its own, a        *)
(* process here.  A step of a process is one call of a cache method (one   *)
(* action of DirectoryCache) or one request to Swift, with the Go code     *)
(* that follows it; pc names the next call.  Swift requests can fail, and  *)
(* a write that fails may have taken effect.  Time passes, and other       *)
(* clients of the container change it, between any two steps.              *)
(*                                                                         *)
(* The tree is the apex Top with subdirectories below it.  <<d, n>> stands *)
(* for the object d/n, and <<Top, s>>, s a subdirectory, for the empty     *)
(* object "s/" that marks it.                                              *)
(***************************************************************************)
EXTENDS DirectoryCache

CONSTANTS
  Procs,         \* goroutines serving requests
  Top,           \* the apex directory
  Files,         \* names of objects and symlinks
  Symlinks,      \* those of Files that are only used for symlinks
  TransferMode,  \* option transfer-mode: a set of Skip... flags
  OpenModes,     \* access modes files are created with: "write", "readwrite"
  VFSLock,       \* how the kernel serialises requests on a directory
  InitialStore,  \* what the container may hold at first
  MaxFaults,     \* bound on the failing Swift requests
  MaxChanges     \* bound on the changes by other clients

SubDirs == Dirs \ {Top}
Paths == (Dirs \X Files) \cup ({Top} \X SubDirs)

ASSUME DirectoryAssumption ==
  /\ Top \in Dirs /\ Names # {}
  /\ Names = Files \cup SubDirs /\ Files \cap SubDirs = {}
  /\ Symlinks \subseteq Files
  /\ TransferMode \subseteq {"SkipCreate", "SkipMkdir", "SkipRmdir"}
  /\ OpenModes \subseteq {"write", "readwrite"}
  /\ VFSLock \in {"exclusive", "shared", "none"}
  /\ InitialStore \subseteq SUBSET Paths
  /\ MaxFaults \in Nat /\ MaxChanges \in Nat

VARIABLES
  stored,   \* the objects of the container
  faults,   \* how many Swift requests have failed
  changes,  \* how many changes other clients have made
  pc,       \* the next call of each process
  req,      \* the request it serves
  listing,  \* the children it fetched, or answers
  reply     \* its answer

swiftVars == <<stored, faults, changes>>
vars == <<content, nodeCount, stored, faults, changes, pc, req, listing, reply>>

-----------------------------------------------------------------------------
(* Requests.  To is where Link and Rename put the new name.                *)
Request(op, d, n) == [op |-> op, dir |-> d, name |-> n, todir |-> d, toname |-> n]
NoRequest == Request("none", Top, CHOOSE n \in Names : TRUE)
To(d, n, r) == [r EXCEPT !.todir = d, !.toname = n]

ReadOps == {"readdir", "lookup"}
Requests ==
  [op : {"none", "readdir", "lookup", "create", "symlink", "mkdir", "remove", "link", "rename"},
   dir : Dirs, name : Names, todir : Dirs, toname : Names]

Target(r) == <<r.dir, r.name>>
NewTarget(r) == <<r.todir, r.toname>>

(* What a listing of d with a delimiter shows: its objects and markers,    *)
(* and a pseudo-directory wherever only objects below it exist.            *)
Populated(s) == \E f \in Files : <<s, f>> \in stored
Listing(d) == {n \in Names : \/ <<d, n>> \in stored
                             \/ d = Top /\ n \in SubDirs /\ Populated(n)}
Exists(d) == d = Top \/ d \in Listing(Top)

Labels == {"idle", "peek", "getall", "fetch", "addall", "get", "put", "open", "set", "find",
           "empty", "delete", "peekdir", "deleteall", "uncache", "copy", "setnew", "answer"}

TypeOK ==
  /\ CacheTypeOK
  /\ stored \subseteq Paths
  /\ faults \in 0 .. MaxFaults /\ changes \in 0 .. MaxChanges
  /\ pc \in [Procs -> Labels]
  /\ req \in [Procs -> Requests]
  /\ listing \in [Procs -> SUBSET Names]
  /\ reply \in [Procs -> {"none", "OK", "ENOENT", "EIO", "ENOTEMPTY", "ENOTSUP"}]

Init ==
  /\ CacheInit
  /\ stored \in InitialStore
  /\ faults = 0 /\ changes = 0
  /\ pc = [p \in Procs |-> "idle"]
  /\ req = [p \in Procs |-> NoRequest]
  /\ listing = [p \in Procs |-> {}]
  /\ reply = [p \in Procs |-> "none"]

-----------------------------------------------------------------------------
(* The kernel.  A request holds the inode locks of the directories it      *)
(* works on, for reading or for writing, until it is answered; rmdir also  *)
(* holds the victim's.  "exclusive" is a kernel where lookups and listings *)
(* of a directory exclude each other too, "shared" one where they do not,  *)
(* and "none" several kernel inodes for one directory, which is what a     *)
(* node that was listed again gives.                                       *)
Locks(r) == {r.dir, r.todir} \cup (IF r.op = "remove" THEN {r.name} \cap SubDirs ELSE {})
Compatible(r, q) ==
  \/ VFSLock = "none"
  \/ VFSLock = "shared" /\ r.op \in ReadOps /\ q.op \in ReadOps
  \/ Locks(r) \cap Locks(q) = {}

FirstCall(r) ==
  CASE r.op = "readdir" -> "getall"
    [] r.op = "lookup"  -> "peek"
    [] r.op = "create"  -> IF "SkipCreate" \in TransferMode THEN "open" ELSE "put"
    [] r.op = "mkdir"   -> IF "SkipMkdir" \in TransferMode THEN "set" ELSE "put"
    [] r.op = "symlink" -> "put"
    [] r.op = "link"    -> "copy"
    [] r.op \in {"remove", "rename"} -> "find"

(* The kernel sends a request to make a name only where there is none, and *)
(* to remove, link or rename one that is there.                            *)
Sensible(r) ==
  /\ Exists(r.dir) /\ Exists(r.todir)
  /\ CASE r.op = "readdir" -> r.name = NoRequest.name
       [] r.op = "lookup"  -> r.name \in SubDirs => r.dir = Top
       [] r.op = "create"  -> r.name \in Files \ Symlinks /\ r.name \notin Listing(r.dir)
       [] r.op = "symlink" -> r.name \in Symlinks /\ r.name \notin Listing(r.dir)
       [] r.op = "mkdir"   -> r.dir = Top /\ r.name \in SubDirs \ Listing(Top)
       [] r.op = "remove"  -> r.name \in Listing(r.dir)
       [] r.op \in {"link", "rename"} ->
            /\ Target(r) # NewTarget(r) /\ r.name \in Listing(r.dir)
            /\ r.name \in Symlinks <=> r.toname \in Symlinks
            /\ r.name \in Files /\ r.toname \in Files
            /\ r.op = "link" => r.toname \notin Listing(r.todir)

Offered ==
  {Request(op, d, n) : op \in {"readdir", "lookup", "create", "symlink", "mkdir", "remove"},
                       d \in Dirs, n \in Names}
  \cup {To(t, m, Request(op, d, n)) : op \in {"link", "rename"},
                                      d \in Dirs, n \in Files, t \in Dirs, m \in Files}

Start(p) ==
  /\ pc[p] = "idle"
  /\ \E r \in Offered :
       /\ Sensible(r)
       /\ \A q \in Procs \ {p} : pc[q] # "idle" => Compatible(r, req[q])
       /\ req' = [req EXCEPT ![p] = r]
       /\ pc' = [pc EXCEPT ![p] = FirstCall(r)]
  /\ UNCHANGED <<cacheVars, swiftVars, listing, reply>>

(* The kernel has the answer.                                              *)
Return(p) ==
  /\ pc[p] = "answer"
  /\ pc' = [pc EXCEPT ![p] = "idle"]
  /\ req' = [req EXCEPT ![p] = NoRequest]
  /\ listing' = [listing EXCEPT ![p] = {}]
  /\ reply' = [reply EXCEPT ![p] = "none"]
  /\ UNCHANGED <<cacheVars, swiftVars>>

-----------------------------------------------------------------------------
At(p, label) == pc[p] = label /\ UNCHANGED req
Goto(p, label) == pc' = [pc EXCEPT ![p] = label] /\ UNCHANGED reply
Answer(p, a) == pc' = [pc EXCEPT ![p] = "answer"] /\ reply' = [reply EXCEPT ![p] = a]

(* A request to Swift that fails, a write that succeeds, and one that      *)
(* fails: its answer is lost or it never arrived.                          *)
SwiftFails == faults < MaxFaults /\ faults' = faults + 1 /\ UNCHANGED changes
SwiftWrites(after) == stored' = after /\ UNCHANGED <<faults, changes>>
SwiftWriteFails(after) == SwiftFails /\ stored' \in {stored, after}

-----------------------------------------------------------------------------
(* Lookup and ReadDirAll.                                                  *)
LookupPeekOnly(p) ==  \* mutant: an empty cache is not filled
  /\ At(p, "peek")
  /\ Goto(p, "get")
  /\ UNCHANGED <<cacheVars, swiftVars, listing>>

LookupPeek(p) ==
  /\ At(p, "peek")
  /\ Goto(p, IF PeekFound(req[p].dir) THEN "get" ELSE "getall")
  /\ UNCHANGED <<cacheVars, swiftVars, listing>>

ReadDirAllCached(p) ==
  /\ At(p, "getall")
  /\ GetAll(req[p].dir)
  /\ IF GetAllHit(req[p].dir)
     THEN IF req[p].op = "lookup" THEN Goto(p, "get") /\ UNCHANGED listing
          ELSE /\ listing' = [listing EXCEPT ![p] = content[req[p].dir].nodes]
               /\ Answer(p, "OK")
     ELSE Goto(p, "fetch") /\ UNCHANGED listing
  /\ UNCHANGED swiftVars

(* Lookup ignores the error of the ReadDirAll it calls.                    *)
ReadDirAllFetch(p) ==
  /\ At(p, "fetch")
  /\ \/ /\ listing' = [listing EXCEPT ![p] = Listing(req[p].dir)]
        /\ Goto(p, "addall")
        /\ UNCHANGED swiftVars
     \/ /\ SwiftFails
        /\ IF req[p].op = "lookup" THEN Goto(p, "get") ELSE Answer(p, "EIO")
        /\ UNCHANGED <<stored, listing>>
  /\ UNCHANGED cacheVars

ReadDirAllFill(p) ==
  /\ At(p, "addall")
  /\ AddAll(req[p].dir, listing[p])
  /\ IF req[p].op = "lookup" THEN Goto(p, "get") ELSE Answer(p, "OK")
  /\ UNCHANGED <<swiftVars, listing>>

LookupGet(p) ==
  /\ At(p, "get")
  /\ Answer(p, IF GetFound(req[p].dir, req[p].name) THEN "OK" ELSE "ENOENT")
  /\ UNCHANGED <<cacheVars, swiftVars, listing>>

-----------------------------------------------------------------------------
(* Create, Mkdir, Symlink: the object first, the cache last.  Only Symlink *)
(* ignores the error of its PUT, which is the one Close returns.           *)
PutObject(p) ==
  LET after == stored \cup {Target(req[p])}
  IN  /\ At(p, "put")
      /\ \/ /\ SwiftWrites(after)
            /\ Goto(p, IF req[p].op = "create" THEN "open" ELSE "set")
         \/ /\ SwiftWriteFails(after)
            /\ IF req[p].op = "symlink" THEN Goto(p, "set") ELSE Answer(p, "EIO")
      /\ UNCHANGED <<cacheVars, listing>>

(* A file that is created for both reading and writing exists by now, is   *)
(* not opened and never gets to the cache.                                 *)
OpenCreated(p) ==
  /\ At(p, "open")
  /\ \/ "write" \in OpenModes /\ Goto(p, "set")
     \/ "readwrite" \in OpenModes /\ Answer(p, "ENOTSUP")
  /\ UNCHANGED <<cacheVars, swiftVars, listing>>

SetCreated(p) ==
  /\ At(p, "set")
  /\ Set(req[p].dir, req[p].name)
  /\ Answer(p, "OK")
  /\ UNCHANGED <<swiftVars, listing>>

-----------------------------------------------------------------------------
(* Remove and Rename find the node in the cache, and only there.           *)
FindNodeUnchecked(p) ==  \* mutant: Remove does not check that a directory is empty
  LET r == req[p]
  IN  /\ At(p, "find")
      /\ IF ~GetFound(r.dir, r.name) \/ (r.op = "rename" /\ r.name \in SubDirs)
         THEN Answer(p, "ENOTSUP")
         ELSE Goto(p, IF r.op = "rename" THEN "copy" ELSE "delete")
      /\ UNCHANGED <<cacheVars, swiftVars, listing>>

FindNode(p) ==
  LET r == req[p]
  IN  /\ At(p, "find")
      /\ IF ~GetFound(r.dir, r.name) \/ (r.op = "rename" /\ r.name \in SubDirs)
         THEN Answer(p, "ENOTSUP")
         ELSE Goto(p, IF r.op = "rename" THEN "copy"
                      ELSE IF r.name \in SubDirs /\ "SkipRmdir" \notin TransferMode
                      THEN "empty" ELSE "delete")
      /\ UNCHANGED <<cacheVars, swiftVars, listing>>

IsEmpty(p) ==
  /\ At(p, "empty")
  /\ \/ /\ IF Populated(req[p].name) THEN Answer(p, "ENOTEMPTY") ELSE Goto(p, "delete")
        /\ UNCHANGED swiftVars
     \/ SwiftFails /\ Answer(p, "EIO") /\ UNCHANGED stored
  /\ UNCHANGED <<cacheVars, listing>>

(* removeObject and removeDirectory ignore the error of the DELETE,        *)
(* removeSymlink and the delete of a rename, its last call, return it.     *)
(* Deleting what is not there is an error, too.                            *)
DeleteIgnoresError(r) == r.op = "remove" /\ r.name \notin Symlinks
AfterDelete(r) == IF r.name \in SubDirs THEN "peekdir" ELSE "uncache"
DeleteObject(p) ==
  LET r == req[p]
      after == stored \ {Target(r)}
  IN  /\ At(p, "delete")
      /\ \/ /\ Target(r) \in stored
            /\ SwiftWrites(after)
            /\ IF r.op = "rename" THEN Answer(p, "OK") ELSE Goto(p, AfterDelete(r))
         \/ /\ \/ SwiftWriteFails(after)
               \/ Target(r) \notin stored /\ UNCHANGED swiftVars
            /\ IF DeleteIgnoresError(r) THEN Goto(p, AfterDelete(r)) ELSE Answer(p, "EIO")
      /\ UNCHANGED <<cacheVars, listing>>

(* removeDirectory drops the listing of the directory it removed.          *)
RemoveDirectoryPeek(p) ==
  /\ At(p, "peekdir")
  /\ Goto(p, IF PeekFound(req[p].name) THEN "deleteall" ELSE "uncache")
  /\ UNCHANGED <<cacheVars, swiftVars, listing>>

RemoveDirectoryDeleteAll(p) ==
  /\ At(p, "deleteall")
  /\ DeleteAll(req[p].name)
  /\ IF DeleteAllPanics(req[p].name) THEN Answer(p, "EIO") ELSE Goto(p, "uncache")
  /\ UNCHANGED <<swiftVars, listing>>

Uncache(p) ==
  /\ At(p, "uncache")
  /\ Delete(req[p].dir, req[p].name)
  /\ IF req[p].op = "rename" THEN Goto(p, "delete") ELSE Answer(p, "OK")
  /\ UNCHANGED <<swiftVars, listing>>

-----------------------------------------------------------------------------
(* Link copies an object; Rename copies it and deletes the old one, from   *)
(* the cache first and then from Swift.                                    *)
CopyObjectAnyway(p) ==  \* mutant: a rename goes on after its copy failed
  LET r == req[p]
      after == stored \cup {NewTarget(r)}
  IN  /\ At(p, "copy")
      /\ SwiftWrites(after) \/ SwiftWriteFails(after)
      /\ Goto(p, "setnew")
      /\ UNCHANGED <<cacheVars, listing>>

CopyObject(p) ==
  LET r == req[p]
      after == stored \cup {NewTarget(r)}
  IN  /\ At(p, "copy")
      /\ \/ Target(r) \in stored /\ SwiftWrites(after) /\ Goto(p, "setnew")
         \/ Target(r) \in stored /\ SwiftWriteFails(after) /\ Answer(p, "EIO")
         \/ Target(r) \notin stored /\ UNCHANGED swiftVars /\ Answer(p, "EIO")
      /\ UNCHANGED <<cacheVars, listing>>

SetCopiedInSource(p) ==  \* mutant: cached in the source's directory
  /\ At(p, "setnew")
  /\ Set(req[p].dir, req[p].toname)
  /\ IF req[p].op = "rename" THEN Goto(p, "uncache") ELSE Answer(p, "OK")
  /\ UNCHANGED <<swiftVars, listing>>
SetCopiedLast(p) ==  \* mutant: a rename leaves the old object
  /\ At(p, "setnew")
  /\ Set(req[p].todir, req[p].toname)
  /\ Answer(p, "OK")
  /\ UNCHANGED <<swiftVars, listing>>

SetCopied(p) ==
  /\ At(p, "setnew")
  /\ Set(req[p].todir, req[p].toname)
  /\ IF req[p].op = "rename" THEN Goto(p, "uncache") ELSE Answer(p, "OK")
  /\ UNCHANGED <<swiftVars, listing>>

-----------------------------------------------------------------------------
(* Another client of the container adds or removes an object.              *)
OtherClient ==
  /\ changes < MaxChanges
  /\ \E path \in Paths : stored' \in {stored \cup {path}, stored \ {path}}
  /\ stored' # stored
  /\ changes' = changes + 1
  /\ UNCHANGED <<cacheVars, faults, pc, req, listing, reply>>

TimePasses == Tick /\ UNCHANGED <<swiftVars, pc, req, listing, reply>>

Serve(p) ==
  \/ LookupPeek(p) \/ ReadDirAllCached(p) \/ ReadDirAllFetch(p) \/ ReadDirAllFill(p)
  \/ LookupGet(p) \/ PutObject(p) \/ OpenCreated(p) \/ SetCreated(p) \/ FindNode(p)
  \/ IsEmpty(p) \/ DeleteObject(p) \/ RemoveDirectoryPeek(p) \/ RemoveDirectoryDeleteAll(p)
  \/ Uncache(p) \/ CopyObject(p) \/ SetCopied(p)

Next ==
  \/ \E p \in Procs : Start(p) \/ Serve(p) \/ Return(p)
  \/ OtherClient
  \/ TimePasses

Spec == Init /\ [][Next]_vars

(* Goroutines are scheduled, Swift answers or its requests time out, the   *)
(* kernel takes its answers, and time passes.                              *)
Fairness ==
  /\ \A p \in Procs : WF_vars(Serve(p) \/ Return(p))
  /\ WF_vars(TimePasses)
FairSpec == Spec /\ Fairness

-----------------------------------------------------------------------------
(* The name a request in flight is making or removing in directory d.      *)
Changing(d, n) ==
  \E p \in Procs :
    /\ pc[p] \notin {"idle", "answer"} /\ req[p].op \notin ReadOps
    /\ <<d, n>> \in {Target(req[p]), NewTarget(req[p])}

(* A cached listing, expired or not, differs from the container only in    *)
(* the names a request is changing at this moment: every handler writes to *)
(* the cache what it wrote to Swift, and no fill overwrites it with an     *)
(* older listing.  (One mount, no failures.)                               *)
CacheCoherent ==
  \A d \in DOMAIN content, n \in Names :
    (n \in content[d].nodes <=> n \in Listing(d)) \/ Changing(d, n)

(* Lookup answers ENOENT for exactly the names that are not there.         *)
(* directory.go:234-237: the cache is filled if it is empty, and the       *)
(* answer is ENOENT if the name is not found.                              *)
LookupExact ==
  \A p \in Procs :
    pc[p] = "answer" /\ req[p].op = "lookup" =>
      (reply[p] = "OK" <=> req[p].name \in Listing(req[p].dir))

(* Whatever Swift fails to do, a renamed object is there under its old or  *)
(* its new name until the request is answered, and after.                  *)
RenameKeepsObject ==
  \A p \in Procs :
    /\ changes = 0
    /\ req[p].op = "rename" /\ pc[p] \notin {"idle", "find"} /\ req[p].name \notin SubDirs
    /\ reply[p] # "ENOTSUP"
    => {Target(req[p]), NewTarget(req[p])} \cap stored # {}

(* A directory's marker is deleted only while nothing is in the directory, *)
(* although isEmpty and the DELETE are two requests.                       *)
RemovesOnlyEmpty ==
  [][\A s \in SubDirs :
       <<Top, s>> \in stored /\ <<Top, s>> \notin stored' => ~Populated(s)]_vars

(* The cache heals: when other clients, failed requests and lost fills     *)
(* have left a name in it that the container no longer has, and nobody     *)
(* makes that name again, lookups end up not finding it: every entry,      *)
(* temporary or not, expires and is then fetched again.                    *)
Found(path) ==
  \E p \in Procs :
    pc[p] = "answer" /\ req[p].op = "lookup" /\ Target(req[p]) = path /\ reply[p] = "OK"
GoneIsForgotten ==
  \A path \in Paths : <>[](path[2] \notin Listing(path[1])) => <>[]~Found(path)

(* Why these hold.  A request makes the calls of its operation on names    *)
(* the kernel sends it for, ...                                            *)
CallsOf(r) ==
  CASE r.op = "readdir" -> {"getall", "fetch", "addall"}
    [] r.op = "lookup"  -> {"peek", "getall", "fetch", "addall", "get"}
    [] r.op \in {"create", "symlink", "mkdir"} -> {"put", "open", "set"}
    [] r.op = "remove"  -> {"find", "delete", "uncache"}
                           \cup (IF r.name \in SubDirs THEN {"empty", "peekdir", "deleteall"} ELSE {})
    [] r.op = "link"    -> {"copy", "setnew"}
    [] r.op = "rename"  -> {"find", "copy", "setnew", "uncache", "delete"}
    [] OTHER -> {}
WellFormed(r) ==
  /\ r.op \in {"link", "rename"} => {r.name, r.toname} \subseteq Files /\ Target(r) # NewTarget(r)
  /\ r.op \notin {"link", "rename"} => Target(r) = NewTarget(r)
  /\ r.op = "mkdir" => r.dir = Top /\ r.name \in SubDirs
  /\ r.op \in {"create", "symlink"} => r.name \in Files
  /\ r.op \in {"remove", "lookup"} /\ r.name \in SubDirs => r.dir = Top
OwnCalls ==
  \A p \in Procs :
    pc[p] # "idle" => WellFormed(req[p]) /\ pc[p] \in CallsOf(req[p]) \cup {"answer"}

(* ... has its directories to itself while it does, ...                    *)
Apart ==
  \A p, q \in Procs : p # q /\ pc[p] # "idle" /\ pc[q] # "idle" => Compatible(req[p], req[q])

(* ... keeps an object that it renames, ...                                *)
RenamedIsKept(p) ==
  changes = 0 /\ pc[p] # "idle" /\ req[p].op = "rename" =>
    /\ pc[p] # "answer" => Target(req[p]) \in stored
    /\ pc[p] \in {"setnew", "uncache", "delete"} => NewTarget(req[p]) \in stored
    /\ {Target(req[p]), NewTarget(req[p])} \cap stored # {}

(* ... and works on directories that are there, which have their markers.  *)
Objects(d) == {n \in Names : <<d, n>> \in stored}
HasMarker(d) == d = Top \/ <<Top, d>> \in stored
Marked ==
  /\ \A path \in stored : HasMarker(path[1])
  /\ \A p \in Procs : pc[p] # "idle" => HasMarker(req[p].dir) /\ HasMarker(req[p].todir)

(* What each call relies on: what is in the container, ...                 *)
Settled(path) ==
  path[1] \in DOMAIN content => (path[2] \in content[path[1]].nodes <=> path \in stored)
HasStored(p) ==
  LET r == req[p]
  IN  /\ pc[p] \in {"open", "set", "find", "empty", "copy", "setnew"} => Target(r) \in stored
      /\ pc[p] = "setnew" \/ (pc[p] \in {"delete", "uncache"} /\ r.op = "rename") =>
           {Target(r), NewTarget(r)} \subseteq stored
      /\ pc[p] = "delete" => Target(r) \in stored
      /\ pc[p] \in {"peekdir", "deleteall", "uncache"} /\ r.op = "remove" => Target(r) \notin stored
      /\ pc[p] = "delete" /\ r.name \in SubDirs => Objects(r.name) = {}

(* ... what is in the cache, and what it listed or answered.               *)
HasCached(p) ==
  LET r == req[p]
  IN  /\ pc[p] \in {"find", "empty", "copy", "setnew"} => Settled(Target(r))
      /\ pc[p] = "find" \/ (pc[p] \in {"uncache", "delete"} /\ r.op = "rename") => Settled(NewTarget(r))
      /\ pc[p] = "delete" /\ r.op = "rename" => ~GetFound(r.dir, r.name)
      /\ pc[p] = "deleteall" => r.name \in DOMAIN content
HasListed(p) ==
  LET r == req[p]
  IN  /\ pc[p] = "addall" => listing[p] = Objects(r.dir)
      /\ pc[p] = "answer" /\ r.op = "lookup" /\ reply[p] = "OK" => Target(r) \in stored

(* Only an exclusive lock keeps for a lookup what it found in the cache.   *)
HasFound(p) ==
  LET r == req[p]
  IN  VFSLock = "exclusive" =>
        /\ pc[p] \in {"getall", "fetch"} /\ r.op = "lookup" => ~PeekFound(r.dir)
        /\ pc[p] = "get" => r.dir \in DOMAIN content
        /\ pc[p] = "answer" /\ r.op = "lookup" /\ Target(r) \in stored => reply[p] = "OK"

Coherent == \A d \in Dirs, n \in Names : Settled(<<d, n>>) \/ Changing(d, n)

(* So nothing that a request has seen or done is undone before it is       *)
(* answered.  (One mount, no failures.)                                    *)
DirectoryInvariant ==
  /\ OwnCalls /\ Apart /\ Marked /\ Coherent
  /\ \A p \in Procs : RenamedIsKept(p) /\ HasStored(p) /\ HasCached(p) /\ HasListed(p) /\ HasFound(p)

(* With the kernel's exclusive locks and no failures, the handlers         *)
(* implement the namespace.                                                *)
Phase(p) ==
  CASE pc[p] = "idle" -> "idle"
    [] pc[p] = "answer" -> "answered"
    [] \/ pc[p] \in {"open", "set", "setnew", "peekdir", "deleteall", "uncache"}
       \/ pc[p] = "delete" /\ req[p].op = "rename" -> "changed"
    [] OTHER -> "called"

NS == INSTANCE Namespace WITH
        names <- stored,
        phase <- [p \in Procs |-> Phase(p)],
        want <- req,
        answer <- [p \in Procs |->
                     <<reply[p], IF pc[p] = "answer" /\ req[p].op = "readdir"
                                 THEN listing[p] ELSE {} >>]
ImplementsNamespace == NS!NSSpec
=============================================================================
