---------------------------------- MODULE Root ----------------------------------
(***************************************************************************)
(* The root of an account, svfs/root.go: its directories are containers,   *)
(* and each has a second one for the segments of its large objects, named  *)
(* with a suffix.  Nothing makes or removes the two together: Mkdir,       *)
(* Remove and ReadDirAll work on one after the other, and any of the       *)
(* requests can fail.                                                      *)
(*                                                                         *)
(* As in Directory a process serves one request at a time, and a step is   *)
(* one cache method or one request to Swift with the code that follows.    *)
(* The kernel lets lookups and listings overlap and nothing else.          *)
(***************************************************************************)
EXTENDS DirectoryCache

CONSTANTS
  Procs,       \* goroutines serving requests
  Top,         \* the key of the root in the cache
  Segments,    \* the name of the segment container, by the container's name
  Units,       \* pieces of data in containers
  Options,     \* what svfs may be mounted with: a set of records
  NoTarget,    \* no container is given: the account is mounted
  MaxFaults,   \* bound on the failing requests to Swift
  MaxChanges   \* bound on the containers other clients make or remove

Suffixed == {Segments[n] : n \in Names}
Containers == Names \cup Suffixed
Pair(n) == {n, Segments[n]}

ASSUME RootAssumption ==
  /\ Dirs = {Top}
  /\ Names # {} /\ DOMAIN Segments = Names
  /\ \A m, n \in Names : Segments[m] = Segments[n] => m = n
  /\ Options \subseteq [target : Names \cup {NoTarget}, policy : BOOLEAN, quota : Nat]
  /\ NoTarget \notin Names /\ IsFiniteSet(Units)
  /\ MaxFaults \in Nat /\ MaxChanges \in Nat

VARIABLES
  options,  \* the container to mount, whether a storage policy is set, the quota
  stored,   \* the containers: those with the storage policy svfs asks for, and others
  at,       \* where each piece of data is
  faults,   \* how many requests to Swift have failed
  changes,  \* how many changes other clients have made
  pc,       \* the next call of each process
  req,      \* the request it serves
  todo,     \* the containers it has still to ask for
  kept,     \* those of its listing it knows
  reply,    \* its answer
  broken    \* history: names that lost a container to a Remove

swiftVars == <<stored, at, faults, changes>>
localVars == <<pc, req, todo, kept, reply>>
rootVars == <<content, nodeCount, options, stored, at, faults, changes, pc, req, todo, kept, reply, broken>>

-----------------------------------------------------------------------------
Exists == DOMAIN stored
Policies == IF options.policy THEN {"ours", "other"} ELSE {"ours"}
Full(c) == \E u \in Units : c \in at[u]

(* segmentRegex and TrimSuffix: what a listing shows, and of that the      *)
(* containers whose segment container is not in the listing.               *)
Bases(S) == (S \cap Names) \ Suffixed
Missing(S) == {n \in Bases(S) : Segments[n] \notin S}
Visible == Bases({c \in Exists : stored[c] = "ours"})

NoRequest == [op |-> "none", name |-> CHOOSE n \in Names : TRUE]
ReadOps == {"readdir", "lookup"}
Requests == [op : {"none", "readdir", "lookup", "mkdir", "remove"}, name : Names]

Labels == {"idle", "peek", "getall", "fetch", "head", "create", "headnew", "addall", "get",
           "putbase", "putsegments", "set", "deletesegments", "deletebase", "uncache", "answer"}

RootTypeOK ==
  /\ CacheTypeOK
  /\ options \in Options
  /\ Exists \subseteq Containers /\ \A c \in Exists : stored[c] \in Policies
  /\ at \in [Units -> SUBSET Exists]
  /\ faults \in 0 .. MaxFaults /\ changes \in 0 .. MaxChanges
  /\ req \in [Procs -> Requests]
  /\ todo \in [Procs -> SUBSET Containers] /\ kept \in [Procs -> SUBSET Containers]
  /\ reply \in [Procs -> {"none", "OK", "ENOENT", "EIO", "ENOTEMPTY"}]
  /\ broken \subseteq Names

RootInit ==
  /\ CacheInit
  /\ options \in Options
  /\ \E S \in SUBSET Containers : stored \in [S -> Policies]
  /\ at = [u \in Units |-> {}]
  /\ faults = 0 /\ changes = 0
  /\ pc = [p \in Procs |-> "idle"] /\ req = [p \in Procs |-> NoRequest]
  /\ todo = [p \in Procs |-> {}] /\ kept = [p \in Procs |-> {}]
  /\ reply = [p \in Procs |-> "none"]
  /\ broken = {}

-----------------------------------------------------------------------------
FirstCall(r) ==
  CASE r.op = "readdir" -> "getall"
    [] r.op = "lookup"  -> "peek"
    [] r.op = "mkdir"   -> "putbase"
    [] r.op = "remove"  -> "deletesegments"

(* The kernel makes a directory where it sees none, and removes one that   *)
(* it sees, in the cache or in a listing of the account.                   *)
Sensible(r) ==
  CASE r.op = "readdir" -> r = [NoRequest EXCEPT !.op = "readdir"]
    [] r.op = "mkdir"   -> r.name \notin Visible
    [] r.op = "remove"  -> r.name \in Visible \/ GetFound(Top, r.name)
    [] OTHER            -> r.op # "none"

Start(p) ==
  /\ pc[p] = "idle" /\ options.target = NoTarget
  /\ \E r \in Requests :
       /\ Sensible(r)
       /\ \A q \in Procs \ {p} :
            req[q].op = "none" \/ (r.op \in ReadOps /\ req[q].op \in ReadOps)
       /\ req' = [req EXCEPT ![p] = r]
       /\ pc' = [pc EXCEPT ![p] = FirstCall(r)]
  /\ UNCHANGED <<cacheVars, options, swiftVars, todo, kept, reply, broken>>

Return(p) ==
  /\ pc[p] = "answer"
  /\ pc' = [pc EXCEPT ![p] = "idle"]
  /\ req' = [req EXCEPT ![p] = NoRequest]
  /\ todo' = [todo EXCEPT ![p] = {}] /\ kept' = [kept EXCEPT ![p] = {}]
  /\ reply' = [reply EXCEPT ![p] = "none"]
  /\ UNCHANGED <<cacheVars, options, swiftVars, broken>>

At(p, label) == pc[p] = label /\ UNCHANGED <<req, options>>
Goto(p, label) == pc' = [pc EXCEPT ![p] = label] /\ UNCHANGED reply
Answer(p, a) == pc' = [pc EXCEPT ![p] = "answer"] /\ reply' = [reply EXCEPT ![p] = a]
Keeps(p, S) == kept' = [kept EXCEPT ![p] = S]
Asks(p, S) == todo' = [todo EXCEPT ![p] = S]

(* Lookup ignores the error of the ReadDirAll it calls.                    *)
ListingFails(p) == IF req[p].op = "lookup" THEN Goto(p, "get") ELSE Answer(p, "EIO")
ListingEnds(p) == IF req[p].op = "lookup" THEN Goto(p, "get") ELSE Answer(p, "OK")

SwiftFails == faults < MaxFaults /\ faults' = faults + 1

(* ContainerCreate: fine if the container is there, unless it has another  *)
(* storage policy than the one that is asked for.                          *)
Made(c) == [x \in Exists \cup {c} |-> IF x \in Exists THEN stored[x] ELSE "ours"]
Conflict(c) == c \in Exists /\ stored[c] = "other"
ContainerCreates(c) == ~Conflict(c) /\ stored' = Made(c) /\ UNCHANGED faults
ContainerCreateFails(c) ==
  \/ Conflict(c) /\ UNCHANGED <<stored, faults>>
  \/ ~Conflict(c) /\ SwiftFails /\ stored' \in {stored, Made(c)}

-----------------------------------------------------------------------------
(* Mkdir.                                                                  *)
MkdirPutBase(p) ==
  LET c == req[p].name
  IN  /\ At(p, "putbase")
      /\ \/ ContainerCreates(c) /\ Goto(p, "putsegments")
         \/ ContainerCreateFails(c) /\ Answer(p, "EIO")
      /\ UNCHANGED <<cacheVars, at, changes, todo, kept, broken>>

MkdirPutSegments(p) ==
  LET c == Segments[req[p].name]
  IN  /\ At(p, "putsegments")
      /\ \/ ContainerCreates(c) /\ Goto(p, "set")
         \/ ContainerCreateFails(c) /\ Answer(p, "EIO")
      /\ UNCHANGED <<cacheVars, at, changes, todo, kept, broken>>

MkdirSet(p) ==
  /\ At(p, "set")
  /\ Set(Top, req[p].name)
  /\ broken' = broken \ {req[p].name}
  /\ Answer(p, "OK")
  /\ UNCHANGED <<swiftVars, todo, kept>>

-----------------------------------------------------------------------------
(* Remove: the segment container, then the container, then the cache.      *)
(* What is not there need not be deleted.                                  *)
DeleteStrictly(p, c, next) ==  \* mutant: a missing container is an error
  LET left == [x \in Exists \ {c} |-> stored[x]]
      lost == {n \in Names : c \in Pair(n)}
  IN  \/ Full(c) /\ Answer(p, "ENOTEMPTY") /\ UNCHANGED <<stored, faults, broken>>
      \/ c \notin Exists /\ Answer(p, "EIO") /\ UNCHANGED <<stored, faults, broken>>
      \/ /\ c \in Exists /\ ~Full(c) /\ stored' = left /\ broken' = broken \cup lost
         /\ Goto(p, next) /\ UNCHANGED faults
      \/ /\ c \in Exists /\ ~Full(c) /\ SwiftFails /\ Answer(p, "EIO")
         /\ \/ UNCHANGED <<stored, broken>>
            \/ stored' = left /\ broken' = broken \cup lost
DeleteContainer(p, c, next) ==
  LET left == [x \in Exists \ {c} |-> stored[x]]
      lost == {n \in Names : c \in Pair(n)}
  IN  \/ Full(c) /\ Answer(p, "ENOTEMPTY") /\ UNCHANGED <<stored, faults, broken>>
      \/ c \notin Exists /\ Goto(p, next) /\ UNCHANGED <<stored, faults, broken>>
      \/ /\ c \in Exists /\ ~Full(c) /\ stored' = left /\ broken' = broken \cup lost
         /\ Goto(p, next) /\ UNCHANGED faults
      \/ /\ SwiftFails /\ Answer(p, "EIO")
         /\ \/ UNCHANGED <<stored, broken>>
            \/ c \in Exists /\ ~Full(c) /\ stored' = left /\ broken' = broken \cup lost

RemoveSegments(p) ==
  /\ At(p, "deletesegments")
  /\ DeleteContainer(p, Segments[req[p].name], "deletebase")
  /\ UNCHANGED <<cacheVars, at, changes, todo, kept>>

RemoveBase(p) ==
  /\ At(p, "deletebase")
  /\ DeleteContainer(p, req[p].name, "uncache")
  /\ UNCHANGED <<cacheVars, at, changes, todo, kept>>

RemoveUncache(p) ==
  /\ At(p, "uncache")
  /\ Delete(Top, req[p].name)
  /\ Answer(p, "OK")
  /\ UNCHANGED <<swiftVars, todo, kept, broken>>

-----------------------------------------------------------------------------
(* ReadDirAll and Lookup.  With a storage policy a HEAD request tells the  *)
(* one of each container, and the others are left out.                     *)
LookupPeek(p) ==
  /\ At(p, "peek")
  /\ Goto(p, IF PeekFound(Top) THEN "get" ELSE "getall")
  /\ UNCHANGED <<cacheVars, swiftVars, todo, kept, broken>>

ReadDirAllCached(p) ==
  /\ At(p, "getall")
  /\ GetAll(Top)
  /\ IF GetAllHit(Top) THEN ListingEnds(p) ELSE Goto(p, "fetch")
  /\ UNCHANGED <<swiftVars, todo, kept, broken>>

ReadDirAllFetch(p) ==
  /\ At(p, "fetch")
  /\ \/ /\ IF options.policy THEN Asks(p, Exists) /\ Keeps(p, {})
                             ELSE Asks(p, {}) /\ Keeps(p, Exists)
        /\ Goto(p, "head") /\ UNCHANGED faults
     \/ SwiftFails /\ ListingFails(p) /\ UNCHANGED <<todo, kept>>
  /\ UNCHANGED <<cacheVars, stored, at, changes, broken>>

ReadDirAllHead(p) ==
  /\ At(p, "head")
  /\ \/ todo[p] = {} /\ Goto(p, "create") /\ UNCHANGED <<faults, todo, kept>>
     \/ \E c \in todo[p] \cap Exists :
          /\ Asks(p, todo[p] \ {c})
          /\ Keeps(p, kept[p] \cup (IF stored[c] = "ours" THEN {c} ELSE {}))
          /\ Goto(p, "head") /\ UNCHANGED faults
     \/ /\ todo[p] # {} /\ ListingFails(p) /\ UNCHANGED <<todo, kept>>
        /\ SwiftFails \/ (~(todo[p] \subseteq Exists) /\ UNCHANGED faults)
  /\ UNCHANGED <<cacheVars, stored, at, changes, broken>>

(* A segment container that is missing is made and then asked for; if that *)
(* fails, so does the listing.                                             *)
CreateMissingOrNot(p) ==  \* mutant: the listing goes on without it
  /\ At(p, "create")
  /\ \/ Missing(kept[p]) = {} /\ Goto(p, "addall") /\ UNCHANGED <<stored, faults, todo>>
     \/ \E n \in Missing(kept[p]) :
          \/ ContainerCreates(Segments[n]) /\ Asks(p, {Segments[n]}) /\ Goto(p, "headnew")
          \/ ContainerCreateFails(Segments[n]) /\ Goto(p, "addall") /\ UNCHANGED todo
  /\ UNCHANGED <<cacheVars, at, changes, kept, broken>>
CreateMissingNever(p) ==  \* mutant: segment containers are not made
  /\ At(p, "create")
  /\ Goto(p, "addall") /\ UNCHANGED <<stored, faults, todo>>
  /\ UNCHANGED <<cacheVars, at, changes, kept, broken>>
CreateMissing(p) ==
  /\ At(p, "create")
  /\ \/ Missing(kept[p]) = {} /\ Goto(p, "addall") /\ UNCHANGED <<stored, faults, todo>>
     \/ \E n \in Missing(kept[p]) :
          \/ ContainerCreates(Segments[n]) /\ Asks(p, {Segments[n]}) /\ Goto(p, "headnew")
          \/ ContainerCreateFails(Segments[n]) /\ ListingFails(p) /\ UNCHANGED todo
  /\ UNCHANGED <<cacheVars, at, changes, kept, broken>>

HeadCreated(p) ==
  /\ At(p, "headnew")
  /\ \/ /\ todo[p] \subseteq Exists /\ Keeps(p, kept[p] \cup todo[p])
        /\ Goto(p, "create") /\ UNCHANGED faults
     \/ /\ ListingFails(p) /\ UNCHANGED kept
        /\ SwiftFails \/ (~(todo[p] \subseteq Exists) /\ UNCHANGED faults)
  /\ UNCHANGED <<cacheVars, stored, at, changes, todo, broken>>

ReadDirAllFill(p) ==
  /\ At(p, "addall")
  /\ AddAll(Top, Bases(kept[p]))
  /\ broken' = {}
  /\ ListingEnds(p)
  /\ UNCHANGED <<swiftVars, todo, kept>>

LookupGet(p) ==
  /\ At(p, "get")
  /\ Answer(p, IF GetFound(Top, req[p].name) THEN "OK" ELSE "ENOENT")
  /\ UNCHANGED <<cacheVars, swiftVars, todo, kept, broken>>

-----------------------------------------------------------------------------
(* Other clients make and remove containers.                               *)
OtherClient ==
  /\ changes < MaxChanges /\ changes' = changes + 1
  /\ \E c \in Containers :
       \/ \E policy \in Policies :
            c \notin Exists /\ stored' = [x \in Exists \cup {c} |-> IF x = c THEN policy ELSE stored[x]]
       \/ c \in Exists /\ ~Full(c) /\ stored' = [x \in Exists \ {c} |-> stored[x]]
  /\ UNCHANGED <<cacheVars, options, at, faults, localVars, broken>>

(* Files in the containers come and go; a file that becomes too large for  *)
(* one object is copied to the segment container, then deleted             *)
(* (ObjectHandle!MoveCopy, MoveDelete).                                    *)
Upload(u) == at[u] = {} /\ \E c \in Exists : at' = [at EXCEPT ![u] = {c}]
MoveCopy(u) ==
  \E n \in Names : /\ at[u] = {n} /\ Segments[n] \in Exists
                   /\ at' = [at EXCEPT ![u] = Pair(n)]
DeleteData(u) == \E c \in at[u] : at' = [at EXCEPT ![u] = @ \ {c}]
DataChange ==
  /\ \E u \in Units : Upload(u) \/ MoveCopy(u) \/ DeleteData(u)
  /\ UNCHANGED <<cacheVars, options, stored, faults, changes, localVars, broken>>

TimePasses == Tick /\ UNCHANGED <<options, swiftVars, localVars, broken>>

Serve(p) ==
  \/ MkdirPutBase(p) \/ MkdirPutSegments(p) \/ MkdirSet(p)
  \/ RemoveSegments(p) \/ RemoveBase(p) \/ RemoveUncache(p)
  \/ LookupPeek(p) \/ ReadDirAllCached(p) \/ ReadDirAllFetch(p) \/ ReadDirAllHead(p)
  \/ CreateMissing(p) \/ HeadCreated(p) \/ ReadDirAllFill(p) \/ LookupGet(p)

-----------------------------------------------------------------------------
(* Remove answers OK when both containers are gone, also when an earlier   *)
(* one was refused or failed between the two: what is missing is no error, *)
(* so that it can be tried again.  (One mount.)                            *)
RemovedInPair(p) ==
  pc[p] = "answer" /\ req[p].op = "remove" /\ changes = 0 =>
    /\ reply[p] = "OK" => Pair(req[p].name) \cap Exists = {}
    /\ reply[p] = "EIO" => faults > 0
RemovedInPairs == \A p \in Procs : RemovedInPair(p)

(* root.go:91: a segment container that is missing is made by a listing,   *)
(* however it got lost: if a container stays, and the account is listed    *)
(* now and then without an error, it has its segment container again and   *)
(* again.  A segment container with another storage policy than its        *)
(* container's makes every listing fail instead.                           *)
Listed == \E p \in Procs : pc[p] = "answer" /\ req[p].op = "readdir" /\ reply[p] = "OK"
SegmentsReturn ==
  \A n \in Bases(Names) :
    (<>[](n \in Visible) /\ []<>Listed) => []<>(Segments[n] \in Exists)
=============================================================================
