---------------------------------- MODULE Mount ----------------------------------
(***************************************************************************)
(* svfs/fs.go over the root of the account: the start, on the account or   *)
(* on one container of it, and Statfs, whose numbers come from up to three *)
(* requests while data are written, moved to the segment container and     *)
(* deleted.                                                                *)
(***************************************************************************)
EXTENDS Root

CONSTANTS
  BlockSize,  \* option block-size, in units of data
  MaxInt      \* the largest int64; a uint64 is a number modulo 2 * (MaxInt + 1)

(* The suffix makes a name longer, and the account's bytes and its quota   *)
(* are int64 in Swift's answers.                                           *)
ASSUME MountAssumption ==
  /\ BlockSize \in Nat \ {0} /\ MaxInt \in Nat
  /\ \A n \in Names : Segments[n] # n /\ (Segments[n] \in Names => Segments[Segments[n]] # n)
  /\ Cardinality(Units \X Containers) <= MaxInt
  /\ \A o \in Options : o.quota <= MaxInt

VARIABLES
  mounted,  \* how far the start is
  usage,    \* what each Statfs has been told
  steady    \* history: the data that have been there since it began

vars == <<rootVars, mounted, usage, steady>>

NoUsage == [account |-> 0, base |-> 0, segments |-> 0]
Bytes(c) == Cardinality({u \in Units : c \in at[u]})
Account == Cardinality({s \in Units \X Containers : s[2] \in at[s[1]]})
Target == options.target
Scope == IF Target = NoTarget THEN Containers ELSE Pair(Target)

TypeOK ==
  /\ RootTypeOK
  /\ pc \in [Procs -> Labels \cup {"account", "base", "segments", "statfs"}]
  /\ mounted \in {"base", "segments", "create", "headnew", "yes", "failed", "panic"}
  /\ usage \in [Procs -> [account : Nat, base : Nat, segments : Nat]]
  /\ steady \in [Procs -> SUBSET Units]

Init ==
  /\ RootInit
  /\ mounted = IF Target = NoTarget THEN "yes" ELSE "base"
  /\ usage = [p \in Procs |-> NoUsage]
  /\ steady = [p \in Procs |-> {}]

-----------------------------------------------------------------------------
(* rootContainer, after which the container is served by Directory.  The   *)
(* result of createContainer is used before its error is looked at.        *)
Starting(from, to) ==
  /\ mounted = from /\ mounted' = to
  /\ UNCHANGED <<cacheVars, options, at, changes, localVars, broken, usage, steady>>
Reads == UNCHANGED <<stored, faults>>
ReadFails == SwiftFails /\ UNCHANGED stored

StartBase ==
  \/ Starting("base", "segments") /\ Target \in Exists /\ Reads
  \/ Starting("base", "failed") /\ Target \notin Exists /\ Reads
  \/ Starting("base", "failed") /\ ReadFails

StartSegmentsLeniently ==  \* mutant: other errors are taken for "not found is fine"
  \/ Starting("segments", "yes") /\ Segments[Target] \in Exists /\ Reads
  \/ Starting("segments", "create") /\ Segments[Target] \notin Exists /\ Reads
  \/ Starting("segments", "yes") /\ ReadFails
StartSegments ==
  \/ Starting("segments", "yes") /\ Segments[Target] \in Exists /\ Reads
  \/ Starting("segments", "create") /\ Segments[Target] \notin Exists /\ Reads
  \/ Starting("segments", "failed") /\ ReadFails

StartCreate ==
  \/ Starting("create", "headnew") /\ ContainerCreates(Segments[Target])
  \/ Starting("create", "panic") /\ ContainerCreateFails(Segments[Target])
StartHeadCreated ==
  \/ Starting("headnew", "yes") /\ Segments[Target] \in Exists /\ Reads
  \/ Starting("headnew", "panic") /\ Segments[Target] \notin Exists /\ Reads
  \/ Starting("headnew", "panic") /\ ReadFails

MountAgain == mounted \in {"failed", "panic"} /\ Starting(mounted, "base") /\ Reads

-----------------------------------------------------------------------------
(* Statfs.                                                                 *)
StartStatfs(p) ==
  /\ mounted = "yes" /\ pc[p] = "idle"
  /\ pc' = [pc EXCEPT ![p] = "account"]
  /\ steady' = [steady EXCEPT ![p] = {u \in Units : at[u] \cap Scope # {}}]
  /\ UNCHANGED <<cacheVars, options, swiftVars, req, todo, kept, reply, broken, mounted, usage>>

Asking(p, label) ==
  /\ At(p, label)
  /\ UNCHANGED <<cacheVars, stored, at, changes, todo, kept, broken, mounted, steady>>
StatfsFails(p) == SwiftFails /\ Answer(p, "EIO") /\ UNCHANGED usage
Told(p, field, n, next) ==
  usage' = [usage EXCEPT ![p][field] = n] /\ Goto(p, next) /\ UNCHANGED faults

StatfsAccount(p) ==
  /\ Asking(p, "account")
  /\ \/ Told(p, "account", Account, IF Target = NoTarget THEN "statfs" ELSE "base")
     \/ StatfsFails(p)

StatfsContainer(p, label, c, field, next) ==
  /\ Asking(p, label)
  /\ \/ c \in Exists /\ Told(p, field, Bytes(c), next)
     \/ StatfsFails(p)
     \/ c \notin Exists /\ Answer(p, "EIO") /\ UNCHANGED <<usage, faults>>
StatfsSwapped(p) ==  \* mutant: the segment container is asked for first
  \/ StatfsContainer(p, "base", Segments[Target], "segments", "segments")
  \/ StatfsContainer(p, "segments", Target, "base", "statfs")
StatfsContainers(p) ==
  \/ StatfsContainer(p, "base", Target, "base", "segments")
  \/ StatfsContainer(p, "segments", Segments[Target], "segments", "statfs")

StatfsEnds(p) ==
  /\ pc[p] = "statfs"
  /\ pc' = [pc EXCEPT ![p] = "idle"]
  /\ usage' = [usage EXCEPT ![p] = NoUsage] /\ steady' = [steady EXCEPT ![p] = {}]
  /\ UNCHANGED <<cacheVars, options, swiftVars, req, todo, kept, reply, broken, mounted>>

(* The numbers it answers: uint64(x) of a negative x is a huge number.     *)
Uint(i) == i % (2 * (MaxInt + 1))
BytesUsed(u) == IF Target = NoTarget THEN u.account ELSE u.base + u.segments
InUse(u) == BytesUsed(u) \div BlockSize
Bavail(u) ==
  IF options.quota > 0 THEN Uint(options.quota - u.account) \div BlockSize
  ELSE Uint(MaxInt \div BlockSize - InUse(u))
Blocks(u) ==
  IF options.quota = 0 THEN MaxInt \div BlockSize
  ELSE IF Target = NoTarget THEN options.quota \div BlockSize
  ELSE Uint(Bavail(u) + InUse(u))

-----------------------------------------------------------------------------
(* What is deleted is no longer steady.                                    *)
DataChanges ==
  /\ DataChange
  /\ steady' = [p \in Procs |-> {u \in steady[p] : at'[u] \cap Scope # {}}]
  /\ UNCHANGED <<mounted, usage>>

AnswerStatfs(p) == Return(p) /\ usage' = [usage EXCEPT ![p] = NoUsage]
                   /\ steady' = [steady EXCEPT ![p] = {}] /\ UNCHANGED mounted

ServeStatfs(p) == StatfsAccount(p) \/ StatfsContainers(p) \/ StatfsEnds(p) \/ AnswerStatfs(p)
StartMount == StartBase \/ StartSegments \/ StartCreate \/ StartHeadCreated \/ MountAgain

Next ==
  \/ StartMount
  \/ DataChanges
  \/ \E p \in Procs : StartStatfs(p) \/ ServeStatfs(p)
  \/ /\ (\E p \in Procs : Start(p) \/ Serve(p)) \/ OtherClient \/ TimePasses
     /\ UNCHANGED <<mounted, usage, steady>>
Spec == Init /\ [][Next]_vars

(* Goroutines are scheduled, Swift answers or its requests time out, the   *)
(* kernel takes its answers, and time passes.                              *)
Fairness ==
  /\ \A p \in Procs : WF_vars(Serve(p) /\ UNCHANGED <<mounted, usage, steady>>) /\ WF_vars(ServeStatfs(p))
  /\ WF_vars(TimePasses /\ UNCHANGED <<mounted, usage, steady>>)
FairSpec == Spec /\ Fairness

-----------------------------------------------------------------------------
(* What is mounted or in a cached listing of the account has its segment   *)
(* container, whichever requests failed when it was made or listed; it     *)
(* lacks it only after a Remove that was refused, failed or was of the     *)
(* other name of that container, until the next listing.  (One mount.)     *)
Served ==
  IF Target # NoTarget THEN IF mounted = "yes" THEN {Target} ELSE {}
  ELSE UNION {content[d].nodes : d \in DOMAIN content}
ServedInPairs ==
  changes = 0 => \A n \in Served : Pair(n) \subseteq Exists \/ n \in broken

(* Why both hold.  A request has the calls of its operation, and only when *)
(* the account is mounted; making and removing a directory happen alone.   *)
MkdirLabels == {"putbase", "putsegments", "set"}
RemoveLabels == {"deletesegments", "deletebase", "uncache"}
KnowsLabels == {"head", "create", "headnew", "addall"}
ReadLabels == {"peek", "getall", "fetch", "get"} \cup KnowsLabels
StatfsLabels == {"account", "base", "segments", "statfs"}
OwnCalls ==
  \A p \in Procs :
    /\ pc[p] \in MkdirLabels => req[p].op = "mkdir"
    /\ pc[p] \in RemoveLabels => req[p].op = "remove"
    /\ pc[p] \in ReadLabels => req[p].op \in ReadOps
    /\ pc[p] \in StatfsLabels \cup {"idle"} => req[p].op = "none"
    /\ req[p].op # "none" => Target = NoTarget
Alone ==
  \A p, q \in Procs : p # q /\ req[p].op \in {"mkdir", "remove"} => req[q].op = "none"

(* What each call relies on having found or done.                          *)
MountedPair ==
  /\ Target = NoTarget => mounted = "yes"
  /\ changes = 0 /\ Target # NoTarget =>
       /\ mounted \in {"segments", "create", "headnew", "yes"} => Target \in Exists
       /\ mounted = "yes" => Segments[Target] \in Exists
HalfDone(p) ==
  changes = 0 =>
    /\ pc[p] \in {"putsegments", "set"} => req[p].name \in Exists
    /\ pc[p] = "set" => Segments[req[p].name] \in Exists
    /\ pc[p] \in {"deletebase", "uncache"} => Segments[req[p].name] \notin Exists
    /\ pc[p] = "uncache" => req[p].name \notin Exists
Known(p) ==
  /\ changes = 0 /\ pc[p] \in KnowsLabels => kept[p] \subseteq Exists
  /\ pc[p] = "addall" => Missing(kept[p]) = {}

PairInvariant ==
  /\ OwnCalls /\ Alone /\ MountedPair
  /\ \A p \in Procs : HalfDone(p) /\ Known(p)
  /\ ServedInPairs /\ RemovedInPairs

(* What was there all along and not counted in the container is in its     *)
(* segment container, until that is counted too.                           *)
Counts(p) ==
  /\ steady[p] \subseteq {u \in Units : at[u] \cap Scope # {}}
  /\ pc[p] \in {"base", "segments"} => Target # NoTarget
  /\ pc[p] = "segments" =>
       \E counted \in SUBSET Units :
         /\ usage[p].base = Cardinality(counted)
         /\ \A u \in steady[p] \ counted : Target \notin at[u]
  /\ pc[p] = "statfs" => BytesUsed(usage[p]) \in Cardinality(steady[p]) .. 2 * MaxInt

(* A listing that is about to be cached knows its containers to be in      *)
(* pairs, a request relies on nothing that another can take back, and a    *)
(* Statfs has counted what it will not come across later: the invariant    *)
(* that the others follow from.  (The pairs: one mount.)                   *)
AccountInvariant == PairInvariant /\ \A p \in Procs : Counts(p)

(* fs.go:121-125: df's "used", the device size less the free blocks, takes *)
(* in all data that were there during the request, also those that were    *)
(* moved to the segment container meanwhile: the container is asked for    *)
(* first, and a move copies first.  An account over its quota has an       *)
(* enormous free space instead, unless one container is mounted.           *)
StatfsCountsAll ==
  \A p \in Procs :
    /\ pc[p] = "statfs"
    /\ Target # NoTarget \/ options.quota = 0 \/ usage[p].account <= options.quota
    => Uint(Blocks(usage[p]) - Bavail(usage[p])) >= Cardinality(steady[p]) \div BlockSize
=============================================================================
