----------------------------- MODULE ObjectLock -----------------------------
(***************************************************************************)
(* Who may write an object: the mutex of its node and the cache of         *)
(* changing objects (svfs/object.go, svfs/handle.go, SimpleCache of        *)
(* svfs/cache.go), for the one node of one path.                           *)
(*                                                                         *)
(* A goroutine serves each request.  Opening for writing locks the mutex,  *)
(* and it stays locked when the request has been answered; the Release of  *)
(* the handle unlocks it, if the cache says that the object is changing.   *)
(* Go's mutexes have no owner: whoever unlocks one, it is unlocked, and    *)
(* unlocking one that is not locked ends the program.                      *)
(*                                                                         *)
(* Changing the mtime or an extended attribute of an object that is being  *)
(* written waits for the mutex.  Without Sharing, applications do it as    *)
(* docs/FAQ.md tells rsync to: when they have closed the file, and nobody  *)
(* else has it open for writing.  The kernel answers close(2) before it    *)
(* sends the Release, so that the two still race.                          *)
(***************************************************************************)
EXTENDS Naturals

CONSTANTS
  Writers,  \* handles opened for writing, one after the other each
  Readers,  \* handles opened for reading
  Updaters, \* requests that change attributes: Setattr, Setxattr, Removexattr
  Sharing   \* applications read a file, or change its attributes, while
            \* another one has it open for writing

ASSUME LockAssumption ==
  /\ Writers \cap Readers = {} /\ Writers \cap Updaters = {} /\ Readers \cap Updaters = {}
  /\ Sharing \in BOOLEAN

Handles == Writers \cup Readers
Processes == Handles \cup Updaters

VARIABLES
  pc,        \* where each of them is
  locked,    \* the mutex of the node
  changing,  \* the object is in changeCache
  writing,   \* the flag of the node
  wd,        \* whether the handle's upload has begun and not ended
  fatal      \* the program has ended: an unlocked mutex was unlocked

vars == <<pc, locked, changing, writing, wd, fatal>>

(* The steps of a Release; those of a handle that is open; those of an     *)
(* update of the attributes.                                               *)
Releasing == {"release", "unmark", "exist", "remove", "unlock"}
Opened == {"add", "mark", "open"}
Updating == {"check", "wait", "post", "held"}

TypeOK ==
  /\ pc \in [Processes -> {"idle", "lock"} \cup Opened \cup Releasing \cup Updating]
  /\ \A h \in Handles : pc[h] \notin Updating
  /\ \A u \in Updaters : pc[u] \in {"idle"} \cup Updating
  /\ locked \in BOOLEAN /\ changing \in BOOLEAN /\ writing \in BOOLEAN /\ fatal \in BOOLEAN
  /\ wd \in [Handles -> BOOLEAN]

Init ==
  /\ pc = [p \in Processes |-> "idle"]
  /\ locked = FALSE /\ changing = FALSE /\ writing = FALSE /\ fatal = FALSE
  /\ wd = [h \in Handles |-> FALSE]

Goes(p, from, to) == ~fatal /\ pc[p] = from /\ pc' = [pc EXCEPT ![p] = to]
Idle(S) == \A p \in S : pc[p] = "idle"
ClosedByWriters == \A w \in Writers : pc[w] \in {"idle"} \cup Releasing

-----------------------------------------------------------------------------
(* Object.open, for writing: the mutex, then the cache.                    *)
Open(w) ==
  /\ Sharing \/ Idle(Readers \cup Updaters)
  /\ Goes(w, "idle", "lock")
  /\ UNCHANGED <<locked, changing, writing, wd, fatal>>

LockAnyway(w) ==  \* mutant: opening does not wait for the mutex
  /\ Goes(w, "lock", "add") /\ locked' = TRUE
  /\ UNCHANGED <<changing, writing, wd, fatal>>
Lock(w) ==
  /\ Goes(w, "lock", "add")
  /\ ~locked /\ locked' = TRUE
  /\ UNCHANGED <<changing, writing, wd, fatal>>

Add(w) ==
  /\ Goes(w, "add", "open") /\ changing' = TRUE
  /\ UNCHANGED <<locked, writing, wd, fatal>>

(* Object.open, for reading.                                               *)
OpenRead(r) ==
  /\ Sharing \/ Idle(Writers)
  /\ Goes(r, "idle", "open")
  /\ UNCHANGED <<locked, changing, writing, wd, fatal>>

(* The first Write of a handle starts an upload, then marks the node; the  *)
(* later ones change nothing here.                                         *)
Truncate(w) ==
  /\ Goes(w, "open", "mark")
  /\ ~wd[w] /\ wd' = [wd EXCEPT ![w] = TRUE]
  /\ UNCHANGED <<locked, changing, writing, fatal>>

Mark(w) ==
  /\ Goes(w, "mark", "open") /\ writing' = TRUE
  /\ UNCHANGED <<locked, changing, wd, fatal>>

(* The application closes the file.                                        *)
Close(h) ==
  /\ Goes(h, "open", "release")
  /\ UNCHANGED <<locked, changing, writing, wd, fatal>>

-----------------------------------------------------------------------------
(* ObjectHandle.Release: the upload ends, the mark goes, and if the object *)
(* is changing it is taken out of the cache and the mutex is unlocked.     *)
CloseWriter(h) ==
  /\ Goes(h, "release", IF wd[h] THEN "unmark" ELSE "exist")
  /\ wd' = [wd EXCEPT ![h] = FALSE]
  /\ UNCHANGED <<locked, changing, writing, fatal>>

UnmarkNever(h) ==  \* mutant: the mark stays when the handle is released
  /\ Goes(h, "unmark", "exist")
  /\ UNCHANGED <<locked, changing, writing, wd, fatal>>
Unmark(h) ==
  /\ Goes(h, "unmark", "exist") /\ writing' = FALSE
  /\ UNCHANGED <<locked, changing, wd, fatal>>

Exist(h) ==
  /\ Goes(h, "exist", IF changing THEN "remove" ELSE "idle")
  /\ UNCHANGED <<locked, changing, writing, wd, fatal>>

Remove(h) ==
  /\ Goes(h, "remove", "unlock") /\ changing' = FALSE
  /\ UNCHANGED <<locked, writing, wd, fatal>>

Unlock(h) ==
  /\ Goes(h, "unlock", "idle")
  /\ locked' = FALSE /\ fatal' = ~locked
  /\ UNCHANGED <<changing, writing, wd>>

-----------------------------------------------------------------------------
(* Setattr of an mtime, Setxattr, Removexattr: a request to Swift, with    *)
(* the mutex if the object is being written; or an answer at once, before  *)
(* anybody looks at the mark, if there is nothing to change.               *)
Update(u) ==
  /\ Sharing \/ ClosedByWriters
  /\ Goes(u, "idle", "check")
  /\ UNCHANGED <<locked, changing, writing, wd, fatal>>

AnswerAtOnce(u) ==
  /\ Goes(u, "check", "idle")
  /\ UNCHANGED <<locked, changing, writing, wd, fatal>>

CheckNothing(u) ==  \* mutant: the request does not wait for the writer
  /\ Goes(u, "check", "post")
  /\ UNCHANGED <<locked, changing, writing, wd, fatal>>
Check(u) ==
  /\ Goes(u, "check", IF writing THEN "wait" ELSE "post")
  /\ UNCHANGED <<locked, changing, writing, wd, fatal>>

Acquire(u) ==
  /\ Goes(u, "wait", "held")
  /\ ~locked /\ locked' = TRUE
  /\ UNCHANGED <<changing, writing, wd, fatal>>

PostUnlocks(u) ==  \* mutant: the mutex is unlocked even if it was not taken
  /\ Goes(u, "post", "idle")
  /\ locked' = FALSE /\ fatal' = ~locked
  /\ UNCHANGED <<changing, writing, wd>>
Post(u) ==
  /\ Goes(u, "post", "idle")
  /\ UNCHANGED <<locked, changing, writing, wd, fatal>>

PostKeepsLock(u) ==  \* mutant: the mutex stays locked
  /\ Goes(u, "held", "idle")
  /\ UNCHANGED <<locked, changing, writing, wd, fatal>>
PostAndUnlock(u) ==
  /\ Goes(u, "held", "idle")
  /\ locked' = FALSE /\ fatal' = ~locked
  /\ UNCHANGED <<changing, writing, wd>>

-----------------------------------------------------------------------------
Serve(h) == CloseWriter(h) \/ Unmark(h) \/ Exist(h) \/ Remove(h) \/ Unlock(h)

Next ==
  \/ \E w \in Writers : Open(w) \/ Lock(w) \/ Add(w) \/ Truncate(w) \/ Mark(w)
  \/ \E r \in Readers : OpenRead(r)
  \/ \E h \in Handles : Close(h) \/ Serve(h)
  \/ \E u \in Updaters : Update(u) \/ AnswerAtOnce(u) \/ Check(u) \/ Acquire(u) \/ Post(u) \/ PostAndUnlock(u)

Spec == Init /\ [][Next]_vars

(* The goroutines go on; a mutex that is unlocked again and again is one   *)
(* day given to a goroutine that waits for it, as Go's mutexes hand        *)
(* themselves over to the one that has waited longest; and applications    *)
(* close the files they have opened.                                       *)
Fairness ==
  /\ \A w \in Writers : SF_vars(Lock(w)) /\ WF_vars(Add(w)) /\ WF_vars(Mark(w))
  /\ \A h \in Handles : WF_vars(Close(h)) /\ WF_vars(Serve(h))
  /\ \A u \in Updaters :
       WF_vars(AnswerAtOnce(u) \/ Check(u)) /\ SF_vars(Acquire(u)) /\ WF_vars(Post(u) \/ PostAndUnlock(u))
FairSpec == Spec /\ Fairness

-----------------------------------------------------------------------------
(* Who holds the mutex, by where it is.                                    *)
Holds(p) ==
  \/ p \in Writers /\ pc[p] \in Opened \cup Releasing
  \/ p \in Updaters /\ pc[p] = "held"

(* handle.go:79-82: while a file is being written, and until its handle is *)
(* released, nobody else gets the lock of the object.                      *)
OneHolder == \A p, q \in Processes : Holds(p) /\ Holds(q) => p = q

(* Unlocking a mutex that nobody holds would end svfs (handle.go:55,       *)
(* object.go:126, 162, 185).                                               *)
NeverFatal == ~fatal

(* Object.Setattr, Setxattr, Removexattr: no request that changes the      *)
(* attributes is on its way while the object is still being uploaded: the  *)
(* upload replaces the object and would lose the attributes.               *)
UpdateAfterUpload ==
  \A u \in Updaters, w \in Writers : pc[u] \in {"post", "held"} => ~wd[w]

(* The mutex, the cache of changing objects and the mark of the node agree *)
(* with where the handles are (object.go:263-264, handle.go:50-57, 83),    *)
(* which is what makes the above hold from step to step.                   *)
LockedByHolder == locked <=> \E p \in Processes : Holds(p)
ChangingByWriter ==
  /\ changing <=> \E w \in Writers : pc[w] \in (Opened \cup Releasing) \ {"add", "unlock"}
  /\ \A r \in Readers : pc[r] \notin {"remove", "unlock"}
MarkedByWriter ==
  /\ writing => \E w \in Writers : wd[w] \/ pc[w] = "unmark"
  /\ \A w \in Writers :
       /\ wd[w] => pc[w] \in {"mark", "open", "release"}
       /\ pc[w] = "mark" => wd[w]
       /\ wd[w] /\ pc[w] # "mark" => writing
Apart ==
  /\ Idle(Updaters) \/ ClosedByWriters
  /\ Idle(Readers) \/ Idle(Writers)
LockInvariant == TypeOK /\ LockedByHolder /\ ChangingByWriter /\ MarkedByWriter /\ Apart

(* object.go:263, 125, 161, 184: who waits for the mutex gets it.          *)
Served ==
  /\ \A w \in Writers : pc[w] = "lock" ~> pc[w] = "open"
  /\ \A u \in Updaters : pc[u] = "wait" ~> pc[u] = "idle"
=============================================================================
