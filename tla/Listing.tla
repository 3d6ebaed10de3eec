------------------------------- MODULE Listing -------------------------------
(***************************************************************************)
(* ReadDirAll of a directory that is not cached (svfs/directory.go) and    *)
(* the lister that fetches what a listing does not tell (svfs/lister.go).  *)
(*                                                                         *)
(* A listing makes a channel of results, goes through the objects, hands   *)
(* those that need a HEAD request to the lister, counts them, receives as  *)
(* many results as it counted, and closes the channel.  AddTask starts a   *)
(* goroutine that sends the task; Workers serve the tasks of all listings. *)
(* Go's channels are FIFO and so are the goroutines blocked on one, so the *)
(* task channel with its blocked senders is one queue without a bound; a   *)
(* result channel's bound matters, as it is workers that block on it.      *)
(*                                                                         *)
(* An object that is being written comes from the cache of changing        *)
(* objects instead, which a Release may change at any time: the kernel     *)
(* does not hold the directory's lock for it.                              *)
(***************************************************************************)
EXTENDS Integers, FiniteSets, Sequences

CONSTANTS
  Listings,           \* concurrent ReadDirAll calls
  Nodes,              \* what each of them finds in its directory
  Detailed,           \* the nodes that need a HEAD: large objects, symlinks,
                      \* and everything with the attr and xattr options
  Workers,            \* the lister's goroutines
  ListerConcurrency,  \* how many they are, and the result channels' bound
  MaxOpens            \* bound on the opens for writing

ASSUME ListingAssumption ==
  /\ IsFiniteSet(Nodes) /\ Detailed \subseteq Nodes
  /\ IsFiniteSet(Workers) /\ ListerConcurrency = Cardinality(Workers)
  /\ ListerConcurrency > 0
  /\ MaxOpens \in Nat

Tasks == Listings \X Nodes
NoTask == << >>

VARIABLES
  phase,     \* of a listing: "idle", "loop", "get", "wait", "answer"
  todo,      \* the objects its loop has still to look at
  current,   \* the object it found in the cache of changing objects
  count,     \* the tasks it added
  done,      \* the results it received
  children,  \* the nodes it answers and caches
  spawned,   \* the tasks whose goroutine has not got to its send yet
  taskChan,  \* the task channel and the goroutines blocked on it
  work,      \* the task of each worker
  fetched,   \* whether the worker has its HEAD answer, and now sends it
  results,   \* the result channel of each listing
  changing,  \* changeCache: the objects open for writing
  opens,     \* how many opens there have been
  released   \* history: the objects released between a listing's Exist and Get

listVars == <<phase, todo, current, count, done, children>>
listerVars == <<spawned, taskChan, work, fetched>>
changeVars == <<changing, opens, released>>
vars == <<listVars, listerVars, results, changeVars>>

TypeOK ==
  /\ phase \in [Listings -> {"idle", "loop", "get", "wait", "answer"}]
  /\ todo \in [Listings -> SUBSET Nodes]
  /\ current \in [Listings -> SUBSET Nodes]
  /\ count \in [Listings -> Nat] /\ done \in [Listings -> Nat]
  /\ children \in [Listings -> SUBSET Nodes]
  /\ spawned \subseteq Tasks
  /\ taskChan \in Seq(Tasks)
  /\ work \in [Workers -> Tasks \cup {NoTask}]
  /\ fetched \in [Workers -> BOOLEAN]
  /\ results \in [Listings -> Seq(Nodes)]
  /\ \A l \in Listings : Len(results[l]) <= ListerConcurrency
  /\ changing \subseteq Nodes /\ opens \in 0 .. MaxOpens
  /\ released \in [Listings -> SUBSET Nodes]

Init ==
  /\ phase = [l \in Listings |-> "idle"]
  /\ todo = [l \in Listings |-> {}]
  /\ current = [l \in Listings |-> {}]
  /\ count = [l \in Listings |-> 0] /\ done = [l \in Listings |-> 0]
  /\ children = [l \in Listings |-> {}]
  /\ spawned = {} /\ taskChan = << >>
  /\ work = [w \in Workers |-> NoTask]
  /\ fetched = [w \in Workers |-> FALSE]
  /\ results = [l \in Listings |-> << >>]
  /\ changing = {} /\ opens = 0
  /\ released = [l \in Listings |-> {}]

-----------------------------------------------------------------------------
(* ReadDirAll.                                                             *)
StartListing(l) ==
  /\ phase[l] = "idle"
  /\ phase' = [phase EXCEPT ![l] = "loop"]
  /\ todo' = [todo EXCEPT ![l] = Nodes]
  /\ count' = [count EXCEPT ![l] = 0] /\ done' = [done EXCEPT ![l] = 0]
  /\ children' = [children EXCEPT ![l] = {}]
  /\ released' = [released EXCEPT ![l] = {}]
  /\ UNCHANGED <<current, listerVars, results, changing, opens>>

AddTaskTwice(l, n) ==  \* mutant: counted once more than it is sent
  /\ spawned' = spawned \cup {<<l, n>>}
  /\ count' = [count EXCEPT ![l] = @ + 2]
  /\ UNCHANGED children
AddTask(l, n) ==
  /\ spawned' = spawned \cup {<<l, n>>}
  /\ count' = [count EXCEPT ![l] = @ + 1]
  /\ UNCHANGED children
AddChild(l, n) ==
  /\ children' = [children EXCEPT ![l] = @ \cup {n}]
  /\ UNCHANGED <<count, spawned>>

(* The order of the objects does not matter to what follows.  Every node   *)
(* is looked up in the cache of changing objects: symlinks and directories *)
(* are never in it.                                                        *)
LoopChanging(l) ==
  /\ phase[l] = "loop"
  /\ \E n \in todo[l] \cap changing :
       /\ phase' = [phase EXCEPT ![l] = "get"]
       /\ todo' = [todo EXCEPT ![l] = @ \ {n}]
       /\ current' = [current EXCEPT ![l] = {n}]
  /\ UNCHANGED <<count, done, children, listerVars, results, changeVars>>

LoopNode(l) ==
  /\ phase[l] = "loop"
  /\ \E n \in todo[l] \ changing :
       /\ todo' = [todo EXCEPT ![l] = @ \ {n}]
       /\ IF n \in Detailed THEN AddTask(l, n) ELSE AddChild(l, n)
  /\ UNCHANGED <<phase, current, done, taskChan, work, fetched, results, changeVars>>

(* changeCache.Get after changeCache.Exist: nil if the object was released *)
(* in between, and a nil child is not added.                               *)
LoopGetNothing(l) ==  \* mutant: an object being written is not listed
  /\ phase[l] = "get"
  /\ phase' = [phase EXCEPT ![l] = "loop"]
  /\ current' = [current EXCEPT ![l] = {}]
  /\ UNCHANGED <<todo, count, done, children, listerVars, results, changeVars>>
LoopGet(l) ==
  /\ phase[l] = "get"
  /\ phase' = [phase EXCEPT ![l] = "loop"]
  /\ children' = [children EXCEPT ![l] = @ \cup (current[l] \cap changing)]
  /\ current' = [current EXCEPT ![l] = {}]
  /\ UNCHANGED <<todo, count, done, listerVars, results, changeVars>>

(* Without a task there is nothing to wait for.                            *)
EndLoop(l) ==
  /\ phase[l] = "loop" /\ todo[l] = {}
  /\ phase' = [phase EXCEPT ![l] = IF count[l] > 0 THEN "wait" ELSE "answer"]
  /\ UNCHANGED <<todo, current, count, done, children, listerVars, results, changeVars>>

(* The receiving loop: it ends, and the channel is closed, with the result *)
(* that makes done equal to count.                                         *)
ReceiveEarly(l) ==  \* mutant: off by one, the channel is closed before the last result
  /\ phase[l] = "wait" /\ results[l] # << >>
  /\ children' = [children EXCEPT ![l] = @ \cup {Head(results[l])}]
  /\ results' = [results EXCEPT ![l] = Tail(@)]
  /\ done' = [done EXCEPT ![l] = @ + 1]
  /\ phase' = [phase EXCEPT ![l] = IF done'[l] + 1 >= count[l] THEN "answer" ELSE "wait"]
  /\ UNCHANGED <<todo, current, count, listerVars, changeVars>>
Receive(l) ==
  /\ phase[l] = "wait" /\ results[l] # << >>
  /\ children' = [children EXCEPT ![l] = @ \cup {Head(results[l])}]
  /\ results' = [results EXCEPT ![l] = Tail(@)]
  /\ done' = [done EXCEPT ![l] = @ + 1]
  /\ phase' = [phase EXCEPT ![l] = IF done'[l] = count[l] THEN "answer" ELSE "wait"]
  /\ UNCHANGED <<todo, current, count, listerVars, changeVars>>

Answered(l) ==
  /\ phase[l] = "answer"
  /\ phase' = [phase EXCEPT ![l] = "idle"]
  /\ UNCHANGED <<todo, current, count, done, children, listerVars, results, changeVars>>

-----------------------------------------------------------------------------
(* The lister.                                                             *)
SendTask(t) ==
  /\ t \in spawned
  /\ spawned' = spawned \ {t}
  /\ taskChan' = Append(taskChan, t)
  /\ UNCHANGED <<listVars, work, fetched, results, changeVars>>

TakeTask(w) ==
  /\ work[w] = NoTask /\ taskChan # << >>
  /\ work' = [work EXCEPT ![w] = Head(taskChan)]
  /\ taskChan' = Tail(taskChan)
  /\ UNCHANGED <<listVars, spawned, fetched, results, changeVars>>

FetchOrDrop(w) ==  \* mutant: no result if the HEAD fails
  /\ work[w] # NoTask /\ ~fetched[w]
  /\ \/ fetched' = [fetched EXCEPT ![w] = TRUE] /\ UNCHANGED work
     \/ work' = [work EXCEPT ![w] = NoTask] /\ UNCHANGED fetched
  /\ UNCHANGED <<listVars, spawned, taskChan, results, changeVars>>

(* The HEAD request; its error is ignored.                                 *)
FetchDetails(w) ==
  /\ work[w] # NoTask /\ ~fetched[w]
  /\ fetched' = [fetched EXCEPT ![w] = TRUE]
  /\ UNCHANGED <<listVars, spawned, taskChan, work, results, changeVars>>

SendResultBeyond(w) ==  \* mutant: off by one, the channel has room for one result more
  /\ fetched[w]
  /\ LET l == work[w][1]
     IN  /\ Len(results[l]) <= ListerConcurrency
         /\ results' = [results EXCEPT ![l] = Append(@, work[w][2])]
  /\ work' = [work EXCEPT ![w] = NoTask]
  /\ fetched' = [fetched EXCEPT ![w] = FALSE]
  /\ UNCHANGED <<listVars, spawned, taskChan, changeVars>>
SendResult(w) ==
  /\ fetched[w]
  /\ LET l == work[w][1]
     IN  /\ Len(results[l]) < ListerConcurrency
         /\ results' = [results EXCEPT ![l] = Append(@, work[w][2])]
  /\ work' = [work EXCEPT ![w] = NoTask]
  /\ fetched' = [fetched EXCEPT ![w] = FALSE]
  /\ UNCHANGED <<listVars, spawned, taskChan, changeVars>>

-----------------------------------------------------------------------------
(* Files are opened for writing and released meanwhile, which matters to a *)
(* listing that has found the object in the cache and not yet got it.      *)
OpenForWriting(n) ==
  /\ opens < MaxOpens /\ opens' = opens + 1
  /\ changing' = changing \cup {n}
  /\ UNCHANGED <<listVars, listerVars, results, released>>
Released(n) ==
  /\ n \in changing
  /\ changing' = changing \ {n}
  /\ released' = [l \in Listings |-> IF n \in current[l] THEN released[l] \cup {n} ELSE released[l]]
  /\ UNCHANGED <<listVars, listerVars, results, opens>>

ReadDirAll(l) ==
  LoopChanging(l) \/ LoopNode(l) \/ LoopGet(l) \/ EndLoop(l) \/ Receive(l) \/ Answered(l)
ProcessTasks(w) == TakeTask(w) \/ FetchDetails(w) \/ SendResult(w)

Next ==
  \/ \E l \in Listings : StartListing(l) \/ ReadDirAll(l)
  \/ \E t \in Tasks : SendTask(t)
  \/ \E w \in Workers : ProcessTasks(w)
  \/ \E n \in Nodes : OpenForWriting(n) \/ Released(n)

Spec == Init /\ [][Next]_vars

(* Every goroutine is scheduled, and a HEAD request is answered or times   *)
(* out.  Nobody is obliged to list, open or release anything.              *)
Fairness ==
  /\ \A l \in Listings : WF_vars(ReadDirAll(l))
  /\ \A t \in Tasks : WF_vars(SendTask(t))
  /\ \A w \in Workers : WF_vars(ProcessTasks(w))
FairSpec == Spec /\ Fairness

-----------------------------------------------------------------------------
(* A task is somewhere between AddTask and the result channel.             *)
Outstanding(l) ==
  {n \in Nodes : \/ <<l, n>> \in spawned
                 \/ \E i \in DOMAIN taskChan : taskChan[i] = <<l, n>>
                 \/ \E w \in Workers : work[w] = <<l, n>>
                 \/ \E i \in DOMAIN results[l] : results[l][i] = n}

(* A result channel is closed only once no goroutine will send to it any   *)
(* more (a send to a closed channel panics, and not in a request's         *)
(* goroutine: the process would die) and with nothing left in it.          *)
NoSendAfterClose ==
  \A l \in Listings : phase[l] \in {"idle", "answer"} => Outstanding(l) = {}

(* No worker waits for room in a listing's channel forever: the results a  *)
(* listing still expects are exactly those on their way.                   *)
NoResultLost ==
  \A l \in Listings : count[l] - done[l] = Cardinality(Outstanding(l))

(* The only nodes a listing can miss are those whose last writer released  *)
(* them between that listing's own Exist and Get (directory.go:175-176):   *)
(* no result is dropped, replaced or left behind, an object that is open   *)
(* for writing is listed, and so is one that was released before or later. *)
MissesOnlyReleased ==
  \A l \in Listings : phase[l] = "answer" => Nodes \ children[l] \subseteq released[l]

(* What makes the above hold from step to step: a task is in one place     *)
(* only, and not yet in any while its node is still to be looked at; a     *)
(* node that is not in the listing is still to be looked at, was found     *)
(* changing, is on its way, or was released between the two looks.         *)
InChan(l, n) == \E i \in DOMAIN taskChan : taskChan[i] = <<l, n>>
InWork(l, n) == \E w \in Workers : work[w] = <<l, n>>
InResults(l, n) == \E i \in DOMAIN results[l] : results[l][i] = n
NoRepeats(s) == \A i, j \in DOMAIN s : s[i] = s[j] => i = j

InOnePlace ==
  /\ \A l \in Listings, n \in Nodes :
       /\ n \in todo[l] => n \notin Outstanding(l)
       /\ <<l, n>> \in spawned => ~InChan(l, n) /\ ~InWork(l, n) /\ ~InResults(l, n)
       /\ InChan(l, n) => ~InWork(l, n) /\ ~InResults(l, n)
       /\ InWork(l, n) => ~InResults(l, n)
  /\ NoRepeats(taskChan)
  /\ \A l \in Listings : NoRepeats(results[l])
  /\ \A v, w \in Workers : work[v] # NoTask /\ work[v] = work[w] => v = w
  /\ \A w \in Workers : fetched[w] => work[w] # NoTask
Accounted ==
  \A l \in Listings :
    /\ phase[l] # "get" => current[l] = {}
    /\ phase[l] \in {"wait", "answer"} => todo[l] = {}
    /\ current[l] \subseteq changing \cup released[l]
    /\ phase[l] # "idle" =>
         Nodes \subseteq todo[l] \cup current[l] \cup children[l] \cup Outstanding(l) \cup released[l]
ListingInvariant == InOnePlace /\ Accounted

(* Every listing ends, however the workers are shared out among listings.  *)
ListingEnds == \A l \in Listings : phase[l] = "loop" ~> phase[l] = "answer"
=============================================================================
