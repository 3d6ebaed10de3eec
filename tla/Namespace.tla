------------------------------ MODULE Namespace ------------------------------
(***************************************************************************)
(* What the kernel is promised of a mounted container: a tree of names,    *)
(* without caches, listings or Swift.  A request is called, changes the    *)
(* tree in at most two steps, and is answered according to the tree at the *)
(* moment of its answer.  A rename is not atomic, the new name appears     *)
(* before the old one goes; a removal or a rename may be refused, but then *)
(* it changed nothing.                                                     *)
(***************************************************************************)
EXTENDS FiniteSets

CONSTANTS Procs, Top, Dirs, Files, Requests, NoRequest

VARIABLES
  names,   \* the tree: <<d, n>>, n in directory d
  phase,   \* of each process: "idle", "called", "changed", "answered"
  want,    \* the request it called
  answer   \* what it was answered: a word and a set of names

nsVars == <<names, phase, want, answer>>

SubDirs == Dirs \ {Top}
AllNames == Files \cup SubDirs
In(d) == {n \in AllNames : <<d, n>> \in names}
Old(r) == <<r.dir, r.name>>
New(r) == <<r.todir, r.toname>>

NSInit ==
  /\ names \subseteq (Dirs \X Files) \cup ({Top} \X SubDirs)
  /\ phase = [p \in Procs |-> "idle"]
  /\ want = [p \in Procs |-> NoRequest]
  /\ answer = [p \in Procs |-> <<"none", {}>>]

NSCall(p) ==
  /\ phase[p] = "idle" /\ phase' = [phase EXCEPT ![p] = "called"]
  /\ \E r \in Requests : want' = [want EXCEPT ![p] = r]
  /\ UNCHANGED <<names, answer>>

(* The name a request makes appears, once.                                 *)
NSAdd(p) ==
  /\ phase[p] = "called" /\ phase' = [phase EXCEPT ![p] = "changed"]
  /\ want[p].op \in {"create", "symlink", "mkdir", "link", "rename"}
  /\ names' = names \cup {New(want[p])}
  /\ UNCHANGED <<want, answer>>

(* The name of a removal goes, but no directory with names in it does.     *)
NSDrop(p) ==
  LET r == want[p]
  IN  /\ phase[p] = "called" /\ phase' = [phase EXCEPT ![p] = "changed"]
      /\ r.op = "remove" /\ Old(r) \in names
      /\ r.name \in SubDirs => In(r.name) = {}
      /\ names' = names \ {Old(r)}
      /\ UNCHANGED <<want, answer>>

(* The old name of a rename goes while the new one is there, and that is   *)
(* its answer.                                                             *)
NSMoved(p) ==
  LET r == want[p]
  IN  /\ phase[p] = "changed" /\ phase' = [phase EXCEPT ![p] = "answered"]
      /\ r.op = "rename" /\ New(r) \in names /\ Old(r) \in names
      /\ names' = names \ {Old(r)}
      /\ answer' = [answer EXCEPT ![p] = <<"OK", {}>>]
      /\ UNCHANGED want

(* The answers that are right to a request before and after it changed the *)
(* tree.                                                                   *)
RightUnchanged(r, word, children) ==
  \/ r.op = "readdir" /\ word = "OK" /\ children = In(r.dir)
  \/ /\ children = {}
     /\ \/ r.op = "lookup" /\ word = IF Old(r) \in names THEN "OK" ELSE "ENOENT"
        \/ r.op \in {"remove", "rename"} /\ word = "ENOTSUP"
        \/ /\ r.op = "remove" /\ word = "ENOTEMPTY"
           /\ r.name \in SubDirs /\ In(r.name) # {}

RightChanged(r, word, children) ==
  /\ word = "OK" /\ children = {}
  /\ r.op # "rename"
  /\ IF r.op = "remove" THEN Old(r) \notin names ELSE New(r) \in names

NSAnswer(p) ==
  /\ \E word \in {"OK", "ENOENT", "ENOTEMPTY", "ENOTSUP"}, children \in SUBSET AllNames :
       /\ \/ phase[p] = "called" /\ RightUnchanged(want[p], word, children)
          \/ phase[p] = "changed" /\ RightChanged(want[p], word, children)
       /\ answer' = [answer EXCEPT ![p] = <<word, children>>]
  /\ phase' = [phase EXCEPT ![p] = "answered"]
  /\ UNCHANGED <<names, want>>

NSReturn(p) ==
  /\ phase[p] = "answered" /\ phase' = [phase EXCEPT ![p] = "idle"]
  /\ want' = [want EXCEPT ![p] = NoRequest]
  /\ answer' = [answer EXCEPT ![p] = <<"none", {}>>]
  /\ UNCHANGED names

NSNext == \E p \in Procs :
  NSCall(p) \/ NSAdd(p) \/ NSDrop(p) \/ NSMoved(p) \/ NSAnswer(p) \/ NSReturn(p)
NSSpec == NSInit /\ [][NSNext]_nsVars
=============================================================================
