-------------------------- MODULE ObjectLockProofs --------------------------
(***************************************************************************)
(* The lock of an object works, for any number of handles and requests, as *)
(* long as applications do not share a file that is open for writing.      *)
(***************************************************************************)
EXTENDS ObjectLock, TLAPS

(* The inductive invariant.                                                *)
Inv == LockInvariant /\ OneHolder /\ NeverFatal /\ UpdateAfterUpload

USE LockAssumption DEF Handles, Processes

(* It holds at the start.                                                 *)
LEMMA InvInit == Init => Inv
BY DEF Init, Inv, LockInvariant, TypeOK, LockedByHolder, ChangingByWriter, MarkedByWriter,
       Apart, OneHolder, NeverFatal, UpdateAfterUpload, Holds, Idle, ClosedByWriters,
       Opened, Releasing, Updating

(* Every step of every process keeps it.                                   *)
LEMMA InvStep ==
  ASSUME ~Sharing, Inv, [Next]_vars
  PROVE  Inv'
<1> USE DEF Inv, LockInvariant, TypeOK, LockedByHolder, ChangingByWriter, MarkedByWriter,
            Apart, OneHolder, NeverFatal, UpdateAfterUpload, Holds, Idle, ClosedByWriters,
            Opened, Releasing, Updating, Goes
<1>1. ASSUME NEW w \in Writers, Open(w) PROVE Inv'
  BY <1>1 DEF Open
<1>2. ASSUME NEW w \in Writers, Lock(w) PROVE Inv'
  BY <1>2 DEF Lock
<1>3. ASSUME NEW w \in Writers, Add(w) PROVE Inv'
  BY <1>3 DEF Add
<1>4. ASSUME NEW w \in Writers, Truncate(w) PROVE Inv'
  BY <1>4 DEF Truncate
<1>5. ASSUME NEW w \in Writers, Mark(w) PROVE Inv'
  <2>1. TypeOK' /\ Apart'
    BY <1>5 DEF Mark
  <2>2. LockedByHolder' /\ OneHolder'
    BY <1>5 DEF Mark
  <2>3. ChangingByWriter'
    BY <1>5 DEF Mark
  <2>4. MarkedByWriter'
    BY <1>5 DEF Mark
  <2>5. NeverFatal' /\ UpdateAfterUpload'
    BY <1>5 DEF Mark
  <2> QED
    BY <2>1, <2>2, <2>3, <2>4, <2>5
<1>6. ASSUME NEW r \in Readers, OpenRead(r) PROVE Inv'
  BY <1>6 DEF OpenRead
<1>7. ASSUME NEW h \in Handles, Close(h) PROVE Inv'
  BY <1>7 DEF Close
<1>8. ASSUME NEW h \in Handles, CloseWriter(h) PROVE Inv'
  <2>1. CASE h \in Writers
    <3>1. TypeOK'
      BY <1>8, <2>1 DEF CloseWriter
    <3>2. LockedByHolder' /\ OneHolder'
      BY <1>8, <2>1 DEF CloseWriter
    <3>3. ChangingByWriter'
      BY <1>8, <2>1 DEF CloseWriter
    <3>4. MarkedByWriter'
      BY <1>8, <2>1 DEF CloseWriter
    <3>5. Apart'
      BY <1>8, <2>1 DEF CloseWriter
    <3>6. NeverFatal' /\ UpdateAfterUpload'
      BY <1>8, <2>1 DEF CloseWriter
    <3> QED
      BY <3>1, <3>2, <3>3, <3>4, <3>5, <3>6
  <2>2. CASE h \in Readers
    BY <1>8, <2>2 DEF CloseWriter
  <2> QED
    BY <2>1, <2>2
<1>9. ASSUME NEW h \in Handles, Unmark(h) PROVE Inv'
  <2>1. TypeOK' /\ Apart'
    BY <1>9 DEF Unmark
  <2>2. LockedByHolder' /\ OneHolder'
    BY <1>9 DEF Unmark
  <2>3. ChangingByWriter'
    BY <1>9 DEF Unmark
  <2>4. MarkedByWriter'
    BY <1>9 DEF Unmark
  <2>5. NeverFatal' /\ UpdateAfterUpload'
    BY <1>9 DEF Unmark
  <2> QED
    BY <2>1, <2>2, <2>3, <2>4, <2>5
<1>10. ASSUME NEW h \in Handles, Exist(h) PROVE Inv'
  BY <1>10 DEF Exist
<1>11. ASSUME NEW h \in Handles, Remove(h) PROVE Inv'
  <2>1. CASE h \in Writers
    <3>1. TypeOK' /\ Apart'
      BY <1>11, <2>1 DEF Remove
    <3>2. LockedByHolder' /\ OneHolder'
      BY <1>11, <2>1 DEF Remove
    <3>3. ChangingByWriter'
      BY <1>11, <2>1 DEF Remove
    <3>4. MarkedByWriter'
      BY <1>11, <2>1 DEF Remove
    <3>5. NeverFatal' /\ UpdateAfterUpload'
      BY <1>11, <2>1 DEF Remove
    <3> QED
      BY <3>1, <3>2, <3>3, <3>4, <3>5
  <2>2. CASE h \in Readers
    BY <1>11, <2>2 DEF Remove
  <2> QED
    BY <2>1, <2>2
<1>12. ASSUME NEW h \in Handles, Unlock(h) PROVE Inv'
  <2>1. CASE h \in Writers
    <3>1. TypeOK' /\ Apart'
      BY <1>12, <2>1 DEF Unlock
    <3>2. LockedByHolder' /\ OneHolder'
      BY <1>12, <2>1 DEF Unlock
    <3>3. ChangingByWriter'
      BY <1>12, <2>1 DEF Unlock
    <3>4. MarkedByWriter'
      BY <1>12, <2>1 DEF Unlock
    <3>5. NeverFatal' /\ UpdateAfterUpload'
      BY <1>12, <2>1 DEF Unlock
    <3> QED
      BY <3>1, <3>2, <3>3, <3>4, <3>5
  <2>2. CASE h \in Readers
    BY <1>12, <2>2 DEF Unlock
  <2> QED
    BY <2>1, <2>2
<1>13. ASSUME NEW u \in Updaters, Update(u) PROVE Inv'
  BY <1>13 DEF Update
<1>14. ASSUME NEW u \in Updaters, Check(u) PROVE Inv'
  BY <1>14 DEF Check
<1>15. ASSUME NEW u \in Updaters, Acquire(u) PROVE Inv'
  BY <1>15 DEF Acquire
<1>16. ASSUME NEW u \in Updaters, Post(u) PROVE Inv'
  BY <1>16 DEF Post
<1>17. ASSUME NEW u \in Updaters, PostAndUnlock(u) PROVE Inv'
  BY <1>17 DEF PostAndUnlock
<1>18. ASSUME NEW u \in Updaters, AnswerAtOnce(u) PROVE Inv'
  BY <1>18 DEF AnswerAtOnce
<1>19. ASSUME UNCHANGED vars PROVE Inv'
  BY <1>19 DEF vars
<1> QED
  BY <1>1, <1>2, <1>3, <1>4, <1>5, <1>6, <1>7, <1>8, <1>9, <1>10, <1>11,
     <1>12, <1>13, <1>14, <1>15, <1>16, <1>17, <1>18, <1>19 DEF Next, Serve

(* What follows from the invariant, whenever the file is not shared.       *)
THEOREM LockInvariantHolds == ~Sharing => (Spec => []LockInvariant)
<1> SUFFICES ASSUME ~Sharing PROVE Spec => []LockInvariant
  OBVIOUS
<1>1. Inv /\ [Next]_vars => Inv'
  BY InvStep
<1>2. Inv => LockInvariant
  BY DEF Inv
<1> QED
  BY InvInit, <1>1, <1>2, PTL DEF Spec

(* handle.go:79-82: from the opening of a file for writing to the end of   *)
(* its Release, nobody else has the lock.                                  *)
THEOREM OneHolderHolds == ~Sharing => (Spec => []OneHolder)
<1> SUFFICES ASSUME ~Sharing PROVE Spec => []OneHolder
  OBVIOUS
<1>1. Inv /\ [Next]_vars => Inv'
  BY InvStep
<1>2. Inv => OneHolder
  BY DEF Inv
<1> QED
  BY InvInit, <1>1, <1>2, PTL DEF Spec

(* No Release and no update of the attributes unlocks an unlocked mutex.   *)
THEOREM NeverFatalHolds == ~Sharing => (Spec => []NeverFatal)
<1> SUFFICES ASSUME ~Sharing PROVE Spec => []NeverFatal
  OBVIOUS
<1>1. Inv /\ [Next]_vars => Inv'
  BY InvStep
<1>2. Inv => NeverFatal
  BY DEF Inv
<1> QED
  BY InvInit, <1>1, <1>2, PTL DEF Spec

(* Attributes that are set once the file is closed are not lost to the     *)
(* upload that its Release ends.                                           *)
THEOREM UpdateAfterUploadHolds == ~Sharing => (Spec => []UpdateAfterUpload)
<1> SUFFICES ASSUME ~Sharing PROVE Spec => []UpdateAfterUpload
  OBVIOUS
<1>1. Inv /\ [Next]_vars => Inv'
  BY InvStep
<1>2. Inv => UpdateAfterUpload
  BY DEF Inv
<1> QED
  BY InvInit, <1>1, <1>2, PTL DEF Spec
=============================================================================
