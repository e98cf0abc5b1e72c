--------------------------- MODULE WriteLockProofs ---------------------------
(* What the write lock guarantees, for any number of processes, crashes and  *)
(* the two removes of every release included: one holder at a time among     *)
(* those whose lock file nobody removed, and no holder with old SegmentInfos *)
(* as long as nobody was robbed.                                             *)
EXTENDS WriteLock, TLAPS

(* The inductive invariant.  Exclusion alone is not inductive: that the file *)
(* exists while somebody holds the lock is what keeps the others out.        *)
HolderHasFile == Holders \ robbed # {} => lck = "present"
LockInv       == TypeOK /\ HolderHasFile /\ LockExcludes /\ HolderIsCurrent

(* The records a process goes through are all in Proc. *)
LEMMA ProcRecords ==
    ASSUME NEW r \in Proc, NEW v \in Nat
    PROVE  /\ Inside \in Proc /\ Outside \in Proc
           /\ \A pc \in {"reader", "trying", "check", "giving_up", "releasing", "closing",
                      "probing", "hung"} :
                [r EXCEPT !.pc = pc] \in Proc
           /\ \A pc \in {"reader", "trying", "hung"} :
                [r EXCEPT !.pc = pc, !.flags = @ \cup {"mutex"}] \in Proc
           /\ [r EXCEPT !.pc = "trying", !.kind = "writer"] \in Proc
           /\ [r EXCEPT !.pc = "reader", !.kind = "reader", !.ver = v] \in Proc
           /\ [r EXCEPT !.pc = "releasing", !.flags = @ \cup {"is_stale"}] \in Proc
           /\ [r EXCEPT !.pc = "holding", !.ver = v, !.flags = @ \ {"mutex"}] \in Proc
           /\ [r EXCEPT !.ver = @ + 1, !.pc = IF r.kind = "writer" THEN @ ELSE "releasing"] \in Proc
<1> USE DEF Proc
<1>1. Inside \in Proc /\ Outside \in Proc
  BY DEF Inside, Outside
<1>2. \A pc \in {"reader", "trying", "check", "giving_up", "releasing", "closing",
                "probing", "hung"} : [r EXCEPT !.pc = pc] \in Proc
  OBVIOUS
<1>3. \A pc \in {"reader", "trying", "hung"} :
        [r EXCEPT !.pc = pc, !.flags = @ \cup {"mutex"}] \in Proc
  OBVIOUS
<1>4. [r EXCEPT !.pc = "trying", !.kind = "writer"] \in Proc
  OBVIOUS
<1>5. [r EXCEPT !.pc = "reader", !.kind = "reader", !.ver = v] \in Proc
  OBVIOUS
<1>6. [r EXCEPT !.pc = "releasing", !.flags = @ \cup {"is_stale"}] \in Proc
  OBVIOUS
<1>7. [r EXCEPT !.pc = "holding", !.ver = v, !.flags = @ \ {"mutex"}] \in Proc
  OBVIOUS
<1>8. [r EXCEPT !.ver = @ + 1, !.pc = IF r.kind = "writer" THEN @ ELSE "releasing"] \in Proc
  <2>1. r.ver + 1 \in Nat
    OBVIOUS
  <2> QED BY <2>1
<1> HIDE DEF Proc
<1> QED BY <1>1, <1>2, <1>3, <1>4, <1>5, <1>6, <1>7, <1>8

(* The type invariant holds whatever the processes do, the lock breaking     *)
(* events included.                                                          *)
THEOREM LockTypeCorrect == Spec => []TypeOK
<1>1. Init => TypeOK
  <2>1. Outside \in Proc
    BY DEF Proc, Outside
  <2> QED BY <2>1 DEF Init, TypeOK
<1>2. TypeOK /\ [Next]_vars => TypeOK'
  <2> SUFFICES ASSUME TypeOK, [Next]_vars PROVE TypeOK'
    OBVIOUS
  <2>1. CASE UNCHANGED vars
    BY <2>1 DEF vars, TypeOK
  <2>2. ASSUME NEW p \in Procs, Step(p) PROVE TypeOK'
    <3>1. proc[p] \in Proc /\ version \in Nat /\ Inside \in Proc
      BY DEF TypeOK, Proc, Inside, Outside
    <3>2. \E r \in Proc : Become(p, r)
      <4> USE <3>1, ProcRecords
      <4>1. CASE OpenStore(p)
        BY <4>1 DEF OpenStore
      <4>2. CASE CloseStore(p)
        BY <4>2 DEF CloseStore
      <4>3. CASE BeginProbe(p)
        BY <4>3 DEF BeginProbe
      <4>4. CASE EndProbe(p)
        BY <4>4 DEF EndProbe
      <4>5. CASE BeginWriter(p)
        BY <4>5 DEF BeginWriter
      <4>6. CASE OpenReader(p)
        BY <4>6 DEF OpenReader
      <4>7. CASE BeginChange(p)
        BY <4>7 DEF BeginChange
      <4>8. CASE Obtain(p)
        BY <4>8 DEF Obtain
      <4>9. CASE GiveUp(p)
        BY <4>9 DEF GiveUp
      <4>10. CASE Check(p)
        BY <4>10 DEF Check
      <4>11. CASE Commit(p)
        BY <4>11 DEF Commit
      <4>12. CASE CloseWriter(p)
        BY <4>12 DEF CloseWriter
      <4>13. CASE CloseReader(p)
        BY <4>13 DEF CloseReader
      <4>14. CASE Crash(p)
        BY <4>14 DEF Crash
      <4>15. CASE Release(p)
        BY <4>15 DEF Release
      <4>16. CASE CloseLock(p)
        BY <4>16 DEF CloseLock
      <4> QED BY <2>2, <4>1, <4>2, <4>3, <4>4, <4>5, <4>6, <4>7, <4>8,
                  <4>9, <4>10, <4>11, <4>12, <4>13, <4>14, <4>15, <4>16 DEF Step
    <3>3. lck' \in {"absent", "present"} /\ version' \in Nat /\ robbed' \subseteq Procs
      BY <2>2, <3>1 DEF Unlink, Holders, TypeOK, Proc, Step, OpenStore, CloseStore, BeginProbe, EndProbe, BeginWriter, OpenReader,
                       BeginChange, Obtain, GiveUp, Check, Commit, CloseWriter,
                       Release, CloseLock, CloseReader, Crash
    <3> QED BY <3>2, <3>3 DEF TypeOK, Become
  <2> QED BY <2>1, <2>2 DEF Next
<1> QED BY <1>1, <1>2, PTL DEF Spec

(* One step of one process keeps the invariant. *)
LEMMA StepKeepsLockInv ==
    ASSUME LockInv, TypeOK', NEW p \in Procs, Step(p)
    PROVE  LockInv'
<1> USE DEF LockInv, HolderHasFile, LockExcludes, HolderIsCurrent, Holders,
            TypeOK, Proc, Become, Inside, Outside, Unlink
<1>1. CASE OpenStore(p)
  BY <1>1 DEF OpenStore
<1>2. CASE CloseStore(p)
  BY <1>2 DEF CloseStore
<1>3. CASE BeginProbe(p)
  BY <1>3 DEF BeginProbe
<1>4. CASE EndProbe(p)
  BY <1>4 DEF EndProbe
<1>5. CASE BeginWriter(p)
  BY <1>5 DEF BeginWriter
<1>6. CASE OpenReader(p)
  BY <1>6 DEF OpenReader
<1>7. CASE BeginChange(p)
  BY <1>7 DEF BeginChange
<1>8. CASE Obtain(p)
  BY <1>8 DEF Obtain
<1>9. CASE GiveUp(p)
  BY <1>9 DEF GiveUp
<1>10. CASE Check(p)
  <2>1. /\ \A q \in Procs \ {p} : proc'[q] = proc[q]
        /\ version' = version /\ lck' = lck /\ robbed' = robbed /\ p \in Holders
    BY <1>10 DEF Check
  <2>2. \/ proc'[p].pc = "releasing"
        \/ proc'[p].pc = "holding" /\ proc'[p].ver = version
    <3>1. CASE proc[p].kind = "reader" /\ version > proc[p].ver
      <4>1. proc'[p] = [proc[p] EXCEPT !.pc = "releasing", !.flags = @ \cup {"is_stale"}]
        BY <1>10, <3>1 DEF Check
      <4> QED BY <4>1
    <3>2. CASE ~(proc[p].kind = "reader" /\ version > proc[p].ver)
      <4>1. proc'[p] = [proc[p] EXCEPT !.pc = "holding", !.ver = version,
                                       !.flags = @ \ {"mutex"}]
        BY <1>10, <3>2 DEF Check
      <4> QED BY <4>1
    <3> QED BY <3>1, <3>2
  <2>3. Holders' = Holders
    BY <2>1, <2>2
  <2> QED BY <2>1, <2>2, <2>3
<1>11. CASE Commit(p)
  <2>1. /\ \A q \in Procs \ {p} : proc'[q] = proc[q]
        /\ lck' = lck /\ robbed' = robbed /\ p \in Holders
    BY <1>11 DEF Commit
  <2>2. \/ proc'[p].pc = "releasing"
        \/ proc'[p].pc = "holding" /\ proc'[p].ver = version'
    <3>1. /\ proc'[p] = [proc[p] EXCEPT !.ver = @ + 1,
                          !.pc = IF proc[p].kind = "writer" THEN @ ELSE "releasing"]
          /\ proc[p].pc = "holding" /\ version' = proc[p].ver + 1
      BY <1>11 DEF Commit
    <3> QED BY <3>1
  <2>3. Holders' = Holders
    BY <2>1, <2>2
  <2>4. robbed = {} => \A q \in Procs \ {p} : q \notin Holders
    BY <2>1
  <2> QED BY <2>1, <2>2, <2>3, <2>4
<1>12. CASE CloseWriter(p)
  BY <1>12 DEF CloseWriter
<1>13. CASE CloseReader(p)
  BY <1>13 DEF CloseReader
<1>14. CASE Crash(p)
  BY <1>14 DEF Crash
<1>15. CASE Release(p)
  BY <1>15 DEF Release
<1>16. CASE CloseLock(p)
  BY <1>16 DEF CloseLock
<1> QED BY <1>1, <1>2, <1>3, <1>4, <1>5, <1>6, <1>7, <1>8, <1>9,
          <1>10, <1>11, <1>12, <1>13, <1>14, <1>15, <1>16 DEF Step

LEMMA LockInvHolds == Spec => []LockInv
<1>1. Init => LockInv
  BY DEF Init, LockInv, TypeOK, HolderHasFile, LockExcludes, HolderIsCurrent, Holders,
         Proc, Outside
<1>2. LockInv /\ TypeOK' /\ [Next]_vars => LockInv'
  <2> SUFFICES ASSUME LockInv, TypeOK', [Next]_vars PROVE LockInv'
    OBVIOUS
  <2>1. CASE UNCHANGED vars
    BY <2>1 DEF vars, LockInv, TypeOK, HolderHasFile, LockExcludes, HolderIsCurrent,
                Holders
  <2>2. CASE Next
    BY <2>2, StepKeepsLockInv DEF Next
  <2> QED BY <2>1, <2>2
<1> QED BY <1>1, <1>2, LockTypeCorrect, PTL DEF Spec

(* Of the IndexWriters and changing IndexReaders whose lock file nobody has  *)
(* removed, at most one at a time is between obtaining and releasing the     *)
(* write lock (fs_lock_obtain, O_EXCL), although every release removes the   *)
(* file twice (fs_lock_release, fs_close_lock_i).                            *)
THEOREM MutualExclusion == Spec => []LockExcludes
BY LockInvHolds, PTL DEF LockInv

(* As long as no remove has hit the lock of a live holder, whoever may write *)
(* a segments file has the current version in memory, so no commit           *)
(* overwrites another (ir_acquire_write_lock, frt_iw_open).                  *)
THEOREM NoLostUpdate == Spec => []HolderIsCurrent
BY LockInvHolds, PTL DEF LockInv
=============================================================================
