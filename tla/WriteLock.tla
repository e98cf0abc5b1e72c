------------------------------ MODULE WriteLock ------------------------------
(* The write lock of an index in a file system store: a file, ferret-write.  *)
(* lck, created with O_EXCL.  Processes open the store, open IndexWriters    *)
(* (frt_iw_open) and IndexReaders that change the index                      *)
(* (ir_acquire_write_lock), commit, close, probe the lock and crash.         *)
(*                                                                           *)
(* The file records no owner, and giving the lock back removes it twice:     *)
(* lock->release, then frt_close_lock, whose fs_close_lock_i removes the     *)
(* file again.  Four events remove the lock file of another process: that    *)
(* second remove, when somebody has obtained the lock since the first;       *)
(* giving up waiting for the lock in frt_iw_open; probing it with            *)
(* frt_index_is_locked; and closing the last reference to the store.  robbed *)
(* records the processes whose lock was removed while they were using it.    *)
EXTENDS Integers, FiniteSets

CONSTANTS
    Procs,        \* processes, each with one thread that uses the index
    MaxVersion    \* bound: versions of the index

ASSUME LockConstants == MaxVersion \in Nat

VARIABLES
    lck,          \* the file ferret-write.lck: "absent" or "present"
    version,      \* the version in the current segments file
    proc,         \* the processes
    robbed        \* history: the processes that lost the lock to another

vars == <<lck, version, proc, robbed>>

(* pc "out": store not open; "in": store open; "reader": IndexReader open;   *)
(* "trying": in lock->obtain; "check": lock obtained, segments file not yet  *)
(* read; "holding": changing the index; "giving_up": not obtained, about to  *)
(* be released all the same; "releasing": done, about to be released;        *)
(* "closing": released, frt_close_lock to come; "probing": in                *)
(* lock->is_locked; "hung": waiting for a mutex that it holds itself.        *)
(* kind: who wants the lock; ver: version of its SegmentInfos; flags: is the *)
(* IndexReader marked stale, is its mutex locked?                            *)
Proc == [pc : {"out", "in", "reader", "trying", "check", "holding", "giving_up",
               "releasing", "closing", "probing", "hung"},
         kind : {"none", "writer", "reader"}, ver : Nat, flags : SUBSET {"is_stale", "mutex"}]

Outside == [pc |-> "out", kind |-> "none", ver |-> 0, flags |-> {}]
Inside  == [Outside EXCEPT !.pc = "in"]

Init ==
    /\ lck = "absent" /\ version = 1
    /\ proc = [p \in Procs |-> Outside]
    /\ robbed = {}

Become(p, new) == proc' = [proc EXCEPT ![p] = new]

(* The processes between obtain and release. *)
Holders == {p \in Procs : proc[p].pc \in {"check", "holding", "releasing"}}

(* p removes the lock file, whoever created it. *)
Unlink(p) ==
    /\ lck' = "absent"
    /\ robbed' = robbed \cup (Holders \ {p})

-----------------------------------------------------------------------------
(* The store *)

(* frt_open_fs_store *)
OpenStore(p) ==
    /\ proc[p].pc = "out"
    /\ Become(p, Inside) /\ UNCHANGED <<lck, version, robbed>>

(* frt_store_close of the last reference: fs_destroy clears every lock. *)
CloseStore(p) ==
    /\ proc[p].pc = "in"
    /\ Unlink(p)
    /\ Become(p, Outside) /\ UNCHANGED version

(* frt_index_is_locked creates the file if it can, and removes it; when it   *)
(* cannot, the index is locked and only frt_close_lock is left.              *)
BeginProbe(p) ==
    /\ proc[p].pc = "in"
    /\ lck' = "present"
    /\ Become(p, [Inside EXCEPT !.pc = IF lck = "absent" THEN "probing" ELSE "closing"])
    /\ UNCHANGED <<version, robbed>>

(* Its remove fails, and is_locked raises, if the file has gone already. *)
EndProbe(p) ==
    /\ proc[p].pc = "probing"
    /\ \/ /\ lck = "present"
          /\ Unlink(p) /\ Become(p, [proc[p] EXCEPT !.pc = "closing"])
       \/ /\ lck = "absent"
          /\ UNCHANGED <<lck, robbed>> /\ Become(p, Inside)
    /\ UNCHANGED version

-----------------------------------------------------------------------------
(* frt_iw_open: obtain the lock, then read the segments file. *)
BeginWriter(p) ==
    /\ proc[p].pc = "in"
    /\ Become(p, [Inside EXCEPT !.pc = "trying", !.kind = "writer"])
    /\ UNCHANGED <<lck, version, robbed>>

(* Mutant: the version of the segments file is not read. *)
OpenReader_Unread(p) ==
    /\ proc[p].pc = "in"
    /\ Become(p, [Inside EXCEPT !.pc = "reader", !.kind = "reader", !.ver = -1])
    /\ UNCHANGED <<lck, version, robbed>>

(* frt_ir_open *)
OpenReader(p) ==
    /\ proc[p].pc = "in"
    /\ Become(p, [Inside EXCEPT !.pc = "reader", !.kind = "reader", !.ver = version])
    /\ UNCHANGED <<lck, version, robbed>>

(* frt_ir_delete_doc, frt_ir_undelete_all, ir_set_norm_i: lock the mutex of  *)
(* the reader, acquire the write lock.  An error is raised past the unlock.  *)
BeginChange(p) ==
    /\ proc[p].pc = "reader"
    /\ Become(p, [proc[p] EXCEPT
                    !.pc = CASE "mutex" \in proc[p].flags -> "hung"
                             [] "is_stale" \in proc[p].flags /\ "mutex" \notin proc[p].flags -> "reader"
                             [] OTHER -> "trying",
                    !.flags = @ \cup {"mutex"}])
    /\ UNCHANGED <<lck, version, robbed>>

(* Mutant: the lock file is created without O_EXCL. *)
Obtain_NotExclusive(p) ==
    /\ proc[p].pc = "trying"
    /\ lck' = "present"
    /\ Become(p, [proc[p] EXCEPT !.pc = "check"]) /\ UNCHANGED <<version, robbed>>

(* fs_lock_obtain, a try that succeeds ... *)
Obtain(p) ==
    /\ proc[p].pc = "trying" /\ lck = "absent"
    /\ lck' = "present"
    /\ Become(p, [proc[p] EXCEPT !.pc = "check"]) /\ UNCHANGED <<version, robbed>>

(* Mutant: an IndexReader tries for ever. *)
GiveUp_WriterOnly(p) ==
    /\ proc[p].pc = "trying" /\ lck = "present" /\ proc[p].kind = "writer"
    /\ Become(p, [proc[p] EXCEPT !.pc = "giving_up"])
    /\ UNCHANGED <<lck, version, robbed>>

(* ... and the last one that fails: frt_iw_open goes on to release the lock  *)
(* it did not obtain, ir_acquire_write_lock leaves the mutex locked.         *)
GiveUp(p) ==
    /\ proc[p].pc = "trying" /\ lck = "present"
    /\ Become(p, [proc[p] EXCEPT !.pc = IF proc[p].kind = "writer" THEN "giving_up" ELSE "reader"])
    /\ UNCHANGED <<lck, version, robbed>>

(* Mutant: the versions are not compared. *)
Check_NoCompare(p) ==
    /\ proc[p].pc = "check"
    /\ Become(p, [proc[p] EXCEPT !.pc = "holding", !.flags = @ \ {"mutex"},
                                 !.ver = IF proc[p].kind = "writer" THEN version ELSE @])
    /\ UNCHANGED <<lck, version, robbed>>

(* The segments file is read under the lock: a writer takes its SegmentInfos *)
(* from it, a reader compares versions and gives the lock back if its own    *)
(* are out of date.                                                          *)
Check(p) ==
    /\ proc[p].pc = "check"
    /\ Become(p, IF proc[p].kind = "reader" /\ version > proc[p].ver
                   THEN [proc[p] EXCEPT !.pc = "releasing", !.flags = @ \cup {"is_stale"}]
                   ELSE [proc[p] EXCEPT !.pc = "holding", !.ver = version, !.flags = @ \ {"mutex"}])
    /\ UNCHANGED <<lck, version, robbed>>

(* frt_sis_write in a commit of the writer, or in ir_commit_i, which then    *)
(* releases the lock.  The new segments file replaces the current one.       *)
Commit(p) ==
    /\ proc[p].pc = "holding" /\ proc[p].ver < MaxVersion
    /\ version' = proc[p].ver + 1
    /\ Become(p, [proc[p] EXCEPT !.ver = @ + 1,
                                 !.pc = IF proc[p].kind = "writer" THEN @ ELSE "releasing"])
    /\ UNCHANGED <<lck, robbed>>

(* frt_iw_close, after its last commit *)
CloseWriter(p) ==
    /\ proc[p].pc = "holding" /\ proc[p].kind = "writer"
    /\ Become(p, [proc[p] EXCEPT !.pc = "releasing"])
    /\ UNCHANGED <<lck, version, robbed>>

(* lock->release: the first remove.  In the catch of frt_iw_open, too. *)
Release(p) ==
    /\ proc[p].pc \in {"releasing", "giving_up"}
    /\ Unlink(p)
    /\ Become(p, [proc[p] EXCEPT !.pc = "closing"]) /\ UNCHANGED version

(* frt_close_lock: the second remove.  An IndexReader stays open. *)
CloseLock(p) ==
    /\ proc[p].pc = "closing"
    /\ Unlink(p)
    /\ Become(p, IF proc[p].kind = "reader" THEN [proc[p] EXCEPT !.pc = "reader"] ELSE Inside)
    /\ UNCHANGED version

(* frt_ir_close of a reader without changes locks the mutex once more. *)
CloseReader(p) ==
    /\ proc[p].pc = "reader"
    /\ Become(p, IF "mutex" \in proc[p].flags THEN [proc[p] EXCEPT !.pc = "hung"] ELSE Inside)
    /\ UNCHANGED <<lck, version, robbed>>

(* The lock file outlives the process. *)
Crash(p) ==
    /\ proc[p].pc # "out"
    /\ Become(p, Outside) /\ UNCHANGED <<lck, version, robbed>>

Step(p) ==
    \/ OpenStore(p) \/ CloseStore(p) \/ BeginProbe(p) \/ EndProbe(p)
    \/ BeginWriter(p) \/ OpenReader(p) \/ BeginChange(p) \/ Obtain(p) \/ GiveUp(p)
    \/ Check(p) \/ Commit(p) \/ CloseWriter(p) \/ Release(p) \/ CloseLock(p)
    \/ CloseReader(p) \/ Crash(p)

Next == \E p \in Procs : Step(p)

Spec == Init /\ [][Next]_vars

(* fs_lock_obtain tries a bounded number of times, whatever others do, and   *)
(* giving the lock back waits for nobody.                                    *)
FairSpec ==
    /\ Spec
    /\ \A p \in Procs : WF_vars(Obtain(p) \/ GiveUp(p) \/ Check(p) \/ Release(p) \/ CloseLock(p))

-----------------------------------------------------------------------------
(* Properties *)

(* Type invariant. *)
TypeOK ==
    /\ lck \in {"absent", "present"} /\ version \in Nat /\ proc \in [Procs -> Proc]
    /\ robbed \subseteq Procs

(* The write lock excludes, crashes included: of the processes whose lock    *)
(* file nobody has removed, by one of the four events that do so without     *)
(* asking, at most one at a time is between obtain and release, whether it   *)
(* is an IndexWriter or an IndexReader.  Others may have been robbed.        *)
LockExcludes == \A p, q \in Holders \ robbed : p = q

(* No lost update, as long as nobody has been robbed: whoever may commit     *)
(* holds the current version, because the version is compared after the lock *)
(* was obtained (ir_acquire_write_lock).                                     *)
HolderIsCurrent ==
    robbed = {} => \A p \in Procs : proc[p].pc = "holding" => proc[p].ver = version

(* Nobody waits for the lock for ever, also when its holder has crashed: an  *)
(* attempt ends with the lock, with an error, or with a stale reader, and a  *)
(* lock that is to be given back is given back.                              *)
AttemptEnds ==
    \A p \in Procs :
        LET Underway == proc[p].pc \in {"trying", "check", "giving_up", "releasing", "closing"}
        IN  Underway ~> ~Underway

(* The write lock excludes, whatever the others do. *)
AlwaysExclusive == \A p, q \in Holders : p = q
=============================================================================
