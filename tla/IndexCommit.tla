----------------------------- MODULE IndexCommit -----------------------------
(* How a process changes an index in a store: an IndexWriter that adds,      *)
(* flushes, merges and deletes documents, or an IndexReader that deletes and *)
(* undeletes documents and sets norms.  Every file the process creates or    *)
(* removes is a step of its own, and the process may crash between any two.  *)
(*                                                                           *)
(* One process at a time holds the write lock (module WriteLock is about the *)
(* lock itself); other processes read the store at every step (IndexOpen).   *)
EXTENDS SegmentInfos, FiniteSets

CONSTANTS
    Format,           \* config.use_compound_file: "compound" or "plain"
    MaxBufferedDocs,  \* config.max_buffered_docs
    MergeFactor,      \* config.merge_factor: "must never be less than 2"
    MaxMergeDocs,     \* config.max_merge_docs
    ReaderOps,        \* the changes readers make: "delete", "undelete", "norm"
    CrashPhases,      \* the phases of a commit in which the process may die
    MaxGen,           \* bound: no operation starts once the generation is this high
    MaxSeg            \* bound: no operation starts once this many names are used

(* Between two operations; writing data files; segments_N created but not    *)
(* complete; segments_N complete, segments.gen and the deletion of the       *)
(* previous segments file outstanding; deleting the queued files; between    *)
(* two merges.                                                               *)
Phases == {"idle", "write", "torn", "gen", "drop", "dropcurr", "purge", "merge"}

ASSUME CommitConstants ==
    /\ Format \in {"plain", "compound"} /\ ReaderOps \subseteq {"delete", "undelete", "norm"}
    /\ CrashPhases \subseteq Phases
    /\ MaxBufferedDocs \in Nat \ {0} /\ MergeFactor \in Nat \ {0, 1} /\ MaxMergeDocs \in Nat
    /\ MaxGen \in Nat /\ MaxSeg \in Nat

VARIABLES
    files,         \* the data files of the store, with what they stand for
    segments,      \* the segments_N files, by N
    torn,          \* the N whose segments_N is not completely written
    segments_gen,  \* what segments.gen says; -1 when it cannot be read
    role,          \* "none", "writer" or "reader": who holds the write lock
    phase,         \* where that process is in a commit
    sis,           \* its FrtSegmentInfos
    pending,       \* its deleter: the data files to delete
    old_segs,      \* its deleter: the segments_N files to delete
    todo,          \* the data files it has still to write, with their content
    after,         \* what follows frt_sis_write: "purge" the deleter's queue, or "return"
    target,        \* target_merge_docs in iw_maybe_merge_segments; -1 in iw_optimize_i
    buffer,        \* the documents in the DocWriter
    sr,            \* the changes an IndexReader holds in memory
    curr_seg,      \* ir_commit_i: curr_seg_fn
    committed      \* history: the last commit, as [generation, version, counter, segs]

store  == <<files, segments, torn, segments_gen>>
memory == <<sis, pending, old_segs, todo, after, target, buffer, sr, curr_seg>>
vars   == <<store, role, phase, memory, committed>>

-----------------------------------------------------------------------------
Put(f, k, v)   == [x \in DOMAIN f \cup {k} |-> IF x = k THEN v ELSE f[x]]
Without(f, K)  == [x \in DOMAIN f \ K |-> f[x]]
NoFiles        == [f \in {} |-> {}]

Sis(generation, version, counter, segs) ==
    [generation |-> generation, version |-> version, counter |-> counter, segs |-> segs]
NoSis == Sis(-1, 0, 0, NoSegs)

(* What an IndexReader holds: the deleted documents per segment, and the     *)
(* segments with undelete_all, deleted_docs_dirty and norms_dirty set.       *)
Reader(deleted, undelete, dirty, norms, has_changes) ==
    [deleted |-> deleted, undelete |-> undelete, dirty |-> dirty, norms |-> norms,
     has_changes |-> has_changes]
CleanReader(segs) == Reader([n \in DOMAIN segs |-> segs[n].dels], {}, {}, {}, "no")
NoReader == CleanReader(NoSegs)

(* Mutant: the comparison in which_gen_i is the wrong way round. *)
CurrentGeneration_Lowest ==
    IF DOMAIN segments = {} THEN -1
    ELSE CHOOSE g \in DOMAIN segments : \A h \in DOMAIN segments : g <= h

(* frt_sis_current_segment_generation *)
CurrentGeneration ==
    IF DOMAIN segments = {} THEN -1
    ELSE CHOOSE g \in DOMAIN segments : \A h \in DOMAIN segments : h <= g

(* sis_find_segments_file, in a store nobody else is changing: the highest   *)
(* segments_N, or, when it cannot be read and N > 1, segments_(N-1).         *)
Readable(g) == g \in DOMAIN segments \ torn
FoundGenerations ==
    IF Readable(CurrentGeneration) THEN {CurrentGeneration}
    ELSE {g \in {CurrentGeneration - 1} : g > 0 /\ Readable(g)}

Intact(segs) ==
    \A n \in DOMAIN segs : \A f \in SegFiles(n, segs[n]) :
        f \in DOMAIN files /\ files[f] = Content(segs[n], f)

-----------------------------------------------------------------------------
Init ==
    \* frt_index_create
    LET empty == Sis(0, 1, 0, NoSegs)
    IN /\ files = NoFiles
       /\ segments = [g \in {0} |-> empty] /\ torn = {} /\ segments_gen = 0
       /\ role = "none" /\ phase = "idle"
       /\ sis = NoSis /\ pending = {} /\ old_segs = {} /\ todo = NoFiles /\ after = "return"
       /\ target = 0 /\ buffer = {} /\ sr = NoReader /\ curr_seg = -1
       /\ committed = empty

Idle(r) == role = r /\ phase = "idle"

(* The bounds, on what an application starts.  The merges that follow are not*)
(* bounded: they come to an end (OperationEnds).                             *)
CanCommit == sis.generation < MaxGen
CanName   == sis.counter < MaxSeg

(* Enter a commit: the in-memory SegmentInfos change at once, the new files  *)
(* and then the segments file are written one by one.                        *)
StartCommit(newSegs, newCounter, toWrite, toQueue, then) ==
    /\ sis' = Sis(sis.generation, sis.version, newCounter, newSegs)
    /\ todo' = toWrite
    /\ pending' = pending \cup toQueue
    /\ after' = then
    /\ phase' = "write"
    /\ UNCHANGED <<store, role, old_segs, committed>>

-----------------------------------------------------------------------------
(* IndexWriter *)

(* frt_iw_open: read the segments file, queue every orphaned file, delete    *)
(* the queue.  Every segments_N but the highest one counts as an orphan.     *)
OpenWriter ==
    /\ role = "none"
    /\ \E g \in FoundGenerations :
         /\ sis' = segments[g]
         /\ pending' = {f \in DOMAIN files : IsDeletable(f, segments[g].segs)}
    /\ old_segs' = DOMAIN segments \ {CurrentGeneration}
    /\ role' = "writer" /\ phase' = "purge"
    /\ UNCHANGED <<store, todo, after, target, buffer, sr, curr_seg, committed>>

(* frt_iw_add_doc: the document is buffered; the field writer already streams*)
(* its stored fields to the files of the segment being built.                *)
AddDoc(d) ==
    /\ Idle("writer")
    /\ CanName /\ CanCommit
    /\ d \notin buffer \cup UNION {sis.segs[n].docs : n \in DOMAIN sis.segs}
    /\ Cardinality(buffer) < MaxBufferedDocs
    /\ buffer' = buffer \cup {d}
    /\ files' = Put(files, CoreFile(sis.counter), buffer')
    /\ UNCHANGED <<segments, torn, segments_gen, role, phase, sis, pending, old_segs,
                   todo, after, target, sr, curr_seg, committed>>

(* The files of a new segment n, and those queued for deletion once they     *)
(* have been copied into a compound file (frt_cw_close).                     *)
NewSegFiles(n, si) ==
    [f \in {CoreFile(n), NormFile(n, 0)}
             \cup (IF IsCompound(si) THEN {CfsFile(n)} ELSE {}) |-> si.docs]
CopiedFiles_Always(n, si) == {CoreFile(n), NormFile(n, 0)}   \* mutant: compound or not
CopiedFiles(n, si) ==
    IF IsCompound(si) THEN {CoreFile(n), NormFile(n, 0)} ELSE {}

(* iw_flush_ram_segment; when the commit is complete it goes on with         *)
(* iw_maybe_merge_segments.                                                  *)
Flush ==
    /\ Idle("writer") /\ buffer # {}
    /\ LET n  == sis.counter
           si == NewSegInfo(buffer, Format)
       IN StartCommit(Put(sis.segs, n, si), n + 1, NewSegFiles(n, si), CopiedFiles(n, si), "purge")
    /\ buffer' = {} /\ target' = MergeFactor
    /\ UNCHANGED <<sr, curr_seg>>

(* iw_merge_segments: the segments in old, a suffix of sis->segs, become one *)
(* segment without their deleted documents.                                  *)
MergeSegments(old) ==
    /\ LET n  == sis.counter
           si == NewSegInfo(UNION {sis.segs[m].docs \ sis.segs[m].dels : m \in old}, Format)
       IN StartCommit(Put(Without(sis.segs, old), n, si), n + 1, NewSegFiles(n, si),
                      CopiedFiles(n, si) \cup UNION {SiDeleteFiles(m, sis.segs[m]) : m \in old},
                      "purge")
    /\ UNCHANGED <<buffer, sr, curr_seg>>

EndMerges ==
    /\ phase' = "idle" /\ target' = 0
    /\ UNCHANGED <<store, role, sis, pending, old_segs, todo, after, buffer, sr, curr_seg, committed>>

(* One turn of iw_maybe_merge_segments: the longest suffix of segments that  *)
(* are all smaller than the target is merged if it has enough documents.     *)
SmallSegments ==
    {n \in DOMAIN sis.segs : \A m \in DOMAIN sis.segs :
        m >= n => Cardinality(sis.segs[m].docs) < target}
MergeDocs == Cardinality(UNION {sis.segs[n].docs : n \in SmallSegments})

(* Mutant: the target is not raised between two turns. *)
MaybeMerge_SameTarget ==
    /\ phase = "merge" /\ target > 0
    /\ \/ MergeDocs >= target /\ MergeSegments(SmallSegments) /\ UNCHANGED target
       \/ /\ MergeDocs < target
          /\ Cardinality(DOMAIN sis.segs \ SmallSegments) > 1
          /\ UNCHANGED vars
       \/ /\ MergeDocs < target
          /\ Cardinality(DOMAIN sis.segs \ SmallSegments) <= 1
          /\ EndMerges

MaybeMerge ==
    /\ phase = "merge" /\ target > 0
    /\ \/ target <= MaxMergeDocs /\ MergeDocs >= target
          /\ MergeSegments(SmallSegments)
          /\ target' = target * MergeFactor
       \/ /\ target <= MaxMergeDocs /\ MergeDocs < target
          /\ Cardinality(DOMAIN sis.segs \ SmallSegments) > 1
          /\ target' = target * MergeFactor
          /\ UNCHANGED <<store, role, phase, sis, pending, old_segs, todo, after, buffer, sr,
                         curr_seg, committed>>
       \/ /\ \/ target > MaxMergeDocs
             \/ MergeDocs < target /\ Cardinality(DOMAIN sis.segs \ SmallSegments) <= 1
          /\ EndMerges

(* frt_iw_optimize, after its iw_commit_i (Flush), and one turn of the loop  *)
(* in iw_optimize_i, which merges the last merge_factor segments.            *)
Optimize ==
    /\ Idle("writer") /\ buffer = {} /\ CanCommit /\ CanName
    /\ phase' = "merge" /\ target' = -1
    /\ UNCHANGED <<store, role, sis, pending, old_segs, todo, after, buffer, sr, curr_seg, committed>>

IsOptimized ==
    /\ Cardinality(DOMAIN sis.segs) <= 1
    /\ \A n \in DOMAIN sis.segs :
         /\ ~HasDeletions(sis.segs[n])
         /\ Format = "compound" => IsCompound(sis.segs[n]) /\ ~HasSeparateNorms(sis.segs[n])
LastSegments ==
    {n \in DOMAIN sis.segs : Cardinality({m \in DOMAIN sis.segs : m >= n}) <= MergeFactor}

OptimizeStep ==
    /\ phase = "merge" /\ target = -1
    /\ \/ ~IsOptimized /\ MergeSegments(LastSegments) /\ UNCHANGED target
       \/ IsOptimized /\ EndMerges

(* Mutant: the current .del file is written again instead of the next one. *)
WithDeletions_SameFile(segs, hit, deleted) ==
    [n \in DOMAIN segs |->
        IF n \in hit THEN [segs[n] EXCEPT !.dels = deleted[n], !.del_gen = IF @ < 0 THEN 0 ELSE @]
                     ELSE segs[n]]

(* The segment infos and files after new deletions have been committed by    *)
(* sr_commit_i to the segments in hit.                                       *)
WithDeletions(segs, hit, deleted) ==
    [n \in DOMAIN segs |->
        IF n \in hit THEN [segs[n] EXCEPT !.dels = deleted[n], !.del_gen = @ + 1] ELSE segs[n]]
NewDelFiles(segs, hit, deleted) ==
    [f \in {DelFile(n, segs[n].del_gen + 1) : n \in hit} |-> deleted[f.seg]]

(* frt_iw_delete_term(s), D the documents with the term: the replaced .del   *)
(* files are queued and stay queued, there is no purge here.                 *)
DeleteTerm(D) ==
    /\ Idle("writer") /\ buffer = {} /\ CanCommit
    /\ LET hit == {n \in DOMAIN sis.segs : D \cap (sis.segs[n].docs \ sis.segs[n].dels) # {}}
           deleted == [n \in DOMAIN sis.segs |->
                         sis.segs[n].dels \cup (D \cap sis.segs[n].docs)]
       IN /\ hit # {}
          /\ StartCommit(WithDeletions(sis.segs, hit, deleted), sis.counter,
                         NewDelFiles(sis.segs, hit, deleted),
                         UNION {DelFiles(n, sis.segs[n]) : n \in hit}, "return")
    /\ UNCHANGED <<target, buffer, sr, curr_seg>>

(* frt_iw_add_readers, after its first iw_optimize_i, of a reader of one     *)
(* segment with the documents D: the copy is never compound and the commit   *)
(* purges nothing, then the index is optimized.                              *)
AddReaders(D) ==
    /\ Idle("writer") /\ buffer = {} /\ IsOptimized
    /\ CanName /\ CanCommit
    /\ D # {} /\ D \cap UNION {sis.segs[n].docs : n \in DOMAIN sis.segs} = {}
    /\ LET n  == sis.counter
           si == NewSegInfo(D, "plain")
       IN StartCommit(Put(sis.segs, n, si), n + 1, NewSegFiles(n, si), {}, "return")
    /\ target' = -1
    /\ UNCHANGED <<buffer, sr, curr_seg>>

Forget ==   \* the memory of the process is gone
    /\ role' = "none" /\ phase' = "idle"
    /\ sis' = NoSis /\ pending' = {} /\ old_segs' = {} /\ todo' = NoFiles /\ after' = "return"
    /\ target' = 0 /\ buffer' = {} /\ sr' = NoReader /\ curr_seg' = -1

(* frt_iw_close, after its iw_commit_i (Flush). *)
CloseWriter ==
    /\ Idle("writer") /\ buffer = {}
    /\ Forget
    /\ UNCHANGED <<store, committed>>

-----------------------------------------------------------------------------
(* IndexReader that changes the index *)

(* frt_ir_open followed by ir_acquire_write_lock in a reader that is not     *)
(* stale.                                                                    *)
OpenReader ==
    /\ role = "none"
    /\ \E g \in FoundGenerations :
         /\ Intact(segments[g].segs)
         /\ sis' = segments[g]
         /\ sr' = CleanReader(segments[g].segs)
    /\ role' = "reader"
    /\ UNCHANGED <<store, phase, pending, old_segs, todo, after, target, buffer, curr_seg, committed>>

ChangeReader(deleted, undelete, dirty, norms) ==
    /\ Idle("reader") /\ CanCommit
    /\ sr' = Reader(deleted, undelete, dirty, norms, "yes")
    /\ UNCHANGED <<store, role, phase, sis, pending, old_segs, todo, after, target, buffer,
                   curr_seg, committed>>

(* sr_delete_doc_i *)
DeleteDoc(n, d) ==
    /\ "delete" \in ReaderOps
    /\ n \in DOMAIN sis.segs /\ d \in sis.segs[n].docs
    /\ ChangeReader(Put(sr.deleted, n, sr.deleted[n] \cup {d}),
                    sr.undelete \ {n}, sr.dirty \cup {n}, sr.norms)

(* mr_undelete_all_i over sr_undelete_all_i *)
UndeleteAll ==
    /\ "undelete" \in ReaderOps
    /\ ChangeReader([n \in DOMAIN sis.segs |-> {}], DOMAIN sis.segs, {}, sr.norms)

(* sr_set_norm_i *)
SetNorm(n) ==
    /\ "norm" \in ReaderOps
    /\ n \in DOMAIN sis.segs
    /\ ChangeReader(sr.deleted, sr.undelete, sr.dirty, sr.norms \cup {n})

(* The segment infos after sr_commit_i in every segment reader. *)
ReaderSegs ==
    LET undeleted == [n \in DOMAIN sis.segs |->
            IF n \in sr.undelete THEN [sis.segs[n] EXCEPT !.dels = {}, !.del_gen = -1]
                                 ELSE sis.segs[n]]
        deleted == WithDeletions(undeleted, sr.dirty, sr.deleted)
    IN [n \in DOMAIN sis.segs |->
            IF n \in sr.norms THEN [deleted[n] EXCEPT !.norm_gen = @ + 1] ELSE deleted[n]]

ReaderFiles(segs) ==
    [f \in {DelFile(n, segs[n].del_gen) : n \in sr.dirty}
             \cup {NormFile(n, segs[n].norm_gen) : n \in sr.norms} |-> Content(segs[f.seg], f)]

(* ir_commit_i: the deleter's queue is never committed by a reader. *)
CommitReader ==
    /\ Idle("reader") /\ sr.has_changes = "yes"
    /\ curr_seg' = CurrentGeneration
    /\ StartCommit(ReaderSegs, sis.counter, ReaderFiles(ReaderSegs),
                   (UNION {DelFiles(n, sis.segs[n]) : n \in sr.undelete \cup sr.dirty})
                     \cup (UNION {NormFiles(n, sis.segs[n]) : n \in sr.norms}), "return")
    /\ UNCHANGED <<target, buffer, sr>>

(* frt_ir_close of a reader without changes. *)
CloseReader ==
    /\ Idle("reader") /\ sr.has_changes = "no"
    /\ Forget
    /\ UNCHANGED <<store, committed>>

-----------------------------------------------------------------------------
(* The steps of a commit *)

(* new_output ... os_close of one file; a compound file is copied from the   *)
(* files of its segment, so it comes after them.                             *)
WriteFile ==
    /\ phase = "write"
    /\ \E f \in DOMAIN todo :
         /\ f.kind = "cfs" => DOMAIN todo = {f}
         /\ files' = Put(files, f, todo[f])
         /\ todo' = Without(todo, {f})
    /\ UNCHANGED <<segments, torn, segments_gen, role, phase, sis, pending, old_segs, after,
                   target, buffer, sr, curr_seg, committed>>

(* Mutant: the file is opened before the generation is advanced. *)
BeginSegments_OldName ==
    /\ phase = "write" /\ DOMAIN todo = {}
    /\ LET new == Sis(sis.generation + 1, sis.version + 1, sis.counter, sis.segs)
       IN /\ sis' = new
          /\ segments' = Put(segments, sis.generation, new)
          /\ torn' = torn \cup {sis.generation}
    /\ phase' = "torn"
    /\ UNCHANGED <<files, segments_gen, role, pending, old_segs, todo, after, target, buffer, sr,
                   curr_seg, committed>>

(* frt_sis_write: generation and version advance, segments_N is created ... *)
BeginSegments ==
    /\ phase = "write" /\ DOMAIN todo = {}
    /\ LET new == Sis(sis.generation + 1, sis.version + 1, sis.counter, sis.segs)
       IN /\ sis' = new
          /\ segments' = Put(segments, new.generation, new)
          /\ torn' = torn \cup {new.generation}
    /\ phase' = "torn"
    /\ UNCHANGED <<files, segments_gen, role, pending, old_segs, todo, after, target, buffer, sr,
                   curr_seg, committed>>

(* ... and complete: this is the commit.  *)
EndSegments ==
    /\ phase = "torn"
    /\ torn' = torn \ {sis.generation}
    /\ committed' = sis
    /\ phase' = "gen"
    /\ UNCHANGED <<files, segments, segments_gen, role, memory>>

(* segments.gen; a failure to write it is ignored. *)
WriteGen ==
    /\ phase = "gen"
    /\ segments_gen' \in {sis.generation, segments_gen, -1}
    /\ phase' = "drop"
    /\ UNCHANGED <<files, segments, torn, role, memory, committed>>

AfterCommit == IF target = 0 THEN "idle" ELSE "merge"

(* Mutant: off by one in the generation of the previous segments file. *)
DropPrevious_OffByOne ==
    /\ phase = "drop"
    /\ segments' = Without(segments, {sis.generation})
    /\ torn' = torn \ {sis.generation}
    /\ phase' = CASE role = "reader" -> "dropcurr"
                  [] role # "reader" /\ after = "purge" -> "purge"
                  [] OTHER -> AfterCommit
    /\ UNCHANGED <<files, segments_gen, role, memory, committed>>

(* The previous segments file goes; a reader also deletes the one that was   *)
(* current when its commit began, and releases the write lock.               *)
DropPrevious ==
    /\ phase = "drop"
    /\ segments' = Without(segments, {sis.generation - 1})
    /\ torn' = torn \ {sis.generation - 1}
    /\ phase' = CASE role = "reader" -> "dropcurr"
                  [] role # "reader" /\ after = "purge" -> "purge"
                  [] OTHER -> AfterCommit
    /\ UNCHANGED <<files, segments_gen, role, memory, committed>>

DropCurrent ==
    /\ phase = "dropcurr"
    /\ segments' = Without(segments, {curr_seg})
    /\ torn' = torn \ {curr_seg}
    /\ Forget
    /\ UNCHANGED <<files, segments_gen, committed>>

(* deleter_commit_pending_deletions *)
PurgeFile ==
    /\ phase = "purge"
    /\ \E f \in pending :
         /\ files' = Without(files, {f})
         /\ pending' = pending \ {f}
    /\ UNCHANGED <<segments, torn, segments_gen, role, phase, sis, old_segs, todo, after, target,
                   buffer, sr, curr_seg, committed>>

PurgeSegments ==
    /\ phase = "purge"
    /\ \E g \in old_segs :
         /\ segments' = Without(segments, {g})
         /\ torn' = torn \ {g}
         /\ old_segs' = old_segs \ {g}
    /\ UNCHANGED <<files, segments_gen, role, phase, sis, pending, todo, after, target, buffer,
                   sr, curr_seg, committed>>

EndPurge ==
    /\ phase = "purge" /\ pending = {} /\ old_segs = {}
    /\ phase' = AfterCommit
    /\ UNCHANGED <<store, role, memory, committed>>

(* The process dies, or is killed, between two steps. *)
Crash ==
    /\ role # "none"
    /\ phase \in CrashPhases
    /\ Forget
    /\ UNCHANGED <<store, committed>>

-----------------------------------------------------------------------------
WriterStep ==
    \/ OpenWriter \/ Flush \/ Optimize \/ CloseWriter
    \/ \E d \in Docs : AddDoc(d)
    \/ \E D \in SUBSET Docs : DeleteTerm(D) \/ AddReaders(D)

ReaderStep ==
    \/ OpenReader \/ UndeleteAll \/ CommitReader \/ CloseReader
    \/ \E n \in DOMAIN sis.segs : SetNorm(n) \/ \E d \in Docs : DeleteDoc(n, d)

CommitStep ==
    \/ MaybeMerge \/ OptimizeStep
    \/ WriteFile \/ BeginSegments \/ EndSegments \/ WriteGen
    \/ DropPrevious \/ DropCurrent \/ PurgeFile \/ PurgeSegments \/ EndPurge

Next == WriterStep \/ ReaderStep \/ CommitStep \/ Crash

Spec == Init /\ [][Next]_vars

(* An operation, once called, runs: nothing in it waits for anyone.  *)
FairSpec == Spec /\ WF_vars(CommitStep)

-----------------------------------------------------------------------------
(* Properties *)

IsMap(f, K, V) == DOMAIN f \subseteq K /\ f \in [DOMAIN f -> V]

IsSis(s) ==
    /\ s = Sis(s.generation, s.version, s.counter, s.segs)
    /\ s.generation \in Nat \cup {-1} /\ s.version \in Nat /\ s.counter \in Nat
    /\ IsMap(s.segs, Nat, SegInfo)

StoreTypeOK ==
    /\ IsMap(files, DataFile, SUBSET Docs)
    /\ segments = [g \in DOMAIN segments |-> segments[g]]
    /\ DOMAIN segments \subseteq Nat /\ torn \subseteq DOMAIN segments
    /\ \A g \in DOMAIN segments : IsSis(segments[g]) /\ segments[g].generation = g
    /\ segments_gen \in Nat \cup {-1}

ReaderTypeOK ==
    /\ sr = Reader(sr.deleted, sr.undelete, sr.dirty, sr.norms, sr.has_changes)
    /\ sr.deleted \in [DOMAIN sis.segs -> SUBSET Docs]
    /\ sr.undelete \cup sr.dirty \cup sr.norms \subseteq DOMAIN sis.segs
    /\ sr.has_changes \in {"no", "yes"}

(* Type invariant. *)
TypeOK ==
    /\ StoreTypeOK
    /\ role \in {"none", "writer", "reader"} /\ phase \in Phases
    /\ pending \subseteq DataFile /\ old_segs \subseteq Nat
    /\ IsMap(todo, DataFile, SUBSET Docs)
    /\ after \in {"purge", "return"} /\ target \in Nat \cup {-1}
    /\ buffer \subseteq Docs
    /\ IsSis(sis) /\ IsSis(committed) /\ committed.generation >= 0
    /\ role # "none" => sis.generation >= 0
    /\ role = "reader" => ReaderTypeOK

(* Every file the last commit refers to is in the store, with the content    *)
(* the commit gave it: no flush, merge, deletion, purge or crash removes or  *)
(* rewrites a file in use (iw_merge_segments, sr_commit_i, the deleter).     *)
CommittedIntact == Intact(committed.segs)

(* The segments_N of the last commit is in the store and complete, also      *)
(* while the next one is being written (frt_sis_write).                      *)
CommitReadable ==
    Readable(committed.generation) /\ segments[committed.generation] = committed

(* Whoever opens the index between two commits, or after a crash, finds the  *)
(* last commit (sis_find_segments_file after frt_sis_write).                 *)
Recoverable == phase # "torn" => FoundGenerations = {committed.generation}

(* No file a purge is going to delete is needed by the segments the writer   *)
(* holds: the deleter's queue is safe at every moment a commit could be cut. *)
QueueSafe == role = "writer" => pending \cap SisFiles(sis.segs) = {}

Orphans == DOMAIN files \ (SisFiles(sis.segs) \cup pending \cup {CoreFile(sis.counter)})

(* While a writer is between two operations the only files in the store that *)
(* nothing refers to and nobody will delete are old .del files.              *)
OnlyDelOrphans == Idle("writer") => \A f \in Orphans : f.kind = "del"

(* Every operation that was begun comes to an end, the loops of merges       *)
(* included: iw_maybe_merge_segments raises its target and iw_optimize_i     *)
(* shortens the list of segments in every turn.                              *)
OperationEnds == phase # "idle" ~> phase = "idle"

(* A reader's commit is in the store when ir_commit_i returns. *)
ReaderCommitStays ==
    [][phase = "dropcurr" /\ role' = "none" /\ segments' # segments
        => committed.generation \in DOMAIN segments']_vars
=============================================================================
