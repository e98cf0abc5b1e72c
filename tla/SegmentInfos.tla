---------------------------- MODULE SegmentInfos ----------------------------
(* The vocabulary of the on-disk index: the names of the files of a segment, *)
(* what a FrtSegmentInfo says about a segment, which files a segment needs,  *)
(* which files the deleter queues when a segment is dropped, and which files *)
(* the deleter finds orphaned when a writer opens the index.                 *)
(*                                                                           *)
(* A segment name is the number new_segment() formats in base 36.  The seven *)
(* COMPOUND_EXTENSIONS files of a segment are always written, copied and     *)
(* deleted together: they are one "core" file here.  One field has norms.    *)
EXTENDS Integers

CONSTANT Docs      \* the documents that can be in the index

-----------------------------------------------------------------------------
(* File names.  segments_N and segments.gen are kept apart (IndexCommit). *)

CoreFile(n)    == [kind |-> "core", seg |-> n, gen |-> 0]   \* _n.frq, _n.prx, _n.fdx ...
CfsFile(n)     == [kind |-> "cfs",  seg |-> n, gen |-> 0]   \* _n.cfs
DelFile(n, g)  == [kind |-> "del",  seg |-> n, gen |-> g]   \* _n_g.del
NormFile(n, g) == [kind |-> "norm", seg |-> n, gen |-> g]   \* _n_g.f0, _n_g.s0

DataFile == [kind : {"core", "cfs", "del", "norm"}, seg : Nat, gen : Nat]

(* What a FrtSegmentInfo records.  The model keeps the set of documents that *)
(* doc_cnt counts, and (dels) the deletions the current .del file stands for;*)
(* format is "compound" when use_compound_file is set.                       *)
SegInfo == [docs : SUBSET Docs, dels : SUBSET Docs,
            del_gen : Nat \cup {-1}, norm_gen : Nat \cup {-1},
            format : {"plain", "compound"}]

(* sis->segs, keyed by segment name: names come from a growing counter, new  *)
(* segments are appended and merges replace a suffix, so the order of the    *)
(* array is the order of the names.                                          *)
NoSegs == [n \in {} |-> {}]

-----------------------------------------------------------------------------
(* frt_si_new: a segment about to be filled. *)
NewSegInfo(docs, format) ==
    [docs |-> docs, dels |-> {}, del_gen |-> -1, norm_gen |-> 0,
     format |-> format]

HasDeletions(si)     == si.del_gen >= 0
IsCompound(si)       == si.format = "compound"
HasSeparateNorms(si) == IsCompound(si) /\ si.norm_gen > 0

LiveDocs(segs) == UNION {segs[n].docs \ segs[n].dels : n \in DOMAIN segs}

(* The norms file of a segment that is a file of the store of its own. *)
NormFiles(n, si) == IF si.norm_gen >= 0 THEN {NormFile(n, si.norm_gen)} ELSE {}
DelFiles(n, si)  == IF HasDeletions(si) THEN {DelFile(n, si.del_gen)} ELSE {}

(* The files sr_setup_i opens: the norms of generation 0 of a compound       *)
(* segment are read from inside the .cfs.                                    *)
SegFiles(n, si) ==
    (IF IsCompound(si)
       THEN {CfsFile(n)} \cup (IF HasSeparateNorms(si) THEN NormFiles(n, si) ELSE {})
       ELSE {CoreFile(n)} \cup NormFiles(n, si))
    \cup DelFiles(n, si)

SisFiles(segs) == UNION {SegFiles(n, segs[n]) : n \in DOMAIN segs}

(* What the bytes of a file stand for: a .del file a set of deletions, every *)
(* other file the documents of its segment.                                  *)
Content(si, f) == IF f.kind = "del" THEN si.dels ELSE si.docs

-----------------------------------------------------------------------------
(* Mutants: the .cfs, or the norms, of a merged segment are not queued. *)
SiDeleteFiles_KeepCfs(n, si) ==
    NormFiles(n, si) \cup DelFiles(n, si) \cup (IF IsCompound(si) THEN {} ELSE {CoreFile(n)})
SiDeleteFiles_KeepNorms(n, si) ==
    IF IsCompound(si) THEN {CfsFile(n)} \cup DelFiles(n, si) ELSE {CoreFile(n), CfsFile(n)}

(* si_delete_files: what the deleter queues for a segment that was merged    *)
(* away.  For a segment that is not compound the loop over INDEX_EXTENSIONS  *)
(* queues "_n.del", a name no deletions file has.                            *)
SiDeleteFiles(n, si) ==
    NormFiles(n, si)
    \cup (IF IsCompound(si) THEN {CfsFile(n)} \cup DelFiles(n, si)
                                  ELSE {CoreFile(n), CfsFile(n)})

(* file_name_filter_is_cfs_file: would this file be inside the .cfs of its   *)
(* segment?  A norms file is one unless its extension is "s" (si_norm_file_  *)
(* name: compound segment, generation above 0).                              *)
IsCfsFile(f, si) ==
    \/ f.kind = "core"
    \/ f.kind = "norm" /\ ~(IsCompound(si) /\ f.gen > 0)

(* Mutants: the generation of a .del file, or of a norms file, is not        *)
(* compared with the one the segment uses.                                   *)
IsDeletable_AnyDel(f, segs) ==
    \/ f.seg \notin DOMAIN segs
    \/ f.kind = "del"
    \/ IsCfsFile(f, segs[f.seg]) /\ IsCompound(segs[f.seg])
IsDeletable_AnyNorm(f, segs) ==
    \/ f.seg \notin DOMAIN segs
    \/ f.kind = "norm"
    \/ f.kind = "del" /\ f.gen # segs[f.seg].del_gen

(* frt_deleter_find_deletable_files_i, for a file that is not segments_N. *)
IsDeletable(f, segs) ==
    \/ f.seg \notin DOMAIN segs
    \/ LET si == segs[f.seg]
       IN \/ IsCfsFile(f, si) /\ IsCompound(si)
          \/ f.kind = "del"  /\ f.gen # si.del_gen
          \/ f.kind = "norm" /\ f.gen # si.norm_gen
          \/ f.kind = "cfs"  /\ ~IsCompound(si)
=============================================================================
