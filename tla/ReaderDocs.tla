----------------------------- MODULE ReaderDocs -----------------------------
(* The documents of an IndexReader (frt_index.c): which of them are deleted,  *)
(* their norms, and the two caches of a MultiReader over them. A document is  *)
(* named by its number in the reader, and the sub reader that has it is found *)
(* with DocNumbers. A SegmentReader is a reader of one segment; it caches     *)
(* nothing here.                                                              *)
(*                                                                            *)
(* The calls on the reader are as the code has them. The writer that changes  *)
(* the index between two readers is given by what the next reader finds; the  *)
(* module MultiReader has its steps in detail, and the other calls on a       *)
(* reader, and implements this one.                                           *)
(*                                                                            *)
(* A sub reader has the segment (seg), the norms of its documents by field    *)
(* number (norms), its deletions (del) and whether their bit vector exists    *)
(* (bv).                                                                      *)
EXTENDS DocNumbers, FiniteSets

VARIABLES ir,       \* the reader
          docs,     \* every document of the index, by document number from 1 on
          gone,     \* the document numbers that were deleted
          normed,   \* the documents and fields whose norm was set
          reply     \* what the last call was about, and if its answer was right

readerVars == <<ir, docs, gone, normed, reply>>

Reply(about, right) == reply' = [about |-> about, right |-> right]

-----------------------------------------------------------------------------
(* Opening *)

NoNorms == [cached |-> FALSE, bytes |-> <<>>]

\* frt_mr_init, ir_setup. fis are the names of the fields, in order; maps are
\* the numbers of the fields in the sub readers.
Reader(subs, fis, maps, ext) ==
  [multi |-> ext \/ Len(subs) # 1, ext |-> ext, subs |-> subs,
   starts |-> Starts([i \in DOMAIN subs |-> subs[i].seg.size]),
   fis |-> fis, maps |-> maps, num_docs_cache |-> -1,
   has_deletions |-> \E i \in DOMAIN subs : subs[i].bv,
   norms_cache |-> [f \in 0..Len(fis) - 1 |-> NoNorms]]

UsedFields == 0..Len(ir.fis) - 1

MaxDoc(r) == r.starts[Len(r.subs) + 1]

\* The segments of one index share its fields.
SameNumbers(subs, fis) == [i \in DOMAIN subs |-> [f \in 0..Len(fis) - 1 |-> f]]

-----------------------------------------------------------------------------
(* Changes of the reader *)

\* mr_reader_index_i
ReaderIndex(r, d) == IndexOf(r.starts, d)

\* Mutant of DeleteDoc: the cached number of documents stays.
DeleteDoc_KeepCount(d) ==
  LET i == ReaderIndex(ir, d) IN
  /\ ir' = [ir EXCEPT !.subs[i].del = @ \cup {d - ir.starts[i]}, !.subs[i].bv = TRUE,
                      !.has_deletions = TRUE]
  /\ gone' = gone \cup {d}
  /\ UNCHANGED <<docs, normed, reply>>

\* frt_ir_delete_doc, mr_delete_doc_i, sr_delete_doc_i
DeleteDoc(d) ==
  LET i == ReaderIndex(ir, d) IN
  /\ ir' = [ir EXCEPT !.subs[i].del = @ \cup {d - ir.starts[i]}, !.subs[i].bv = TRUE,
                      !.num_docs_cache = -1, !.has_deletions = TRUE]
  /\ gone' = gone \cup {d}
  /\ UNCHANGED <<docs, normed, reply>>

\* frt_ir_undelete_all, mr_undelete_all_i, sr_undelete_all_i
UndeleteAll ==
  /\ ir' = [ir EXCEPT !.subs = [i \in DOMAIN @ |-> [@[i] EXCEPT !.del = {}, !.bv = FALSE]],
                      !.num_docs_cache = -1, !.has_deletions = FALSE]
  /\ gone' = {}
  /\ UNCHANGED <<docs, normed, reply>>

\* ir_set_norm_i, mr_set_norm_i, sr_set_norm_i: the cached norms of the field
\* with the sub reader's number are dropped.
SetNorm(d, f) ==
  LET i    == ReaderIndex(ir, d)
      fnum == ir.maps[i][f]
  IN /\ fnum >= 0
     /\ ir' = [ir EXCEPT !.norms_cache[fnum] = NoNorms,
                         !.subs[i].norms = IF fnum \notin DOMAIN @ THEN @
                                           ELSE [@ EXCEPT ![fnum][d - ir.starts[i] + 1] = 2]]
     /\ normed' = IF fnum \in DOMAIN ir.subs[i].norms THEN normed \cup {<<d, f>>} ELSE normed
     /\ UNCHANGED <<docs, gone, reply>>

-----------------------------------------------------------------------------
(* Questions *)

\* mr_num_docs, sr_num_docs: the documents of all sub readers that are left.
LiveDocs(r) ==
  LET live[i \in 0..Len(r.subs)] ==
        IF i = 0 THEN 0
        ELSE live[i - 1] + r.subs[i].seg.size - Cardinality(r.subs[i].del)
  IN live[Len(r.subs)]

NumDocs ==
  LET num == IF ir.multi /\ ir.num_docs_cache # -1 THEN ir.num_docs_cache ELSE LiveDocs(ir)
  IN /\ ir' = [ir EXCEPT !.num_docs_cache = IF ir.multi THEN num ELSE @]
     /\ Reply("counts", num = Len(docs) - Cardinality(gone))
     /\ UNCHANGED <<docs, gone, normed>>

\* sr_get_norms_into_i: a segment that lacks the field gives zeros.
SubNorm(sub, fnum, k) == IF fnum \in DOMAIN sub.norms THEN sub.norms[fnum][k + 1] ELSE 0

\* The sub reader whose documents include number d.
PartOf(r, d) == CHOOSE i \in DOMAIN r.subs : r.starts[i] <= d /\ d < r.starts[i + 1]

\* The norms of all documents for a field: every sub reader writes its own
\* from its start on.
AllNorms(r, f) ==
  [k \in 1..MaxDoc(r) |->
     LET i == PartOf(r, k - 1) IN SubNorm(r.subs[i], r.maps[i][f], k - 1 - r.starts[i])]

\* The norms as they were flushed, or set since then.
RightNorms(f) ==
  [d \in 1..Len(docs) |-> IF <<d - 1, f>> \in normed THEN 2
                          ELSE IF ir.fis[f + 1] \in DOMAIN docs[d] THEN 1 ELSE 0]

\* mr_get_norms, sr_get_norms_into
GetNorms(f) ==
  LET got == IF ir.norms_cache[f].cached THEN ir.norms_cache[f].bytes ELSE AllNorms(ir, f)
  IN /\ ir' = [ir EXCEPT !.norms_cache[f] =
                 IF ir.multi THEN [cached |-> TRUE, bytes |-> got] ELSE @]
     /\ Reply("counts", got = RightNorms(f))
     /\ UNCHANGED <<docs, gone, normed>>

\* A call that is not about deletions, numbers of documents or norms.
OtherCall ==
  /\ UNCHANGED <<ir, docs, gone, normed>>
  /\ reply'.about # "counts"

-----------------------------------------------------------------------------
(* A writer between two readers *)

\* What sr_open makes of a segment.
IsSub(sub) ==
  /\ sub = [seg |-> sub.seg, norms |-> sub.norms, del |-> sub.del, bv |-> sub.bv]
  /\ sub.seg.size \in Nat
  /\ \A fnum \in DOMAIN sub.norms : DOMAIN sub.norms[fnum] = 1..sub.seg.size
  /\ sub.del \subseteq 0..sub.seg.size - 1
  /\ sub.bv = (sub.del # {})

IsSubs(subs) ==
  /\ Len(subs) \in Nat /\ DOMAIN subs = 1..Len(subs)
  /\ \A i \in DOMAIN subs : IsSub(subs[i])

\* frt_ir_close, ir_open_i
Reopened ==
  /\ ~ir.ext
  /\ IsSubs(ir'.subs)
  /\ ir' = Reader(ir'.subs, ir.fis, SameNumbers(ir'.subs, ir.fis), FALSE)
  /\ UNCHANGED reply

\* The first n segments are as they were.
Kept(n) == \A i \in 1..n : ir'.subs[i] = ir.subs[i]

\* A flush: one more segment, of the documents that are new.
SegmentAdded ==
  LET n == Len(ir.subs) + 1 IN
  /\ Len(ir'.subs) = n
  /\ Reopened /\ Kept(n - 1)
  /\ ir'.subs[n].del = {}
  /\ Len(docs') = Len(docs) + ir'.subs[n].seg.size
  /\ \A d \in 1..Len(docs) : docs'[d] = docs[d]
  /\ \A d \in Len(docs) + 1..Len(docs'), f \in UsedFields :
       SubNorm(ir'.subs[n], f, d - Len(docs) - 1) =
         IF ir.fis[f + 1] \in DOMAIN docs'[d] THEN 1 ELSE 0
  /\ UNCHANGED <<gone, normed>>

\* frt_iw_delete_term: more documents are deleted, each in its segment.
TermDeleted ==
  /\ Len(ir'.subs) = Len(ir.subs)
  /\ Reopened
  /\ gone \subseteq gone' /\ gone' \subseteq 0..Len(docs) - 1
  /\ \A i \in DOMAIN ir.subs :
       LET old == ir.subs[i]
           new == {k \in 0..old.seg.size - 1 : ir.starts[i] + k \in gone' \ gone}
       IN ir'.subs[i] = [old EXCEPT !.del = @ \cup new, !.bv = old.del \cup new # {}]
  /\ UNCHANGED <<docs, normed>>

\* iw_merge_segments_from: the segments from min on become one, of the
\* documents that are not deleted, in their order and with their norms.
SegmentsMerged(min) ==
  LET m      == ir.starts[min]
      live   == (m..Len(docs) - 1) \ gone
      New(d) == m + Cardinality({e \in live : e < d})
  IN /\ Len(ir'.subs) = min
     /\ Reopened /\ Kept(min - 1)
     /\ ir'.subs[min].seg.size = Cardinality(live) /\ ir'.subs[min].del = {}
     /\ Len(docs') = m + Cardinality(live)
     /\ \A d \in 1..m : docs'[d] = docs[d]
     /\ \A d \in live :
          /\ docs'[New(d) + 1] = docs[d + 1]
          /\ \A f \in UsedFields :
               SubNorm(ir'.subs[min], f, New(d) - m) = AllNorms(ir, f)[d + 1]
     /\ gone' = {d \in gone : d < m}
     /\ normed' = {x \in normed : x[1] < m}
                    \cup {<<New(x[1]), x[2]>> : x \in {y \in normed : y[1] \in live}}

-----------------------------------------------------------------------------
\* The documents that are deleted in the sub readers.
Deleted(r) ==
  {d \in 0..MaxDoc(r) - 1 : LET i == PartOf(r, d) IN d - r.starts[i] \in r.subs[i].del}

\* frt_mr_open: a field has a number in a sub reader that has it, else -1.
IsFieldMap(map, fis) ==
  \A f \in 0..Len(fis) - 1 :
    /\ map[f] \in -1..Len(fis) - 1
    /\ \A g \in 0..Len(fis) - 1 : map[f] = map[g] => f = g \/ map[f] = -1

\* A reader that was just opened, no norm of it set yet.
ReaderInit ==
  /\ IsSubs(ir.subs) /\ Len(ir.fis) \in Nat /\ ir.ext \in BOOLEAN
  /\ \A i \in DOMAIN ir.subs : IsFieldMap(ir.maps[i], ir.fis)
  /\ ~ir.ext => ir.maps = SameNumbers(ir.subs, ir.fis)
  /\ ir = Reader(ir.subs, ir.fis, ir.maps, ir.ext)
  /\ Len(docs) = MaxDoc(ir)
  /\ gone = Deleted(ir) /\ normed = {}
  /\ \A f \in UsedFields : AllNorms(ir, f) = RightNorms(f)
  /\ reply = [about |-> "none", right |-> TRUE]

\* A norm is set only for a field with the same number in the sub reader: with
\* another number the code drops the cached norms of the wrong field.
ReaderNext ==
  \/ OtherCall
  \/ \E d \in 0..MaxDoc(ir) - 1 : DeleteDoc(d)
  \/ UndeleteAll
  \/ \E d \in 0..MaxDoc(ir) - 1, f \in UsedFields :
       ir.maps[ReaderIndex(ir, d)][f] = f /\ SetNorm(d, f)
  \/ NumDocs
  \/ \E f \in UsedFields : GetNorms(f)
  \/ SegmentAdded
  \/ TermDeleted
  \/ \E min \in DOMAIN ir.subs : SegmentsMerged(min)

ReaderSpec == ReaderInit /\ [][ReaderNext]_readerVars

-----------------------------------------------------------------------------
(* Properties *)

\* Types: the reader counts all documents of the index, and a cache holds
\* nothing or what it is for.
TypeOK ==
  /\ MaxDoc(ir) = Len(docs)
  /\ gone \subseteq 0..Len(docs) - 1
  /\ ir.num_docs_cache \in -1..MaxDoc(ir)
  /\ \A f \in UsedFields :
       ir.norms_cache[f].cached => DOMAIN ir.norms_cache[f].bytes = 1..MaxDoc(ir)

\* num_docs and norms answer for the deletions and norms as they are now,
\* although both are cached.
CachesAreFresh == reply.about = "counts" => reply.right

\* Exactly the documents are deleted whose deletion was asked for: by document
\* number, through the sub reader that has it, or by a term; and a merge
\* removes these and no others.
DeletionsAreExact ==
  /\ gone = Deleted(ir)
  /\ ir.has_deletions \/ gone = {}

=============================================================================
