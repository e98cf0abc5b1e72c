--------------------------- MODULE SegmentMerger ----------------------------
(* SegmentMerger of frt_index.c: several segments become one without their    *)
(* deleted documents. Document numbers are mapped, postings are read with the *)
(* enumerators of TermEnums and written again, positions are copied as they   *)
(* are encoded.                                                               *)
EXTENDS TermEnums

\* smi_load_doc_map: the number of a document among those that are left.
DocMap(sub) ==
  [d \in 0..sub.seg.size - 1 |->
     IF sub.bv /\ d \in sub.del THEN -1
     ELSE Cardinality({c \in 0..d - 1 : ~(sub.bv /\ c \in sub.del)})]

\* Mutant of DocCnt: deleted documents are counted.
DocCnt_All(sub) == sub.seg.size

\* smi->doc_cnt
DocCnt(sub) == Cardinality({d \in 0..sub.seg.size - 1 : ~(sub.bv /\ d \in sub.del)})

\* sm_append_postings, for one of the segments with the term.
RECURSIVE AppendPostings(_, _, _)
AppendPostings(sub, base, e) ==
  LET n == StdeNext(sub, e) IN
  IF ~n.more THEN <<>>
  ELSE << [doc |-> base + DocMap(sub)[n.doc_num],
           prx |-> SubSeq(sub.seg.prx, n.prx_in + 1, n.prx_in + n.freq)] >>
       \o AppendPostings(sub, base, [n EXCEPT !.prx_in = @ + n.freq])

\* smi_lt
SmiLt(smis) ==
  [i, j \in DOMAIN smis |->
     \/ smis[i].te.term < smis[j].te.term
     \/ smis[i].te.term = smis[j].te.term /\ smis[i].base < smis[j].base]

RECURSIVE PushAll(_, _, _)
PushAll(smis, queue, is) ==
  IF is = <<>> THEN queue
  ELSE PushAll(smis,
               IF smis[Head(is)].te.term = 0 THEN queue
               ELSE Push(queue, Head(is), SmiLt(smis)),
               Tail(is))

\* The segments at the first term, taken off the queue: [queue, matches]
RECURSIVE PopTerm(_, _, _)
PopTerm(smis, queue, term) ==
  IF queue = <<>> \/ smis[queue[1]].te.term # term THEN [queue |-> queue, matches |-> <<>>]
  ELSE LET rest == PopTerm(smis, Pop(queue, SmiLt(smis)), term)
       IN [rest EXCEPT !.matches = <<queue[1]>> \o @]

\* sm_merge_term_infos, for one field: the terms with their merged postings.
RECURSIVE MergeTerms(_, _)
MergeTerms(smis, queue) ==
  IF queue = <<>> THEN <<>>
  ELSE LET term  == smis[queue[1]].te.term
           p     == PopTerm(smis, queue, term)
           moved == [i \in DOMAIN smis |->
                       IF i \in Range(p.matches)
                         THEN [smis[i] EXCEPT !.te = SteNext(smis[i].sub.seg, @)]
                         ELSE smis[i]]
           Postings(i) == AppendPostings(smis[i].sub, smis[i].base,
                            StdeSeekTi(NewStde(smis[i].sub, TRUE), smis[i].te.ti))
       IN << [term |-> term,
              postings |-> FlattenSeq([k \in DOMAIN p.matches |-> Postings(p.matches[k])])] >>
          \o MergeTerms(moved, PushAll(moved, p.queue, Reverse(p.matches)))

\* Mutant of MergeNorms: the bytes of deleted documents are copied too.
MergeNorms_All(subs, f) ==
  FlattenSeq([i \in DOMAIN subs |->
    [d \in 1..subs[i].seg.size |-> IF f \in DOMAIN subs[i].norms THEN subs[i].norms[f][d] ELSE 0]])

\* sm_merge_norms: bytes of deleted documents are left out, a segment without
\* norms for the field gives zeros.
MergeNorms(subs, f) ==
  FlattenSeq([i \in DOMAIN subs |->
    LET left == SelectSeq([d \in 1..subs[i].seg.size |-> d - 1],
                          LAMBDA d : ~(subs[i].bv /\ d \in subs[i].del))
    IN [k \in DOMAIN left |-> IF f \in DOMAIN subs[i].norms
                                THEN subs[i].norms[f][left[k] + 1] ELSE 0]])

\* sm_create, sm_merge: a field of the index is started whether or not a
\* segment has it.
SmMerge(subs) ==
  LET bases[i \in 0..Len(subs)] == IF i = 0 THEN 0 ELSE bases[i - 1] + DocCnt(subs[i])
      Smis(f) == [i \in DOMAIN subs |->
                    [sub |-> subs[i], base |-> bases[i - 1],
                     te |-> SteNext(subs[i].seg, SteSetField(subs[i].seg, NewSte, f))]]
      Add(out, f) == WriteField(out, f,
                       MergeTerms(Smis(f), PushAll(Smis(f), <<>>, [i \in 1..Len(subs) |-> i])))
      merged == FoldLeft(Add, EmptySegment, [k \in 1..NumFields |-> k - 1])
  IN [merged EXCEPT !.size = bases[Len(subs)],
                    !.norms = [f \in Fields |-> MergeNorms(subs, f)]]

=============================================================================
