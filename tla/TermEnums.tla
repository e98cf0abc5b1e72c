----------------------------- MODULE TermEnums ------------------------------
(* The enumerators of frt_index.c over the files of PostingFiles: the terms   *)
(* of a field (SegmentTermEnum, MultiTermEnum, FrtTermInfosReader) and the    *)
(* documents and positions of a term (SegmentTermDocEnum, SegmentTermPosEnum, *)
(* MultiTermDocEnum). An operator takes an enumerator and returns it as the   *)
(* call leaves it; "more" holds what a call on documents returned, and a call *)
(* on terms returned NULL exactly when the current term is 0.                 *)
(*                                                                            *)
(* r is a reader: r.subs[i] has the segment (seg), its deletions (del) and    *)
(* whether its bit vector exists (bv); r.starts are the first document        *)
(* numbers of the sub readers and, last, max_doc; r.maps[i] is field_num_map. *)
EXTENDS PostingFiles, PriorityQueue

-----------------------------------------------------------------------------
(* SegmentTermEnum *)

\* frt_ste_new
NewSte == [field |-> -1, pos |-> -1, size |-> 0, in |-> 0, term |-> 0, ti |-> NoTi]

\* Decodes a cell of .tis or .tix after prev.
ReadTerm(prev, c) ==
  [term |-> prev.term + c.term,
   ti   |-> [doc_freq    |-> c.doc_freq,
             frq_ptr     |-> prev.ti.frq_ptr + c.frq,
             prx_ptr     |-> prev.ti.prx_ptr + c.prx,
             skip_offset |-> IF c.doc_freq >= SkipInterval THEN c.skip
                                                           ELSE prev.ti.skip_offset]]

\* ste_next; every place past the last term is the same.
SteNext(seg, te) ==
  IF te.pos + 1 >= te.size THEN [te EXCEPT !.pos = te.size, !.term = 0]
  ELSE LET e == ReadTerm(te, seg.tis[te.in + 1]) IN
       [te EXCEPT !.pos = @ + 1, !.in = @ + 1, !.term = e.term, !.ti = e.ti]

\* ste_set_field
SteSetField(seg, te, f) ==
  [NewSte EXCEPT !.field = f,
                 !.size = IF f \in DOMAIN seg.tfx THEN seg.tfx[f].size ELSE 0,
                 !.in   = IF f \in DOMAIN seg.tfx THEN seg.tfx[f].ptr ELSE te.in]

\* sti_ensure_index_is_read: the index of a field, decoded.
IndexTerms(seg, f) ==
  LET sti == seg.tfx[f]
      entry[k \in 0..sti.index_cnt] ==
        IF k = 0 THEN [term |-> 0, ti |-> NoTi, ptr |-> 0]
        ELSE LET c == seg.tix[sti.index_ptr + k]
                 e == ReadTerm(entry[k - 1], c)
             IN [term |-> e.term, ti |-> e.ti, ptr |-> entry[k - 1].ptr + c.ptr]
  IN [k \in 1..sti.index_cnt |-> entry[k]]

\* sti_get_index_offset: binary search for the last element of keys that is
\* not above key, 0 if there is none.
RECURSIVE Bisect(_, _, _, _)
Bisect(keys, key, lo, hi) ==
  LET mid == (lo + hi) \div 2 IN
  IF hi < lo THEN hi
  ELSE IF key < keys[mid] THEN Bisect(keys, key, lo, mid - 1)
  ELSE IF key > keys[mid] THEN Bisect(keys, key, mid + 1, hi)
  ELSE mid

\* Mutant of SteIndexSeek: the place of the next term, not of the one before it.
SteIndexSeek_Ahead(te, index, k) ==
  [te EXCEPT !.in = index[k].ptr, !.pos = IndexInterval * (k - 1),
             !.term = index[k].term, !.ti = index[k].ti]

\* frt_ste_index_seek, k counted from 1
SteIndexSeek(te, index, k) ==
  [te EXCEPT !.in = index[k].ptr, !.pos = IndexInterval * (k - 1) - 1,
             !.term = index[k].term, !.ti = index[k].ti]

\* te_skip_to
RECURSIVE TeSkipTo(_, _, _)
TeSkipTo(seg, te, term) ==
  IF te.term >= term THEN te
  ELSE LET n == SteNext(seg, te) IN
       IF n.term = 0 THEN n ELSE TeSkipTo(seg, n, term)

\* The index entry that ends the part in which te is: C divides towards zero.
EnumOffset(te) == (IF te.pos < 0 /\ IndexInterval > 1 THEN 0 ELSE te.pos \div IndexInterval) + 1

\* ste_scan_to: near the current place it scans on, otherwise it seeks by the
\* index, forwards or backwards.
SteScanTo(seg, te, term) ==
  IF te.field \notin DOMAIN seg.tfx \/ seg.tfx[te.field].size = 0 THEN te
  ELSE LET index == IndexTerms(seg, te.field)
           near  == /\ te.pos < te.size
                    /\ te.term <= term
                    /\ \/ EnumOffset(te) = Len(index)
                       \/ term < index[EnumOffset(te) + 1].term
       IN IF term = 0 THEN SteNext(seg, SteIndexSeek(te, index, 1))
          ELSE IF near THEN TeSkipTo(seg, te, term)
          ELSE TeSkipTo(seg, SteIndexSeek(te, index,
                               Bisect([k \in 1..Len(index) |-> index[k].term],
                                      term, 1, Len(index))), term)

-----------------------------------------------------------------------------
(* FrtTermInfosReader: one enumerator for each thread, one field for all. *)

\* frt_tir_open
NewTir(threads) == [field |-> -1, te |-> [th \in threads |-> NewSte], used |-> {}]

\* tir_enum: a thread's enumerator is made when the thread first needs it.
TirEnum(seg, tir, th) ==
  IF th \in tir.used THEN tir
  ELSE [tir EXCEPT !.te[th] = SteSetField(seg, NewSte, tir.field), !.used = @ \cup {th}]

\* tir_get_ti_field: the reader after the lookup; the term is found if it is
\* then the current one of the thread's enumerator.
TirGetTi(seg, tir, th, f, term) ==
  LET a == TirEnum(seg, tir, th)
      b == IF f = a.field THEN a
           ELSE [a EXCEPT !.te[th] = SteSetField(seg, @, f), !.field = f]
  IN [b EXCEPT !.te[th] = SteScanTo(seg, @, term)]

-----------------------------------------------------------------------------
(* SegmentTermDocEnum and SegmentTermPosEnum *)

\* frt_stde_new, frt_stpe_new. The pointer to the deletions is taken here.
NewStde(sub, positions) ==
  [positions |-> positions, bv |-> sub.bv, more |-> FALSE,
   count |-> 0, doc_freq |-> 0, doc_num |-> 0, freq |-> 0,
   skip_doc |-> 0, skip_count |-> 0, num_skips |-> 0, have_skipped |-> FALSE,
   frq_ptr |-> 0, prx_ptr |-> 0, skip_ptr |-> 0,
   in |-> 0, skip_in |-> 0, prx_in |-> 0, prx_cnt |-> 0, position |-> 0]

\* stde_seek_ti, stpe_seek_ti
StdeSeekTi(e, ti) ==
  [e EXCEPT !.count = 0, !.doc_freq = ti.doc_freq, !.doc_num = 0,
            !.skip_doc = 0, !.skip_count = 0,
            !.num_skips = ti.doc_freq \div SkipInterval,
            !.frq_ptr = ti.frq_ptr, !.prx_ptr = ti.prx_ptr,
            !.skip_ptr = ti.frq_ptr + ti.skip_offset,
            !.in = ti.frq_ptr, !.have_skipped = FALSE,
            !.prx_in = IF e.positions THEN ti.prx_ptr ELSE @]

\* stde_seek, stpe_seek
StdeSeek(e, found, ti) ==
  LET s == IF found THEN StdeSeekTi(e, ti) ELSE [e EXCEPT !.doc_freq = 0]
  IN [s EXCEPT !.prx_cnt = IF e.positions THEN 0 ELSE @]

\* stde_next; skip_prox leaves out the positions of a deleted document.
RECURSIVE StdeNext(_, _)
StdeNext(sub, e) ==
  LET c == Cell(sub.seg.frq, e.in)
      n == [e EXCEPT !.in = @ + 1, !.doc_num = @ + c[1], !.freq = c[2], !.count = @ + 1]
  IN IF e.count >= e.doc_freq THEN [e EXCEPT !.more = FALSE]
     ELSE IF e.bv /\ n.doc_num \in sub.del
            THEN StdeNext(sub, [n EXCEPT !.prx_in = IF e.positions THEN @ + n.freq ELSE @])
            ELSE [n EXCEPT !.more = TRUE]

\* stpe_next: positions that were not asked for are skipped first.
StpeNext(sub, e) ==
  LET n == StdeNext(sub, [e EXCEPT !.prx_in = @ + (IF e.prx_cnt > 0 THEN e.prx_cnt ELSE 0)])
  IN [n EXCEPT !.prx_cnt = IF n.more THEN n.freq ELSE 0, !.position = 0]

\* tde->next of an enumerator of a segment
TdeNext(sub, e) == IF e.positions THEN StpeNext(sub, e) ELSE StdeNext(sub, e)

\* The loop of stde_skip_to over the skip data; last is the entry before the
\* one that was read last.
RECURSIVE SkipScan(_, _, _, _)
SkipScan(seg, e, target, last) ==
  LET past == [doc |-> e.skip_doc, frq |-> e.frq_ptr, prx |-> e.prx_ptr,
               num |-> last.num + (IF e.skip_doc # 0 /\ e.skip_doc >= e.doc_num
                                     THEN SkipInterval ELSE 0)]
      c == Cell(seg.frq, e.skip_in)
  IN IF target <= e.skip_doc THEN [e |-> e, last |-> last]
     ELSE IF e.skip_count >= e.num_skips THEN [e |-> e, last |-> past]
     ELSE SkipScan(seg, [e EXCEPT !.skip_doc = @ + c[1], !.frq_ptr = @ + c[2],
                                  !.prx_ptr = @ + c[3], !.skip_in = @ + 1,
                                  !.skip_count = @ + 1], target, past)

\* The first part of stde_skip_to: as far as the skip data leads.
SkipAhead(seg, e, target) ==
  LET s == SkipScan(seg,
                    [e EXCEPT !.skip_in = IF e.have_skipped THEN @ ELSE e.skip_ptr,
                              !.have_skipped = TRUE],
                    target,
                    [doc |-> e.skip_doc, frq |-> e.in, prx |-> -1,
                     num |-> -1 - (e.count % SkipInterval)])
  IN IF s.last.frq <= e.in THEN s.e
     ELSE [s.e EXCEPT !.in = s.last.frq, !.doc_num = s.last.doc, !.count = @ + s.last.num,
                      !.prx_in  = IF e.positions THEN s.last.prx ELSE @,
                      !.prx_cnt = IF e.positions THEN 0 ELSE @]

RECURSIVE ScanTo(_, _, _)
ScanOn(sub, e, target) == IF e.more /\ target > e.doc_num THEN ScanTo(sub, e, target) ELSE e
ScanTo(sub, e, target) ==
  ScanOn(sub, TdeNext(sub, e), target)

\* stde_skip_to
StdeSkipTo(sub, e, target) ==
  ScanTo(sub, IF e.doc_freq >= SkipInterval /\ target > e.doc_num
                THEN SkipAhead(sub.seg, e, target) ELSE e, target)

\* stde_read: at most num documents, [e, got]
RECURSIVE StdeRead(_, _, _)
StdeReadOn(sub, e, num) ==
  IF ~e.more THEN [e |-> e, got |-> <<>>]
  ELSE [StdeRead(sub, e, num) EXCEPT !.got = << <<e.doc_num, e.freq>> >> \o @]
StdeRead(sub, e, num) ==
  IF num = 0 THEN [e |-> e, got |-> <<>>] ELSE StdeReadOn(sub, StdeNext(sub, e), num - 1)

Delta(stream, ptr) == IF ptr + 1 \in DOMAIN stream THEN stream[ptr + 1] ELSE 1

\* stpe_next_position: the enumerator, with the position or -1 in "position".
StpeNextPosition(sub, e) ==
  IF e.prx_cnt > 0
    THEN [e EXCEPT !.prx_cnt = @ - 1, !.prx_in = @ + 1,
                   !.position = @ + Delta(sub.seg.prx, e.prx_in)]
    ELSE [e EXCEPT !.prx_cnt = @ - 1]

-----------------------------------------------------------------------------
(* MultiTermEnum: the terms of all sub readers, merged. *)

\* tew_lt
TewLt(tews) ==
  [i, j \in DOMAIN tews |->
     \/ tews[i].term < tews[j].term
     \/ tews[i].term = tews[j].term /\ i < j]

\* The queue of the sub enumerators among subs that have a current term.
RECURSIVE TewQueue(_, _, _)
TewQueue(tews, subs, i) ==
  IF i = 0 THEN <<>>
  ELSE LET q == TewQueue(tews, subs, i - 1) IN
       IF i \in subs /\ tews[i].term # 0
         THEN Push(q, i, TewLt(tews)) ELSE q

\* The loop of mte_next: all sub enumerators at the current term go on.
RECURSIVE PopMatches(_, _)
PopMatches(r, m) ==
  LET top  == m.queue[1]
      rest == Pop(m.queue, TewLt(m.tews))
      tews == [m.tews EXCEPT ![top] = SteNext(r.subs[top].seg, @)]
  IN IF m.queue = <<>> \/ m.tews[top].term # m.term THEN m
     ELSE PopMatches(r, [m EXCEPT
            !.tis = Append(@, [index |-> top, ti |-> m.tews[top].ti]),
            !.doc_freq = @ + m.tews[top].ti.doc_freq,
            !.tews = tews,
            !.queue = IF tews[top].term # 0
                        THEN Push(rest, top, TewLt(tews)) ELSE rest])

\* mte_next; at the end the term infos of the last term stay.
MteNext(r, m) ==
  IF m.queue = <<>> THEN [m EXCEPT !.term = 0]
  ELSE PopMatches(r, [m EXCEPT !.term = m.tews[m.queue[1]].term, !.doc_freq = 0, !.tis = <<>>])

\* frt_mr_get_field_num, mte_set_field: the sub enumerators that have the
\* field begin with its first term, the others are marked with field -1.
MteSetField(r, m, f) ==
  LET has  == {i \in DOMAIN r.subs : r.maps[i][f] >= 0}
      tews == [i \in DOMAIN r.subs |->
                 IF i \in has
                   THEN SteNext(r.subs[i].seg, SteSetField(r.subs[i].seg, m.tews[i], r.maps[i][f]))
                   ELSE [m.tews[i] EXCEPT !.field = -1]]
  IN [m EXCEPT !.tews = tews, !.queue = TewQueue(tews, has, Len(tews))]

\* frt_mte_new without a term
MteNew(r, f) ==
  MteSetField(r, [term |-> 0, doc_freq |-> 0, tis |-> <<>>, queue |-> <<>>,
                  tews |-> [i \in DOMAIN r.subs |-> SteSetField(r.subs[i].seg, NewSte, 0)]], f)

\* mte_skip_to
MteSkipTo(r, m, term) ==
  LET has  == {i \in DOMAIN r.subs : m.tews[i].field >= 0}
      tews == [i \in DOMAIN r.subs |->
                 IF i \in has THEN SteScanTo(r.subs[i].seg, m.tews[i], term) ELSE m.tews[i]]
  IN MteNext(r, [m EXCEPT !.tews = tews, !.queue = TewQueue(tews, has, Len(tews))])

-----------------------------------------------------------------------------
(* MultiTermDocEnum: the enumerators of the sub readers, one after the other. *)
(* ptr counts from 1 and is Len(subs) + 1 at the end; curr is 0 for NULL.     *)

\* mtxe_new, mtde_new, mtpe_new
NewMtde(r, positions) ==
  [base |-> 0, ptr |-> 1, curr |-> 0, more |-> FALSE,
   state |-> [i \in DOMAIN r.subs |-> FALSE],
   te    |-> MteNew(r, 0),
   tdes  |-> [i \in DOMAIN r.subs |-> NewStde(r.subs[i], positions)]]

\* mtde_next_tde
MtdeNextTde(r, m) ==
  LET left == {i \in m.ptr + 1..Len(r.subs) : m.state[i]}
      next == CHOOSE i \in left : \A j \in left : i <= j
  IN IF left = {} THEN [m EXCEPT !.ptr = Len(r.subs) + 1, !.curr = 0]
     ELSE [m EXCEPT !.ptr = next, !.curr = next, !.base = r.starts[next]]

\* mtde_seek_te, with the term infos the term enumerator collected
MtdeSeekTe(r, m, tis) ==
  LET Ti(i) == LET k == CHOOSE k \in DOMAIN tis : tis[k].index = i IN tis[k].ti
      has   == {tis[k].index : k \in DOMAIN tis}
  IN MtdeNextTde(r, [m EXCEPT !.state = [i \in DOMAIN r.subs |-> i \in has],
                              !.tdes  = [i \in DOMAIN r.subs |->
                                           IF i \in has THEN StdeSeekTi(@[i], Ti(i)) ELSE @[i]],
                              !.base = 0,
                              !.ptr = 0])

\* mtde_seek: without the term only the state is cleared.
MtdeSeekFrom(r, m, term) ==
  IF m.te.term = term THEN MtdeSeekTe(r, m, m.te.tis)
  ELSE [m EXCEPT !.state = [i \in DOMAIN r.subs |-> FALSE]]
MtdeSeek(r, m, f, term) ==
  MtdeSeekFrom(r, [m EXCEPT !.te = MteSkipTo(r, MteSetField(r, @, f), term)], term)

\* The current enumerator has moved.
WithTde(m, e) == [m EXCEPT !.tdes[m.curr] = e, !.more = e.more]

\* mtde_next
RECURSIVE MtdeNext(_, _)
MtdeNextOr(r, m) ==
  IF m.curr # 0 THEN MtdeNext(r, m) ELSE [m EXCEPT !.more = FALSE]
MtdeNextFrom(r, m) ==
  IF m.curr # 0 /\ m.more THEN m ELSE MtdeNextOr(r, MtdeNextTde(r, m))
MtdeNext(r, m) ==
  MtdeNextFrom(r, IF m.curr = 0 THEN m
                  ELSE WithTde(m, TdeNext(r.subs[m.curr], m.tdes[m.curr])))

\* mtde_skip_to: a sub reader that ends before the target is left out.
RECURSIVE MtdeSkipTo(_, _, _)
MtdeSkipFrom(r, m, target) ==
  IF m.more THEN m ELSE MtdeSkipTo(r, MtdeNextTde(r, m), target)
MtdeSkipTo(r, m, target) ==
  IF m.curr = 0 THEN [m EXCEPT !.more = FALSE]
  ELSE MtdeSkipFrom(r, IF target >= r.starts[m.ptr + 1] THEN [m EXCEPT !.more = FALSE]
                       ELSE WithTde(m, StdeSkipTo(r.subs[m.curr], m.tdes[m.curr],
                                                  target - m.base)), target)

\* mtde_read: [e, got]
RECURSIVE MtdeRead(_, _, _)
\* The loop around stde_read; s is its answer.
MtdeReadOn(r, m, s, num) ==
  LET n    == [m EXCEPT !.tdes[m.curr] = s.e]
      docs == [k \in DOMAIN s.got |-> <<s.got[k][1] + m.base, s.got[k][2]>>]
  IN IF Len(docs) = num THEN [e |-> n, got |-> docs]
     ELSE [MtdeRead(r, IF docs = <<>> THEN MtdeNextTde(r, n) ELSE n, num - Len(docs))
             EXCEPT !.got = docs \o @]
MtdeRead(r, m, num) ==
  IF m.curr = 0 THEN [e |-> m, got |-> <<>>]
  ELSE MtdeReadOn(r, m, StdeRead(r.subs[m.curr], m.tdes[m.curr], num), num)

-----------------------------------------------------------------------------
(* A document enumerator of the reader r, of whichever kind. *)

TdNext(r, e) == IF r.multi THEN MtdeNext(r, e) ELSE TdeNext(r.subs[1], e)
TdSkipTo(r, e, target) ==
  IF r.multi THEN MtdeSkipTo(r, e, target) ELSE StdeSkipTo(r.subs[1], e, target)

\* The enumerator of the segment that is being read; mtde_doc_num, mtde_freq.
Reading(r, e) == IF r.multi THEN e.tdes[e.curr] ELSE e
TdDoc(r, e)   == (IF r.multi THEN e.base ELSE 0) + Reading(r, e).doc_num
TdFreq(r, e)  == Reading(r, e).freq

\* mtde_next_position, stpe_next_position: [e, pos]
TdNextPosition(r, e) ==
  LET now  == Reading(r, e)
      next == StpeNextPosition(r.subs[IF r.multi THEN e.curr ELSE 1], now)
  IN [e   |-> IF r.multi THEN [e EXCEPT !.tdes[e.curr] = next] ELSE next,
      pos |-> IF now.prx_cnt > 0 THEN next.position ELSE -1]

=============================================================================
