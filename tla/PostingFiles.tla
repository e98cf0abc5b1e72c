---------------------------- MODULE PostingFiles ----------------------------
(* What a flush writes of the terms of a segment (frt_index.c): the posting   *)
(* lists of the buffered documents go to .frq and .prx, with the skip data of *)
(* a term behind its postings; the term dictionary goes to .tis, every        *)
(* IndexInterval-th entry also to .tix, and the extent of every field in both *)
(* to .tfx.                                                                   *)
(*                                                                            *)
(* A stream is a sequence of cells and an offset is a number of cells. What   *)
(* the code writes as a difference is a difference here, so that a reader     *)
(* decodes it only from the right place and with the right predecessor. A     *)
(* term is a number from 1 on, in the order of strcmp, and 0 is the empty     *)
(* string; a shared prefix is the difference of two terms. The documents of a *)
(* segment map the fields they have, by number, to their tokens.              *)
EXTENDS Integers, Sequences, SequencesExt

CONSTANTS NumTerms, NumFields, SkipInterval, IndexInterval

ASSUME PostingConstants ==
  /\ {NumTerms, NumFields, SkipInterval, IndexInterval} \subseteq Nat \ {0}
  /\ SkipInterval > 2     \* see the README on shorter skip intervals

Terms  == 1..NumTerms
Fields == 0..NumFields - 1

\* FrtTermInfo, zeroed.
NoTi == [doc_freq |-> 0, frq_ptr |-> 0, prx_ptr |-> 0, skip_offset |-> 0]

\* A cell of a stream; past its end a reader gets something that is no posting.
Cell(stream, ptr) ==
  IF ptr + 1 \in DOMAIN stream THEN stream[ptr + 1] ELSE <<1, 1, 1>>

-----------------------------------------------------------------------------
(* Posting lists. *)

\* The positions of term in tokens: frt_pl_add_occ appends them in order.
Positions(tokens, term) ==
  SelectSeq([i \in 1..Len(tokens) |-> i - 1], LAMBDA p : tokens[p + 1] = term)

HasTerm(doc, f, term) == f \in DOMAIN doc /\ term \in Range(doc[f])

Deltas(s) == [i \in 1..Len(s) |-> IF i = 1 THEN s[1] ELSE s[i] - s[i - 1]]

\* dw_add_posting: one posting for every document with the term, in the order
\* in which the documents were added.
PostingList(docs, f, term) ==
  LET with == SelectSeq([d \in 1..Len(docs) |-> d], LAMBDA d : HasTerm(docs[d], f, term))
  IN [k \in 1..Len(with) |->
        [doc |-> with[k] - 1, prx |-> Deltas(Positions(docs[with[k]][f], term))]]

\* skip_buf_add
SkipBufAdd(w) ==
  [w EXCEPT !.skips = Append(@, << w.last_doc - w.skip_doc,
                                   Len(w.frq) - w.skip_frq,
                                   Len(w.prx) - w.skip_prx >>),
            !.skip_doc = w.last_doc,
            !.skip_frq = Len(w.frq),
            !.skip_prx = Len(w.prx)]

\* Mutant of AddPosting: the skip data points behind the posting.
AddPosting_SkipAfter(w, p) ==
  LET v == [w EXCEPT !.df = w.df + 1,
                     !.last_doc = p.doc,
                     !.frq = Append(@, <<p.doc - w.last_doc, Len(p.prx)>>),
                     !.prx = @ \o p.prx]
  IN IF v.df % SkipInterval = 0 THEN SkipBufAdd(v) ELSE v

\* One turn of the loop over the postings of a term: skip data points to the
\* posting that is about to be written.
AddPosting(w, p) ==
  LET df == w.df + 1
      v  == IF df % SkipInterval = 0 THEN SkipBufAdd(w) ELSE w
  IN [v EXCEPT !.df = df,
               !.last_doc = p.doc,
               !.frq = Append(@, <<p.doc - w.last_doc, Len(p.prx)>>),
               !.prx = @ \o p.prx]

\* The postings of one term and, behind them, its skip data.
WritePostings(out, postings) ==
  LET w == FoldLeft(AddPosting,
                    [frq |-> out.frq, prx |-> out.prx, df |-> 0, last_doc |-> 0,
                     skips |-> <<>>, skip_doc |-> 0,
                     skip_frq |-> Len(out.frq), skip_prx |-> Len(out.prx)],
                    postings)
  IN [frq |-> w.frq \o w.skips,
      prx |-> w.prx,
      ti  |-> [doc_freq    |-> w.df,
               frq_ptr     |-> Len(out.frq),
               prx_ptr     |-> Len(out.prx),
               skip_offset |-> Len(w.frq) - Len(out.frq)]]

-----------------------------------------------------------------------------
(* The term dictionary. *)

\* tw_add: a term and its FrtTermInfo, relative to the ones before.
TwCell(term, ti, last_term, last_ti, ptr) ==
  [term |-> term - last_term,
   doc_freq |-> ti.doc_freq,
   frq  |-> ti.frq_ptr - last_ti.frq_ptr,
   prx  |-> ti.prx_ptr - last_ti.prx_ptr,
   skip |-> IF ti.doc_freq >= SkipInterval THEN ti.skip_offset ELSE 0,
   ptr  |-> ptr]

\* frt_tiw_start_field: tw_reset of both writers.
StartField(out) ==
  [tis |-> out.tis, tix |-> out.tix, counter |-> 0, index_cnt |-> 0,
   last_term |-> 0, last_ti |-> NoTi, ix_term |-> 0, ix_ti |-> NoTi,
   last_index_ptr |-> 0]

\* frt_tiw_add: before every IndexInterval-th term the term before it enters
\* the index, with the place where the next one begins.
TiwAdd(w, term, ti) ==
  LET v == IF w.counter % IndexInterval # 0 THEN w
           ELSE [w EXCEPT !.tix = Append(@, TwCell(w.last_term, w.last_ti, w.ix_term, w.ix_ti,
                                                   Len(w.tis) - w.last_index_ptr)),
                          !.index_cnt = @ + 1,
                          !.ix_term = w.last_term,
                          !.ix_ti = w.last_ti,
                          !.last_index_ptr = Len(w.tis)]
  IN [v EXCEPT !.tis = Append(@, TwCell(term, ti, w.last_term, w.last_ti, 0)),
               !.counter = @ + 1,
               !.last_term = term,
               !.last_ti = ti]

\* The entries of one field, and its line in .tfx.
WriteField(out, f, lists) ==
  LET Add(w, l) ==
        LET p == WritePostings(w.out, l.postings) IN
        IF l.postings = <<>> THEN w
        ELSE [out |-> [frq |-> p.frq, prx |-> p.prx], tiw |-> TiwAdd(w.tiw, l.term, p.ti)]
      w == FoldLeft(Add, [out |-> [frq |-> out.frq, prx |-> out.prx], tiw |-> StartField(out)], lists)
  IN [out EXCEPT !.frq = w.out.frq, !.prx = w.out.prx,
                 !.tis = w.tiw.tis, !.tix = w.tiw.tix,
                 !.tfx = [g \in DOMAIN @ \cup {f} |->
                            IF g # f THEN @[g]
                            ELSE [index_ptr |-> Len(out.tix), ptr |-> Len(out.tis),
                                  index_cnt |-> w.tiw.index_cnt, size |-> w.tiw.counter]]]

EmptySegment ==
  [size |-> 0, frq |-> <<>>, prx |-> <<>>, tis |-> <<>>, tix |-> <<>>,
   tfx |-> [f \in {} |-> NoTi], norms |-> [f \in {} |-> <<>>]]

\* dw_flush: the fields some buffered document has, their terms in order. The
\* norm of a field is one byte for each document, zero if it lacks the field.
DwFlush(docs) ==
  LET inverted == {f \in Fields : \E d \in 1..Len(docs) : f \in DOMAIN docs[d]}
      Add(out, f) ==
        IF f \notin inverted THEN out
        ELSE WriteField(out, f, [t \in Terms |->
                                   [term |-> t, postings |-> PostingList(docs, f, t)]])
      written == FoldLeft(Add, EmptySegment, [i \in 1..NumFields |-> i - 1])
  IN [written EXCEPT !.size = Len(docs),
                     !.norms = [f \in inverted |->
                                  [d \in 1..Len(docs) |-> IF f \in DOMAIN docs[d] THEN 1 ELSE 0]]]

=============================================================================
