---------------------------- MODULE MultiReader -----------------------------
(* An IndexReader and what its callers get from it (frt_index.c): a           *)
(* SegmentReader for an index of one segment, otherwise a MultiReader over    *)
(* the segments of one index or over several indexes, with the deletions,     *)
(* norms and caches of ReaderDocs, term enumerators, document enumerators and *)
(* phrases. Between two readers the index may get a new segment, lose the     *)
(* documents of a term or have its last segments merged.                      *)
(*                                                                            *)
(* A call runs to its end: Ruby's interpreter lock is held. What the caller   *)
(* gets is compared with "docs", the documents as they were added, and        *)
(* "gone", those whose deletion was asked for.                                *)
EXTENDS SegmentMerger, PhraseScorer, ReaderDocs, FiniteSets

CONSTANTS Indexes,      \* the indexes to start with: documents, field names, and
                        \* bounds on the changes of the reader or of the index and
                        \* on the seeks of document enumerators
          Phrases,      \* phrases to search for: terms, their places, slop
          Threads,      \* threads that look up terms
          Added,        \* the documents a writer may add, a segment of their own
          Extra         \* calls the enumerators do not support: "reseek", "mapped_norms"

VARIABLES tirs,     \* the term dictionaries of the sub readers
          te,       \* a term enumerator
          tde,      \* a document enumerator
          ph,       \* the scorer of a phrase
          budget    \* how many changes and seeks are left

enumVars == <<tirs, te, tde, ph>>
vars == <<readerVars, enumVars, budget>>

None == [open |-> FALSE]

-----------------------------------------------------------------------------
(* Opening *)

\* sr_open
Sub(seg, norms, del) == [seg |-> seg, norms |-> norms, del |-> del, bv |-> del # {}]
NewTirs(subs) == [i \in DOMAIN subs |-> NewTir(Threads)]

\* frt_mr_open: the fields of all indexes in the order of their appearance. A
\* map from them to those of each index is only made if it is needed.
MergedNames(names) ==
  FoldLeft(LAMBDA fis, n : IF n \in Range(fis) THEN fis ELSE Append(fis, n),
           <<>>, FlattenSeq(names))

FieldNum(fis, name) ==
  IF name \in Range(fis) THEN (CHOOSE k \in DOMAIN fis : fis[k] = name) - 1 ELSE -1

FieldMaps(subs, names) ==
  LET fis  == MergedNames(names)
      need == \E i \in DOMAIN names : \E k \in DOMAIN names[i] : fis[k] # names[i][k]
  IN IF ~need THEN SameNumbers(subs, fis)
     ELSE [i \in DOMAIN names |-> [f \in 0..Len(fis) - 1 |-> FieldNum(names[i], fis[f + 1])]]

\* A document by field numbers.
ByNumber(doc, names) ==
  [f \in {k - 1 : k \in {k \in DOMAIN names : names[k] \in DOMAIN doc}} |-> doc[names[f + 1]]]

NewSub(seg) == Sub(seg, seg.norms, {})
Flushed(segdocs, names) ==
  NewSub(DwFlush([d \in DOMAIN segdocs |-> ByNumber(segdocs[d], names)]))

Init ==
  /\ \E x \in Indexes :
       \E subs \in {[i \in DOMAIN x.docs |-> Flushed(x.docs[i], x.names[i])]} :
       /\ ir = Reader(subs, MergedNames(x.names),
                      IF x.ext THEN FieldMaps(subs, x.names)
                      ELSE SameNumbers(subs, MergedNames(x.names)), x.ext)
       /\ tirs = NewTirs(subs)
       /\ docs = FlattenSeq(x.docs)
       /\ budget = x.budget
  /\ te = None /\ tde = None /\ ph = None
  /\ gone = {} /\ normed = {}
  /\ reply = [about |-> "none", right |-> TRUE]

\* A change of the reader or of the index.
Change == budget.changes > 0 /\ budget' = [budget EXCEPT !.changes = @ - 1]

\* Term enumerators, document enumerators and the two caches share only what a
\* Change changes, so calls of one kind are not interleaved with the others.
Idle == ~te.open /\ ~tde.open /\ ~ph.open
NoNormsUsed == normed = {} /\ \A f \in UsedFields : ~ir.norms_cache[f].cached
NoTermsUsed == ir.multi => \A i \in DOMAIN tirs : tirs[i].used = {}
NothingUsed == ir.num_docs_cache = -1 /\ NoNormsUsed /\ NoTermsUsed

-----------------------------------------------------------------------------
(* Calls of ReaderDocs *)

\* Enumerators may be open while a document is deleted.
CallDeleteDoc(d) == Change /\ ~ph.open /\ DeleteDoc(d) /\ UNCHANGED enumVars

\* The bit vectors are freed: the enumerators that point to them are closed
\* before.
CallUndeleteAll == Change /\ ~tde.open /\ ~ph.open /\ UndeleteAll /\ UNCHANGED enumVars

CallSetNorm(d, f) ==
  /\ Change /\ Idle /\ NoTermsUsed
  /\ ir.maps[ReaderIndex(ir, d)][f] # f => "mapped_norms" \in Extra
  /\ SetNorm(d, f)
  /\ UNCHANGED enumVars

CallNumDocs == Idle /\ NoTermsUsed /\ NumDocs /\ UNCHANGED <<enumVars, budget>>

CallGetNorms(f) == Idle /\ NoTermsUsed /\ GetNorms(f) /\ UNCHANGED <<enumVars, budget>>

-----------------------------------------------------------------------------
(* Questions *)

\* The documents with a term of a field, deleted or not.
Matching(f, term) == {d \in 0..Len(docs) - 1 : HasTerm(docs[d + 1], ir.fis[f + 1], term)}

\* mr_doc_freq, sr_doc_freq
DocFreq(th, f, term) ==
  LET fnum(i) == ir.maps[i][f]
      after == [i \in DOMAIN tirs |->
                  IF fnum(i) < 0 THEN tirs[i]
                  ELSE TirGetTi(ir.subs[i].seg, tirs[i], th, fnum(i), term)]
      Freq(i) == IF fnum(i) >= 0 /\ after[i].te[th].term = term
                   THEN after[i].te[th].ti.doc_freq ELSE 0
      total == MapThenSumSet(Freq, DOMAIN ir.subs)
  IN /\ Idle /\ ir.num_docs_cache = -1 /\ NoNormsUsed
     /\ tirs' = after
     /\ Reply("terms", total = Cardinality(Matching(f, term)))
     /\ UNCHANGED <<ir, te, tde, ph, docs, gone, normed, budget>>

-----------------------------------------------------------------------------
(* Term enumerators *)

TermsFrom(f, low) == {t \in Terms : t >= low /\ Matching(f, t) # {}}

\* What a term enumerator is to show: the first of the terms, or the end.
TermReply(f, e, from) ==
  LET freq == IF ir.multi THEN e.doc_freq ELSE e.ti.doc_freq
      first == CHOOSE t \in from : \A u \in from : t <= u
  IN Reply("terms", IF from = {} THEN e.term = 0
           ELSE e.term = first /\ freq = Cardinality(Matching(f, first)))

\* sr_terms, mr_terms
OpenTermEnum(f) ==
  /\ Idle /\ NothingUsed
  /\ te' = [open |-> TRUE, f |-> f, low |-> 1,
            e |-> IF ir.multi THEN MteNew(ir, f)
                  ELSE SteSetField(ir.subs[1].seg, NewSte, f)]
  /\ UNCHANGED <<ir, tirs, tde, ph, docs, gone, normed, reply, budget>>

\* After e the next term is above the current one; after the end there is none.
Moved(e) == [te EXCEPT !.e = e, !.low = IF e.term = 0 THEN NumTerms + 1 ELSE e.term + 1]

\* The document enumerator, if there is one, is not among the documents of a term.
Between == tde.open => tde.term = 0 \/ tde.low = Len(docs)

\* te->next
TermNext ==
  /\ te.open /\ Between
  /\ LET e == IF ir.multi THEN MteNext(ir, te.e) ELSE SteNext(ir.subs[1].seg, te.e) IN
     /\ te' = Moved(e)
     /\ TermReply(te.f, e, TermsFrom(te.f, te.low))
  /\ UNCHANGED <<ir, tirs, tde, ph, docs, gone, normed, budget>>

\* te->skip_to, forwards or backwards
TermSkipTo(term) ==
  /\ te.open /\ Between
  /\ LET e == IF ir.multi THEN MteSkipTo(ir, te.e, term)
              ELSE SteScanTo(ir.subs[1].seg, te.e, term)
     IN /\ te' = Moved(e)
        /\ TermReply(te.f, e, TermsFrom(te.f, term))
  /\ UNCHANGED <<ir, tirs, tde, ph, docs, gone, normed, budget>>

CloseTermEnum ==
  /\ te.open /\ ~tde.open
  /\ te' = None
  /\ UNCHANGED <<ir, tirs, tde, ph, docs, gone, normed, reply, budget>>

-----------------------------------------------------------------------------
(* Document enumerators. Beside the enumerator, tde has the term it is at,    *)
(* the first document number it has still to show, the document it is at, how *)
(* many of its positions were asked for, and what was deleted when it was     *)
(* opened.                                                                    *)

\* ir->term_docs, ir->term_positions
OpenEnum(positions) ==
  /\ ~tde.open /\ ~ph.open /\ NothingUsed
  /\ tde' = [open |-> TRUE, positions |-> positions, old |-> gone,
             f |-> 0, term |-> 0, low |-> 0, doc |-> -1, taken |-> 0,
             e |-> IF ir.multi THEN NewMtde(ir, positions) ELSE NewStde(ir.subs[1], positions)]
  /\ UNCHANGED <<ir, tirs, te, ph, docs, gone, normed, reply, budget>>

\* A MultiTermDocEnum that is through with its documents and positions.
Drained(e) == e.curr = 0 /\ \A i \in DOMAIN e.tdes : e.tdes[i].prx_cnt <= 0

MaySeek ==
  /\ budget.seeks > 0 /\ budget' = [budget EXCEPT !.seeks = @ - 1]
  /\ ir.multi /\ "reseek" \notin Extra => Drained(tde.e)

Sought(e, f, term) ==
  [tde EXCEPT !.e = e, !.f = f, !.term = term, !.low = 0, !.doc = -1, !.taken = 0]

\* stde_seek, stpe_seek, mtde_seek
Seek(th, f, term) ==
  LET tir == TirGetTi(ir.subs[1].seg, tirs[1], th, f, term)
      at  == tir.te[th]
  IN /\ tde.open /\ ~te.open /\ MaySeek
     /\ IF ir.multi
          THEN /\ tde' = Sought(MtdeSeek(ir, tde.e, f, term), f, term)
               /\ UNCHANGED tirs
          ELSE /\ tde' = Sought(StdeSeek(tde.e, at.term = term, at.ti), f, term)
               /\ tirs' = [tirs EXCEPT ![1] = tir]
     /\ UNCHANGED <<ir, te, ph, docs, gone, normed, reply>>

\* stde_seek_te, mtde_seek_te: to the current term of the term enumerator. An
\* enumerator of positions in one segment has only the part for documents.
SeekTe ==
  /\ tde.open /\ te.open /\ MaySeek
  /\ te.e.term # 0
  /\ tde.positions /\ ~ir.multi => "reseek" \in Extra
  /\ tde' = Sought(IF ir.multi THEN MtdeSeekTe(ir, tde.e, te.e.tis)
                   ELSE StdeSeekTi([tde.e EXCEPT !.positions = FALSE], te.e.ti),
                   te.f, te.e.term)
  /\ UNCHANGED <<ir, tirs, te, ph, docs, gone, normed, reply>>

\* got are at most num documents with their frequencies. All of them have the
\* term, none was deleted when the enumerator was opened, they are in order,
\* and of those that are not deleted now none from low on is left out.
RightDocs(got, low, num) ==
  LET all == Matching(tde.f, tde.term) IN
  /\ Len(got) <= num
  /\ \A k \in DOMAIN got :
       /\ got[k][1] \in all \ tde.old
       /\ got[k][1] >= IF k = 1 THEN low ELSE got[k - 1][1] + 1
       /\ got[k][2] = Len(Positions(docs[got[k][1] + 1][ir.fis[tde.f + 1]], tde.term))
  /\ \A d \in all \ gone :
       \/ d < low
       \/ \E k \in DOMAIN got : got[k][1] = d
       \/ Len(got) = num /\ d > got[num][1]

\* tde->doc_num, tde->freq: what a caller sees of the enumerator e.
Current(e) ==
  IF e.more THEN << <<TdDoc(ir, e), TdFreq(ir, e)>> >> ELSE <<>>

\* The enumerator after a call that showed got.
Shown(e, got) ==
  [tde EXCEPT !.e = e, !.taken = 0,
              !.doc = IF got = <<>> THEN -1 ELSE got[Len(got)][1],
              !.low = IF got = <<>> THEN Len(docs) ELSE got[Len(got)][1] + 1]

DocReply(e, low) ==
  /\ tde' = Shown(e, Current(e))
  /\ Reply("docs", RightDocs(Current(e), low, 1))
  /\ UNCHANGED <<ir, tirs, te, ph, docs, gone, normed, budget>>

\* tde->next
DocNext ==
  /\ tde.open /\ tde.term # 0
  /\ DocReply(TdNext(ir, tde.e), tde.low)

\* tde->skip_to: always at least one document further
DocSkipTo(target) ==
  /\ tde.open /\ tde.term # 0
  /\ DocReply(TdSkipTo(ir, tde.e, target),
              IF target > tde.low THEN target ELSE tde.low)

\* tde->read: several documents in one call, only without positions
DocRead(num) ==
  /\ tde.open /\ tde.term # 0 /\ ~tde.positions
  /\ \E s \in {IF ir.multi THEN MtdeRead(ir, tde.e, num) ELSE StdeRead(ir.subs[1], tde.e, num)} :
       /\ tde' = Shown(s.e, s.got)
       /\ Reply("docs", RightDocs(s.got, tde.low, num))
  /\ UNCHANGED <<ir, tirs, te, ph, docs, gone, normed, budget>>

\* tde->next_position: the positions of the current document in turn, then -1.
\* A caller stops at the first -1.
NextPosition ==
  LET ps == Positions(docs[tde.doc + 1][ir.fis[tde.f + 1]], tde.term)
      n  == tde.taken + 1
      p  == TdNextPosition(ir, tde.e)
  IN /\ tde.open /\ tde.positions /\ tde.doc # -1
     /\ tde.taken <= Len(ps)
     /\ tde' = [tde EXCEPT !.taken = n, !.e = p.e]
     /\ Reply("docs", p.pos = IF n <= Len(ps) THEN ps[n] ELSE -1)
     /\ UNCHANGED <<ir, tirs, te, ph, docs, gone, normed, budget>>

CloseEnum ==
  /\ tde.open
  /\ tde' = None
  /\ UNCHANGED <<ir, tirs, te, ph, docs, gone, normed, reply, budget>>

-----------------------------------------------------------------------------
(* Phrases *)

\* phw_scorer: an enumerator for every position. Those of a segment look the
\* terms up in the dictionary of the reader, one after the other.
OpenPhrase(th, f, phrase) ==
  LET all  == FlattenSeq(phrase.terms)
      tir[k \in 0..Len(all)] ==
        IF k = 0 THEN tirs[1]
        ELSE TirGetTi(ir.subs[1].seg, tir[k - 1], th, f, all[k])
      Enum(k) ==
        IF ir.multi THEN MtdeSeek(ir, NewMtde(ir, TRUE), f, all[k])
        ELSE StdeSeek(NewStde(ir.subs[1], TRUE), tir[k].te[th].term = all[k], tir[k].te[th].ti)
      Before(i) == Len(FlattenSeq(SubSeq(phrase.terms, 1, i - 1)))
      Tpe(i) ==
        IF Len(phrase.terms[i]) = 1 THEN Enum(Before(i) + 1)
        ELSE MtdpeNew(ir, [j \in DOMAIN phrase.terms[i] |-> Enum(Before(i) + j)])
  IN /\ Idle /\ NothingUsed
     /\ ph' = [open |-> TRUE, f |-> f, phrase |-> phrase, low |-> 0,
               s |-> PhscNew([i \in DOMAIN phrase.terms |-> PpNew(Tpe(i), phrase.offsets[i])],
                             phrase.slop, all)]
     /\ tirs' = IF ir.multi THEN tirs ELSE [tirs EXCEPT ![1] = tir[Len(all)]]
     /\ UNCHANGED <<ir, te, tde, docs, gone, normed, reply, budget>>

\* The ways to find the terms of the phrase in a document no further apart than
\* slop allows: the places of the terms, no two the same.
Found(d) ==
  LET tokens == docs[d + 1][ir.fis[ph.f + 1]]
      p      == ph.phrase
  IN IF ir.fis[ph.f + 1] \notin DOMAIN docs[d + 1] THEN {}
     ELSE {at \in [DOMAIN p.terms -> 1..Len(tokens)] :
             \A i, j \in DOMAIN at :
               /\ tokens[at[i]] \in Range(p.terms[i])
               /\ i # j => at[i] # at[j]
               /\ (at[i] - p.offsets[i]) - (at[j] - p.offsets[j]) <= p.slop}

\* The scorer has the first document from low on with the phrase and, if it is
\* exact, the number of its places there, or it is at its end.
PhraseReply(s, low) ==
  LET with == {d \in (low..Len(docs) - 1) \ gone : Found(d) # {}} IN
  /\ ph' = [ph EXCEPT !.s = s, !.low = IF s.more THEN s.doc + 1 ELSE Len(docs)]
  /\ Reply("phrases",
           IF ~s.more THEN with = {}
           ELSE /\ s.doc \in with /\ \A d \in with : s.doc <= d
                /\ s.slop = 0 => s.freq = Cardinality(Found(s.doc)))
  /\ UNCHANGED <<ir, tirs, te, tde, docs, gone, normed, budget>>

\* phsc_next, not after a skip_to that came to the end
PhraseNext ==
  /\ ph.open /\ (ph.s.more \/ ~ph.s.first_time)
  /\ PhraseReply(PhscNext(ir, ph.s), ph.low)

\* phsc_skip_to, not at the end
PhraseSkipTo(d) ==
  /\ ph.open /\ ph.s.more
  /\ PhraseReply(PhscSkipTo(ir, ph.s, d), IF d > ph.low THEN d ELSE ph.low)

ClosePhrase ==
  /\ ph.open
  /\ ph' = None
  /\ UNCHANGED <<ir, tirs, te, tde, docs, gone, normed, reply, budget>>

-----------------------------------------------------------------------------
(* A writer changes the index between two readers: the reader is closed,      *)
(* which commits its changes, and opened again.                               *)

Reopen(subs) ==
  /\ Idle /\ ~ir.ext
  /\ Change
  /\ ir' = Reader([i \in DOMAIN subs |-> Sub(subs[i].seg, subs[i].norms, subs[i].del)],
                  ir.fis, SameNumbers(subs, ir.fis), FALSE)
  /\ tirs' = NewTirs(subs)
  /\ UNCHANGED <<te, tde, ph, reply>>

\* frt_iw_add_doc and a flush: a segment with one more document
AddSegment(doc) ==
  /\ Reopen(Append(ir.subs, Flushed(<<doc>>, ir.fis)))
  /\ docs' = Append(docs, doc)
  /\ UNCHANGED <<gone, normed>>

\* The loop of frt_iw_delete_term in one segment. The enumerator has taken the
\* deletions as they were when it was opened.
RECURSIVE DeleteAll(_, _)
DeleteAll(sub, e) ==
  LET n == StdeNext(sub, e) IN
  IF ~n.more THEN sub
  ELSE DeleteAll([sub EXCEPT !.del = @ \cup {n.doc_num}, !.bv = TRUE], n)

\* frt_iw_delete_term, frt_iw_delete_terms
DeleteTerm(th, f, term) ==
  LET Done(sub) ==
        LET at == TirGetTi(sub.seg, NewTir(Threads), th, f, term).te[th] IN
        DeleteAll(sub, StdeSeek(NewStde(sub, FALSE), at.term = term, at.ti))
      closed == [i \in DOMAIN ir.subs |-> Sub(ir.subs[i].seg, ir.subs[i].norms, ir.subs[i].del)]
  IN /\ Reopen([i \in DOMAIN closed |-> Done(closed[i])])
     /\ gone' = gone \cup Matching(f, term)
     /\ UNCHANGED <<docs, normed>>

\* iw_merge_segments_from: the last segments become one.
Merge(min) ==
  LET n      == Len(ir.subs)
      left   == SelectSeq([d \in 1..Len(docs) |-> d],
                          LAMBDA d : d <= ir.starts[min] \/ d - 1 \notin gone)
  IN /\ min < n \/ (n = 1 /\ ir.has_deletions)
     /\ Reopen(Append(SubSeq(ir.subs, 1, min - 1), NewSub(SmMerge(SubSeq(ir.subs, min, n)))))
     /\ docs' = [k \in DOMAIN left |-> docs[left[k]]]
     /\ gone' = {d \in gone : d < ir.starts[min]}
     /\ normed' = {x \in (0..Len(left) - 1) \X Fields : <<left[x[1] + 1] - 1, x[2]>> \in normed}

-----------------------------------------------------------------------------
Next ==
  \/ \E d \in 0..MaxDoc(ir) - 1 : CallDeleteDoc(d)
  \/ CallUndeleteAll
  \/ \E d \in 0..MaxDoc(ir) - 1, f \in UsedFields : CallSetNorm(d, f)
  \/ CallNumDocs
  \/ \E f \in UsedFields : CallGetNorms(f)
  \/ \E th \in Threads, f \in UsedFields, t \in Terms : DocFreq(th, f, t)
  \/ \E f \in UsedFields : OpenTermEnum(f)
  \/ TermNext
  \/ \E t \in 0..NumTerms : TermSkipTo(t)
  \/ CloseTermEnum
  \/ \E positions \in BOOLEAN : OpenEnum(positions)
  \/ \E th \in Threads, f \in UsedFields, t \in Terms : Seek(th, f, t)
  \/ SeekTe
  \/ DocNext
  \/ \E d \in 0..MaxDoc(ir) : DocSkipTo(d)
  \/ \E num \in 1..3 : DocRead(num)
  \/ NextPosition
  \/ CloseEnum
  \/ \E th \in Threads, f \in UsedFields, p \in Phrases : OpenPhrase(th, f, p)
  \/ PhraseNext
  \/ \E d \in 0..MaxDoc(ir) : PhraseSkipTo(d)
  \/ ClosePhrase
  \/ \E doc \in Added : AddSegment(doc)
  \/ \E th \in Threads, f \in UsedFields, t \in Terms : DeleteTerm(th, f, t)
  \/ \E min \in DOMAIN ir.subs : Merge(min)

Spec == Init /\ [][Next]_vars

-----------------------------------------------------------------------------
(* Properties *)

\* The documents, frequencies and positions an enumerator shows are those of
\* the term, whatever the order of next, skip_to, read and next_position,
\* whatever is deleted meanwhile, in segments that were flushed or merged.
EnumerationIsExact == reply.about = "docs" => reply.right

\* A phrase is found in exactly the documents that have its terms as close as
\* slop allows, an exact one as often as it is there, whatever the order of
\* next and skip_to; positions left unread in one document do not disturb the
\* next one.
PhrasesAreExact == reply.about = "phrases" => reply.right

\* A term enumerator shows the terms of its field in order, forwards and
\* backwards, with the number of documents that have the term; doc_freq agrees.
TermsAreExact == reply.about = "terms" => reply.right

\* What a reader says of deletions, numbers of documents and norms is as in
\* ReaderDocs: the flush, the loop of frt_iw_delete_term and the merger leave
\* the segments that the next reader is to find.
ImplementsReaderDocs == ReaderSpec

=============================================================================
