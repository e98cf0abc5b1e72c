---------------------------- MODULE PhraseScorer ----------------------------
(* The scorers of a phrase query (frt_q_phrase.c). A phrase is a sequence of  *)
(* positions, each with its terms, one of which has to be there, and its      *)
(* place in the phrase; slop is how far the positions may be moved. A scorer  *)
(* has one enumerator for each of them (PhPos), brings them to a common       *)
(* document and compares positions there, less the places in the phrase.      *)
(*                                                                            *)
(* freq counts the places where the phrase was found: for a sloppy phrase the *)
(* code adds frt_sim_sloppy_freq, which is above zero, for each of them.      *)
EXTENDS TermEnums

IntMax == 2147483647
Closed == <<>>

-----------------------------------------------------------------------------
(* MultipleTermDocPosEnum of frt_index.c: the positions of several terms as   *)
(* if they were one.                                                          *)

\* tdpe_less_than, among the enumerators of a sequence
TdpeLessThan(r, es) == [a, b \in Range(es) |-> TdDoc(r, a) < TdDoc(r, b)]

\* frt_mtdpe_new; es are enumerators that were sought, one for each term.
MtdpeNew(r, es) ==
  [pq |-> FoldLeft(LAMBDA pq, e : Push(pq, e, TdpeLessThan(r, Append(pq, e))), <<>>,
                   SelectSeq([i \in DOMAIN es |-> TdNext(r, es[i])], LAMBDA e : e.more)),
   doc_num |-> 0, freq |-> 0, pos_queue |-> <<>>, more |-> FALSE]

RECURSIVE TakePositions(_, _, _)
TakePositions(r, e, n) ==
  LET p == TdNextPosition(r, e) IN
  IF n = 0 THEN [e |-> e, ps |-> <<>>]
  ELSE LET rest == TakePositions(r, p.e, n - 1) IN [rest EXCEPT !.ps = <<p.pos>> \o @]

\* After the enumerator on top has moved: frt_pq_down, or frt_pq_pop at its end.
MtdpeMoved(r, pq, e) ==
  LET moved == [pq EXCEPT ![1] = e]
  IN IF e.more THEN Down(moved, TdpeLessThan(r, moved)) ELSE Pop(pq, TdpeLessThan(r, pq))

\* The loop of mtdpe_next: all enumerators that are at the document.
RECURSIVE MtdpeTake(_, _)
MtdpeTook(r, m, t) ==
  [m EXCEPT !.pq = MtdpeMoved(r, @, TdNext(r, t.e)),
            !.freq = @ + TdFreq(r, m.pq[1]), !.pos_queue = @ \o t.ps]
MtdpeTake(r, m) ==
  IF m.pq # <<>> /\ TdDoc(r, m.pq[1]) = m.doc_num
    THEN MtdpeTake(r, MtdpeTook(r, m, TakePositions(r, m.pq[1], TdFreq(r, m.pq[1]))))
    ELSE m

\* mtdpe_next; the positions are taken off pos_queue as they are read.
MtdpeNext(r, m) ==
  IF m.pq = <<>> THEN [m EXCEPT !.more = FALSE]
  ELSE [MtdpeTake(r, [m EXCEPT !.doc_num = TdDoc(r, m.pq[1]), !.freq = 0, !.pos_queue = <<>>])
          EXCEPT !.more = TRUE, !.pos_queue = SortSeq(@, <=)]

\* mtdpe_skip_to
RECURSIVE MtdpeSkipTo(_, _, _)
MtdpeSkipTo(r, m, target) ==
  IF m.pq # <<>> /\ target > TdDoc(r, m.pq[1])
    THEN MtdpeSkipTo(r, [m EXCEPT !.pq = MtdpeMoved(r, @, TdSkipTo(r, @[1], target))], target)
    ELSE MtdpeNext(r, m)

-----------------------------------------------------------------------------
(* PhPos. An enumerator that has come to its end is closed.                   *)

\* pp_new
PpNew(e, offset) == [tpe |-> e, offset |-> offset, count |-> -1, doc |-> -1, position |-> -1]

\* The enumerator of a position with several terms.
IsMtdpe(e) == "pq" \in DOMAIN e

PpMoved(r, pp, e) ==
  IF e.more
    THEN [pp EXCEPT !.tpe = e, !.position = 0,
                    !.doc = IF IsMtdpe(e) THEN e.doc_num ELSE TdDoc(r, e)]
    ELSE [pp EXCEPT !.tpe = Closed, !.doc = IntMax]

\* pp_next, pp_skip_to
PpNext(r, pp) ==
  PpMoved(r, pp, IF IsMtdpe(pp.tpe) THEN MtdpeNext(r, pp.tpe) ELSE TdNext(r, pp.tpe))
PpSkipTo(r, pp, doc) ==
  PpMoved(r, pp, IF IsMtdpe(pp.tpe) THEN MtdpeSkipTo(r, pp.tpe, doc)
                 ELSE TdSkipTo(r, pp.tpe, doc))

\* pp_next_position: false when count has fallen below zero
PpNextPosition(r, pp) ==
  LET p == IF IsMtdpe(pp.tpe)
             THEN [e |-> [pp.tpe EXCEPT !.pos_queue = Tail(@)], pos |-> Head(pp.tpe.pos_queue)]
             ELSE TdNextPosition(r, pp.tpe)
  IN IF pp.count <= 0 THEN [pp EXCEPT !.count = @ - 1]
     ELSE [pp EXCEPT !.count = @ - 1, !.tpe = p.e, !.position = p.pos - pp.offset]

\* pp_first_position
PpFirstPosition(r, pp) ==
  PpNextPosition(r, [pp EXCEPT !.count = IF IsMtdpe(pp.tpe) THEN pp.tpe.freq
                                         ELSE TdFreq(r, pp.tpe)])

\* pp_cmp, pp_pos_cmp, pp_less_than
PpLeq(a, b) ==
  \/ a.doc < b.doc
  \/ a.doc = b.doc /\ a.position < b.position
  \/ a.doc = b.doc /\ a.position = b.position /\ a.offset <= b.offset
PpPosLeq(a, b) == a.position <= b.position
PpLessThan(pps) ==
  [a, b \in DOMAIN pps |->
     \/ pps[a].position < pps[b].position
     \/ pps[a].position = pps[b].position /\ pps[a].offset < pps[b].offset]

PrevNum(i, cnt) == IF i = 1 THEN cnt ELSE i - 1
NextNum(i, cnt) == IF i = cnt THEN 1 ELSE i + 1

-----------------------------------------------------------------------------
(* Exact phrases *)

\* On in pp to a position that is not below pos, or to its end.
RECURSIVE ScanPositions(_, _, _)
ScanPositionsOn(r, pp, pos) ==
  IF pp.count >= 0 /\ pp.position < pos THEN ScanPositions(r, pp, pos) ELSE pp
ScanPositions(r, pp, pos) == ScanPositionsOn(r, PpNextPosition(r, pp), pos)

\* The loop of ephsc_phrase_freq
RECURSIVE ExactFrom(_, _)
ExactFrom(r, s) ==
  LET l == PrevNum(s.first, Len(s.pps))
      a == ScanPositions(r, s.pps[s.first], s.pps[l].position)
      b == PpNextPosition(r, s.pps[l])
  IN IF s.pps[s.first].position < s.pps[l].position
       THEN IF a.count < 0 THEN [s EXCEPT !.pps[s.first] = a]
            ELSE ExactFrom(r, [s EXCEPT !.pps[s.first] = a,
                                        !.first = NextNum(s.first, Len(s.pps))])
       ELSE LET m == [s EXCEPT !.pps[l] = b, !.freq = @ + 1] IN
            IF b.count < 0 THEN m ELSE ExactFrom(r, m)

\* Mutant of ExactFreq: the enumerators are not sorted by position.
ExactFreq_Unsorted(r, s) ==
  ExactFrom(r, [s EXCEPT !.first = 1, !.freq = 0,
                         !.pps = [i \in DOMAIN @ |-> PpFirstPosition(r, @[i])]])

\* ephsc_phrase_freq
ExactFreq(r, s) ==
  ExactFrom(r, [s EXCEPT !.first = 1, !.freq = 0,
                         !.pps = SortSeq([i \in DOMAIN @ |-> PpFirstPosition(r, @[i])], PpPosLeq)])

-----------------------------------------------------------------------------
(* Sloppy phrases *)

\* sphsc_check_repeats: no two terms of the phrase may be at the same position
\* of the document; pps[k] goes on until it differs from the first cnt others.
RECURSIVE CheckRepeats(_, _, _, _, _)
CheckRepeats(r, pps, k, cnt, j) ==
  LET pp == pps[k]
      n  == PpNextPosition(r, pp)
  IN IF j > cnt \/ pp.count < 0 THEN pps
     ELSE IF /\ pps[j].offset # pp.offset
             /\ pps[j].position + pps[j].offset = pp.position + pp.offset
       THEN CheckRepeats(r, [pps EXCEPT ![k] = n], k, cnt, 1)
       ELSE CheckRepeats(r, pps, k, cnt, j + 1)

\* The first loop of sphsc_phrase_freq: q is the queue of positions by index,
\* last the highest position. A term is compared with those before the one
\* before it.
RECURSIVE SloppyStart(_, _, _)
SloppyStart(r, s, i) ==
  LET f == [s.pps EXCEPT ![i] = PpFirstPosition(r, @)]
      p == IF s.check_repeats /\ i > 1 THEN CheckRepeats(r, f, i, i - 2, 1) ELSE f
  IN IF i > Len(s.pps) THEN s
     ELSE IF p[i].count < 0 THEN [s EXCEPT !.pps = p, !.done = TRUE]
     ELSE SloppyStart(r, [s EXCEPT !.pps = p,
                                   !.last = IF p[i].position > @ THEN p[i].position ELSE @,
                                   !.q = Push(@, i, PpLessThan(p))],
                      i + 1)

\* On in pps[k] while it is the lowest of all: its last such position is the
\* start of a window.
RECURSIVE Window(_, _, _, _)
Window(r, s, k, next_pos) ==
  LET pos == s.pps[k].position
      n == [s.pps EXCEPT ![k] = PpNextPosition(r, @)]
      p == IF n[k].count >= 0 /\ s.check_repeats
             THEN CheckRepeats(r, n, k, Len(n), 1) ELSE n
  IN IF pos > next_pos THEN s
     ELSE IF p[k].count < 0 THEN [s EXCEPT !.pps = p, !.start = pos, !.done = TRUE]
     ELSE Window(r, [s EXCEPT !.pps = p, !.start = pos], k, next_pos)

\* The second loop of sphsc_phrase_freq
RECURSIVE SloppyFrom(_, _)
SloppyWindow(w, k, q) ==
  [w EXCEPT !.freq = IF w.last - w.start <= w.slop THEN @ + 1 ELSE @,
            !.last = IF w.pps[k].position > @ THEN w.pps[k].position ELSE @,
            !.q = Push(q, k, PpLessThan(w.pps))]
SloppyFrom(r, s) ==
  LET k == s.q[1]
      q == Pop(s.q, PpLessThan(s.pps))
  IN IF s.done THEN s
     ELSE SloppyFrom(r, SloppyWindow(Window(r, [s EXCEPT !.start = s.pps[k].position],
                                            k, s.pps[q[1]].position), k, q))

\* sphsc_phrase_freq
SloppyFreq(r, s) ==
  [SloppyFrom(r, SloppyStart(r, [s EXCEPT !.freq = 0, !.q = <<>>, !.last = 0,
                                          !.start = 0, !.done = FALSE], 1))
     EXCEPT !.q = <<>>, !.last = 0, !.start = 0, !.done = FALSE]

-----------------------------------------------------------------------------
(* PhraseScorer; first counts from 1. q, last, start and done are the locals  *)
(* of sphsc_phrase_freq.                                                      *)

\* phsc_new; terms are those of all positions.
PhscNew(pps, slop, terms) ==
  [pps |-> pps, first |-> 1, slop |-> slop, first_time |-> TRUE, more |-> TRUE,
   check_repeats |-> slop > 0 /\ \E i, j \in DOMAIN terms : i # j /\ terms[i] = terms[j],
   freq |-> 0, doc |-> 0, q |-> <<>>, last |-> 0, start |-> 0, done |-> FALSE]

\* phsc->phrase_freq
PhraseFreq(r, s) == IF s.slop = 0 THEN ExactFreq(r, s) ELSE SloppyFreq(r, s)

\* The i-th enumerator has moved; more is what the call on it returned.
WithPp(s, i, pp) == [s EXCEPT !.pps[i] = pp, !.more = pp.tpe # Closed]

\* pp_next on the last enumerator, the one before the first
PhscNextLast(r, s) ==
  LET l == PrevNum(s.first, Len(s.pps)) IN WithPp(s, l, PpNext(r, s.pps[l]))

\* phsc_do_next: the first enumerator skips to the document of the last until
\* all are at the same one; first_idx is the local pp_first_idx.
RECURSIVE PhscDoNext(_, _, _)
PhscAtDoc(r, s, doc) ==
  IF s.freq # 0 THEN [s EXCEPT !.doc = doc]
  ELSE PhscDoNext(r, PhscNextLast(r, s), s.first)
PhscDoNext(r, s, first_idx) ==
  LET last == s.pps[PrevNum(first_idx, Len(s.pps))] IN
  IF ~s.more THEN s
  ELSE IF s.pps[first_idx].doc < last.doc
    THEN PhscDoNext(r, WithPp(s, first_idx, PpSkipTo(r, s.pps[first_idx], last.doc)),
                    NextNum(first_idx, Len(s.pps)))
    ELSE PhscAtDoc(r, PhraseFreq(r, [s EXCEPT !.first = first_idx]), last.doc)

\* The loops of phsc_init (target -1) and phsc_skip_to, from the last
\* enumerator down, and the sort after them.
RECURSIVE MoveAll(_, _, _, _)
MoveRest(r, s, i, target) == IF s.more THEN MoveAll(r, s, i, target) ELSE s
MoveAll(r, s, i, target) ==
  IF i = 0 THEN [s EXCEPT !.pps = SortSeq(@, PpLeq), !.first = 1]
  ELSE MoveRest(r, WithPp(s, i, IF target = -1 THEN PpNext(r, s.pps[i])
                                ELSE PpSkipTo(r, s.pps[i], target)), i - 1, target)

\* phsc_next
PhscFromFirst(r, s) == PhscDoNext(r, s, s.first)
PhscNext(r, s) ==
  PhscFromFirst(r,
    IF s.first_time THEN [MoveAll(r, s, Len(s.pps), -1) EXCEPT !.first_time = FALSE]
    ELSE IF s.more THEN PhscNextLast(r, s)
    ELSE s)

\* phsc_skip_to; first_time stays as it is.
PhscSkipTo(r, s, doc) == PhscFromFirst(r, MoveAll(r, s, Len(s.pps), doc))

=============================================================================
