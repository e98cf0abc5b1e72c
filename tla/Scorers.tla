------------------------------ MODULE Scorers ------------------------------
(* The scorers of a query (frt_q_boolean.c, frt_q_term.c,                     *)
(* frt_q_const_score.c, frt_q_match_all.c, frt_q_filtered_query.c): a tree of *)
(* objects that each walk upwards through the documents they match. next and  *)
(* skip_to move a scorer and return whether it has a document, score adds up  *)
(* the scores of the parts that match that document.                          *)
(*                                                                            *)
(* The C objects live in a store h: h.node[n] is the scorer numbered n (a     *)
(* pointer is such a number, 0 is NULL), h.bits[f] the bit vector a filter f  *)
(* has cached for this reader, with the cursor the vector itself carries. An  *)
(* operation maps a store to a store and a result.                            *)
(*                                                                            *)
(* Scores are natural numbers. A leaf scores its weight; the coordination     *)
(* factor num_matches / max_coord of a boolean scorer is scaled by max_coord, *)
(* so a boolean scorer scores its sum times num_matches.                      *)
EXTENDS Integers, Sequences, FiniteSets, FiniteSetsExt, PriorityQueue

Yes(h) == [h |-> h, ok |-> TRUE]
No(h)  == [h |-> h, ok |-> FALSE]
Scored(h, val) == [h |-> h, val |-> val]

Doc(h, n) == h.node[n].doc
At(h, n, doc) == [h EXCEPT !.node[n].doc = doc]

\* frt_scorer_doc_less_than, the order of a queue of scorers
DocLess(h) == [a, b \in DOMAIN h.node |-> Doc(h, a) < Doc(h, b)]
QueueInsert(h, pq, capa, n) == Insert(pq, capa, n, DocLess(h))
QueueDown(h, pq) == Down(pq, DocLess(h))
QueuePop(h, pq) == Pop(pq, DocLess(h))

(* ---- Leaves ---- *)

\* tsc_next, tsc_skip_to: left holds the documents after the current one, in
\* the buffer or still in the term's posting list. Both always move on, and
\* leave doc alone when nothing is left.
TermFrom(h, n, docs) ==
  IF docs = {}
    THEN No([h EXCEPT !.node[n].left = {}])
    ELSE Yes([At(h, n, Min(docs)) EXCEPT !.node[n].left = docs \ {Min(docs)}])
TermNext(h, n) == TermFrom(h, n, h.node[n].left)
\* A mutant of TermSkipTo: past the document asked for.
TermSkipTo_Past(h, n, d) == TermFrom(h, n, {x \in h.node[n].left : x > d})
TermSkipTo(h, n, d) == TermFrom(h, n, {x \in h.node[n].left : x >= d})

\* masc_next: up to the next document that is not deleted.
AllNext(h, n) ==
  LET node == h.node[n]
      live == {d \in node.live : d > node.doc}
      last == Max({node.doc, node.max_doc - 1})
  IN IF live = {} THEN No(At(h, n, last)) ELSE Yes(At(h, n, Min(live)))
\* masc_skip_to
AllSkipTo(h, n, d) == AllNext(At(h, n, d - 1), n)

\* A mutant of BitsFrom: the cursor stands behind the bit that was found.
BitsFrom_Behind(h, n, from) ==
  LET f    == h.node[n].bv
      rest == {d \in h.bits[f].set : d >= from}
  IN IF rest = {} THEN No(At(h, n, -1))
     ELSE Yes([At(h, n, Min(rest)) EXCEPT !.bits[f].curr_bit = Min(rest) + 1])

\* frt_bv_scan_next_from: sets the cursor of the vector when it finds a bit.
BitsFrom(h, n, from) ==
  LET f    == h.node[n].bv
      rest == {d \in h.bits[f].set : d >= from}
  IN IF rest = {} THEN No(At(h, n, -1))
     ELSE Yes([At(h, n, Min(rest)) EXCEPT !.bits[f].curr_bit = Min(rest)])
\* cssc_next and frt_bv_scan_next: from the cursor the vector carries.
BitsNext(h, n) == BitsFrom(h, n, h.bits[h.node[n].bv].curr_bit + 1)

(* ---- The scorer methods, by the kind of scorer ---- *)

RECURSIVE Call(_, _, _)

\* scorer->next, scorer->skip_to and scorer->score, through the scorer's
\* function pointers
MoveNext(h, n) == Call(h, n, <<"next">>)
SkipTo(h, n, d) == Call(h, n, <<"skip_to", d>>)
Score(h, n) == Call(h, n, <<"score">>)

\* A scorer that stands on the document of its only sub scorer (smsc_next,
\* rossc_next, bsc_next and their skip_to): r is the sub scorer's answer.
Follow(r, n, sub) == IF r.ok THEN Yes(At(r.h, n, Doc(r.h, sub))) ELSE r

RECURSIVE FilterOn(_, _)
\* fqsc_next, fqsc_skip_to: on from the sub scorer's answer r to a document
\* that the filter's bits contain.
FilterOn(r, n) ==
  LET sub == r.h.node[n].sub IN
  IF ~ r.ok THEN r
  ELSE LET h == At(r.h, n, Doc(r.h, sub)) IN
       IF Doc(h, n) \in h.bits[h.node[n].bv].set THEN Yes(h)
       ELSE FilterOn(MoveNext(h, sub), n)

(* ---- Conjunction ---- *)

Prev(i, cnt) == IF i = 1 THEN cnt ELSE i - 1
Succ(i, cnt) == IF i = cnt THEN 1 ELSE i + 1

RECURSIVE SortFrom(_, _, _)
\* csc_sort_scorers: no scorer of the row is left behind the one before it.
SortFrom(h, n, i) ==
  LET subs == h.node[n].subs IN
  IF i > Len(subs) THEN [h EXCEPT !.node[n].first_idx = 1]
  ELSE IF Doc(h, subs[i - 1]) > Doc(h, subs[i])
    THEN LET r == SkipTo(h, subs[i], Doc(h, subs[i - 1])) IN
         IF r.ok THEN SortFrom(r.h, n, i + 1)
         ELSE [r.h EXCEPT !.node[n].more = FALSE]
    ELSE SortFrom(h, n, i + 1)
SortScorers(h, n) == SortFrom(h, n, 2)

RECURSIVE DoNext(_, _, _)
\* csc_do_next: the first scorer skips to the last one's document and becomes
\* the last, until both stand on the same document.
DoNext(h, n, first_idx) ==
  LET node  == h.node[n]
      cnt   == Len(node.subs)
      first == node.subs[first_idx]
      last  == node.subs[Prev(first_idx, cnt)]
  IN IF node.more /\ Doc(h, first) < Doc(h, last)
       THEN LET r == SkipTo(h, first, Doc(h, last)) IN
            DoNext([r.h EXCEPT !.node[n].more = r.ok], n, Succ(first_idx, cnt))
       ELSE [h  |-> [At(h, n, Doc(h, first)) EXCEPT !.node[n].first_idx = first_idx],
             ok |-> node.more]

RECURSIVE FirstOfAll(_, _, _)
\* The loop of csc_init that moves every sub scorer to its first document
FirstOfAll(h, n, i) ==
  IF i > Len(h.node[n].subs) \/ ~ h.node[n].more THEN h
  ELSE LET r == MoveNext(h, h.node[n].subs[i]) IN
       FirstOfAll([r.h EXCEPT !.node[n].more = r.ok], n, i + 1)

\* csc_init with init_scorers
ConjInit(h, n) ==
  LET h1 == FirstOfAll([h EXCEPT !.node[n].more = TRUE], n, 1)
      h2 == IF h1.node[n].more THEN SortScorers(h1, n) ELSE h1
  IN [h2 EXCEPT !.node[n].first_time = FALSE]

\* csc_next
ConjNext(h, n) ==
  LET node == h.node[n]
      last == node.subs[Prev(node.first_idx, Len(node.subs))]
      h1   == IF node.first_time THEN ConjInit(h, n)
              ELSE IF node.more
                THEN LET r == MoveNext(h, last) IN [r.h EXCEPT !.node[n].more = r.ok]
                ELSE h
  IN DoNext(h1, n, h1.node[n].first_idx)

RECURSIVE SkipAll(_, _, _, _)
\* The loop of csc_skip_to; r holds the local variable more.
SkipAll(r, n, i, d) ==
  IF i > Len(r.h.node[n].subs) \/ ~ r.ok THEN r
  ELSE SkipAll(SkipTo(r.h, r.h.node[n].subs[i], d), n, i + 1, d)

\* csc_skip_to. The local variable more is stored after the sort, over the
\* FALSE that the sort stores when it runs a scorer out. The history field
\* lost records that this has happened.
ConjSkipTo(h, n, d) ==
  LET h0 == IF h.node[n].first_time
              THEN [h EXCEPT !.node[n].more = TRUE, !.node[n].first_time = FALSE]
              ELSE h
      r  == SkipAll([h |-> h0, ok |-> h.node[n].more], n, 1, d)
      h1 == IF r.ok THEN SortScorers(r.h, n) ELSE r.h
      h2 == [h1 EXCEPT !.node[n].lost = @ \/ (r.ok /\ ~ h1.node[n].more),
                       !.node[n].more = r.ok]
  IN DoNext(h2, n, h2.node[n].first_idx)

RECURSIVE SumFrom(_, _, _)
\* csc_score: the scores of the sub scorers from the i-th on
SumFrom(h, subs, i) ==
  IF i > Len(subs) THEN Scored(h, 0)
  ELSE LET r == Score(h, subs[i])
           s == SumFrom(r.h, subs, i + 1)
       IN Scored(s.h, r.val + s.val)

\* ccsc_score: a document counts once, however often it is scored.
ConjScore(h, n) ==
  LET node == h.node[n]
      h1   == IF node.doc > node.last_scored_doc
                THEN [h EXCEPT !.node[n].last_scored_doc = node.doc,
                               !.node[node.coord].num_matches = @ + Len(node.subs)]
                ELSE h
  IN SumFrom(h1, node.subs, 1)

(* ---- Disjunction ---- *)

RECURSIVE QueueFrom(_, _, _)
\* dssc_init_scorer_queue: the sub scorers that have a first document
QueueFrom(h, n, i) ==
  LET subs == h.node[n].subs IN
  IF i > Len(subs) THEN [h EXCEPT !.node[n].queued = TRUE]
  ELSE LET r == MoveNext(h, subs[i]) IN
       QueueFrom(IF r.ok THEN [r.h EXCEPT !.node[n].queue =
                                 QueueInsert(r.h, @, Len(subs), subs[i])]
                 ELSE r.h, n, i + 1)
Queued(h, n) == IF h.node[n].queued THEN h ELSE QueueFrom(h, n, 1)

\* frt_pq_down after the scorer at the top has moved; frt_pq_pop when it has
\* run out
Requeue(r, n) ==
  [r.h EXCEPT !.node[n].queue = IF r.ok THEN QueueDown(r.h, @) ELSE QueuePop(r.h, @)]

RECURSIVE Gather(_, _)
\* dssc_advance_after_current: takes the lowest document of the queue and
\* moves every scorer that stands on it past it, adding up their scores. All
\* disjunctions of a boolean scorer have min_num_matches = 1, so the first
\* document is a match.
Gather(h, n) ==
  LET top == h.node[n].queue[1]
      s   == Score(h, top)
      h1  == [s.h EXCEPT !.node[n].cum_score = @ + s.val, !.node[n].num_matches = @ + 1]
      h2  == Requeue(MoveNext(h1, top), n)
      q   == h2.node[n].queue
  IN IF q # <<>> /\ Doc(h2, q[1]) = Doc(h2, n) THEN Gather(h2, n) ELSE Yes(h2)

Advance(h, n) ==
  Gather([At(h, n, Doc(h, h.node[n].queue[1]))
            EXCEPT !.node[n].cum_score = 0, !.node[n].num_matches = 0], n)

\* dssc_next
DisjNext(h, n) ==
  LET h1 == Queued(h, n) IN
  IF h1.node[n].queue = <<>> THEN No(h1) ELSE Advance(h1, n)

RECURSIVE SkipTop(_, _, _)
\* The loop of dssc_skip_to
SkipTop(h, n, d) ==
  LET q == h.node[n].queue IN
  IF q = <<>> THEN No(h)
  ELSE IF Doc(h, q[1]) >= d THEN Advance(h, n)
  ELSE SkipTop(Requeue(SkipTo(h, q[1], d), n), n, d)

\* dssc_skip_to: at least one document further than the current one
DisjSkipTo(h, n, d) ==
  LET h1 == Queued(h, n) IN
  SkipTop(h1, n, IF d <= Doc(h1, n) THEN Doc(h1, n) + 1 ELSE d)

\* dssc_score, and cdssc_score where the scorer has a coordinator
DisjScore(h, n) ==
  LET node == h.node[n] IN
  Scored(IF node.coord = 0 THEN h
         ELSE [h EXCEPT !.node[node.coord].num_matches = @ + node.num_matches],
         node.cum_score)

(* ---- Required with optional, required without excluded ---- *)

\* A mutant of ReqOptScore: only the first score moves the optional scorer.
ReqOptScore_Once(h, n) ==
  LET node == h.node[n]
      req  == Score(h, node.req)
      h1   == [req.h EXCEPT !.node[n].first_time = FALSE]
      cur  == Doc(h, node.req)
      r    == IF node.first_time THEN SkipTo(h1, node.opt, cur) ELSE Yes(h1)
  IN IF node.opt = 0 THEN Scored(h1, req.val)
     ELSE IF ~ r.ok THEN Scored([r.h EXCEPT !.node[n].opt = 0], req.val)
     ELSE IF Doc(r.h, node.opt) = cur
       THEN LET opt == Score(r.h, node.opt) IN Scored(opt.h, req.val + opt.val)
       ELSE Scored(r.h, req.val)

\* rossc_score: brings the optional scorer up to the required one's document,
\* and drops it for good once it has run out.
ReqOptScore(h, n) ==
  LET node == h.node[n]
      req  == Score(h, node.req)
      h1   == [req.h EXCEPT !.node[n].first_time = FALSE]
      cur  == Doc(h, node.req)
      move == node.opt # 0 /\ (node.first_time \/ Doc(h1, node.opt) < cur)
      r    == IF move THEN SkipTo(h1, node.opt, cur) ELSE Yes(h1)
  IN IF node.opt = 0 THEN Scored(h1, req.val)
     ELSE IF ~ r.ok THEN Scored([r.h EXCEPT !.node[n].opt = 0], req.val)
     ELSE IF Doc(r.h, node.opt) = cur
       THEN LET opt == Score(r.h, node.opt) IN Scored(opt.h, req.val + opt.val)
       ELSE Scored(r.h, req.val)

RECURSIVE ToNonExcluded(_, _)
\* rxsc_to_non_excluded, and the call of req_scorer->next at its end
ToNonExcluded(h, n) ==
  LET node  == h.node[n]
      req   == node.req
      found == Doc(h, req)
      s     == IF found > Doc(h, node.excl) THEN SkipTo(h, node.excl, found) ELSE Yes(h)
  IN IF ~ s.ok THEN Yes(At([s.h EXCEPT !.node[n].excl = 0], n, found))
     ELSE IF found < Doc(s.h, node.excl) THEN Yes(At(s.h, n, found))
     ELSE LET r == MoveNext(s.h, req) IN
          IF r.ok THEN ToNonExcluded(r.h, n) ELSE No([r.h EXCEPT !.node[n].req = 0])

\* The first call moves the excluded scorer; x is its answer.
ExclStarted(x, n) ==
  [x.h EXCEPT !.node[n].first_time = FALSE,
              !.node[n].excl = IF x.ok THEN @ ELSE 0]

\* rxsc_next
ReqExclNext(h, n) ==
  LET h1  == IF h.node[n].first_time
               THEN ExclStarted(MoveNext(h, h.node[n].excl), n) ELSE h
      req == h1.node[n].req
      r   == MoveNext(h1, req)
  IN IF req = 0 THEN No(h1)
     ELSE IF ~ r.ok THEN No([r.h EXCEPT !.node[n].req = 0])
     ELSE IF h1.node[n].excl = 0 THEN Follow(r, n, req)
     ELSE ToNonExcluded(r.h, n)

\* rxsc_skip_to
ReqExclSkipTo(h, n, d) ==
  LET h1  == IF h.node[n].first_time
               THEN ExclStarted(SkipTo(h, h.node[n].excl, d), n) ELSE h
      req == h1.node[n].req
      r   == SkipTo(h1, req, d)
  IN IF req = 0 THEN No(h1)
     ELSE IF h1.node[n].excl = 0 THEN Follow(r, n, req)
     ELSE IF ~ r.ok THEN No([r.h EXCEPT !.node[n].req = 0])
     ELSE ToNonExcluded(r.h, n)

(* ---- Boolean scorer ---- *)

\* bsc_score: the coordinator counts the clauses that add to this score.
BoolScore(h, n) ==
  LET r == Score([h EXCEPT !.node[n].num_matches = 0], h.node[n].sub) IN
  Scored(r.h, r.val * r.h.node[n].num_matches)

\* smsc_score
SingleScore(h, n) ==
  LET r == Score([h EXCEPT !.node[h.node[n].coord].num_matches = @ + 1], h.node[n].sub)
  IN Scored(r.h, r.val)

NextOf(h, n) ==
  LET node == h.node[n] IN
  CASE node.kind = "term"    -> TermNext(h, n)
    [] node.kind = "all"     -> AllNext(h, n)
    [] node.kind = "const"   -> BitsNext(h, n)
    [] node.kind = "nomatch" -> No(h)
    [] node.kind = "filter"  -> FilterOn(MoveNext(h, node.sub), n)
    [] node.kind \in {"single", "bool"} -> Follow(MoveNext(h, node.sub), n, node.sub)
    [] node.kind = "reqopt"  -> Follow(MoveNext(h, node.req), n, node.req)
    [] node.kind = "reqexcl" -> ReqExclNext(h, n)
    [] node.kind = "conj"    -> ConjNext(h, n)
    [] node.kind = "disj"    -> DisjNext(h, n)

SkipToOf(h, n, d) ==
  LET node == h.node[n] IN
  CASE node.kind = "term"    -> TermSkipTo(h, n, d)
    [] node.kind = "all"     -> AllSkipTo(h, n, d)
    [] node.kind = "const"   -> BitsFrom(h, n, d)
    [] node.kind = "nomatch" -> No(h)
    [] node.kind = "filter"  -> FilterOn(SkipTo(h, node.sub, d), n)
    [] node.kind \in {"single", "bool"} -> Follow(SkipTo(h, node.sub, d), n, node.sub)
    [] node.kind = "reqopt"  -> Follow(SkipTo(h, node.req, d), n, node.req)
    [] node.kind = "reqexcl" -> ReqExclSkipTo(h, n, d)
    [] node.kind = "conj"    -> ConjSkipTo(h, n, d)
    [] node.kind = "disj"    -> DisjSkipTo(h, n, d)

ScoreOf(h, n) ==
  LET node == h.node[n] IN
  CASE node.kind \in {"term", "all", "const"} -> Scored(h, node.weight)
    [] node.kind = "nomatch" -> Scored(h, 0)
    [] node.kind = "filter"  -> Score(h, node.sub)
    [] node.kind = "single"  -> SingleScore(h, n)
    [] node.kind = "bool"    -> BoolScore(h, n)
    [] node.kind = "reqopt"  -> ReqOptScore(h, n)
    [] node.kind = "reqexcl" -> Score(h, node.req)
    [] node.kind = "conj"    -> ConjScore(h, n)
    [] node.kind = "disj"    -> DisjScore(h, n)

Call(h, n, method) ==
  CASE method[1] = "next"    -> NextOf(h, n)
    [] method[1] = "skip_to" -> SkipToOf(h, n, method[2])
    [] method[1] = "score"   -> ScoreOf(h, n)

=============================================================================
