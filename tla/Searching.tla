----------------------------- MODULE Searching -----------------------------
(* Queries and searchers (frt_q_boolean.c, frt_search.c, frt_filter.c): a     *)
(* query is rewritten, turned into a tree of scorers for each index, and run  *)
(* by Searcher#search, which keeps the best hits in a bounded queue, or by    *)
(* Searcher#scan, which skips to a document and stops at a limit. With more   *)
(* than one index the searcher is a MultiSearcher.                            *)
(*                                                                            *)
(* A call runs to its end without giving way to another, so it is one action. *)
(* What outlives it is the query object, which bq_rewrite may change, and the *)
(* bit vectors the filters cache, with their cursors. Between calls documents *)
(* are deleted and clauses added to the query.                                *)
EXTENDS Scorers, DocNumbers

CONSTANTS
  Leaves,     \* 1..n: the terms and filters the queries are made of
  MaxDoc,     \* documents of all indexes together
  Queries,    \* the queries a user may ask
  Layouts(_), \* sequences of the starts of the indexes, closed by MaxDoc, for a query
  Corpora(_), \* what the leaves may find, for a query: sets of functions
  Searches,   \* <<first_doc, num_docs, filter>> given to search; filter 0 is none
  Limits,     \* limits given to scan
  MaxCalls(_),\* bound on the searches and scans with a query
  MaxDeletes  \* bound on the documents deleted

ASSUME SearchingAssumption ==
  /\ Leaves \subseteq Nat \ {0}
  /\ \A p \in Searches : p[1] >= 0 /\ p[2] > 0   \* sea_check_args
  /\ \A l \in Limits : l > 0                     \* frb_sea_scan
  /\ \A q \in Queries : Corpora(q) \subseteq [Leaves -> SUBSET (0..(MaxDoc - 1))]

Docs == 0..(MaxDoc - 1)

VARIABLES
  starts,   \* starts[i]: the number of the first document of index i
  found,    \* found[l]: the documents that leaf l finds when none is deleted
  deleted,  \* deleted documents
  asked,    \* the query as the user put it together
  query,    \* the query object
  bits,     \* bits[<<l, i>>]: the vector filter l has cached for index i
  last,     \* the last call, its result and what it met
  calls     \* number of calls made

vars == <<starts, found, deleted, asked, query, bits, last, calls>>

Indexes == 1..(Len(starts) - 1)
\* The documents of a set that index i holds and has not deleted, by their
\* numbers in that index
Local(docs, i) ==
  LET start == starts[i]
      end   == starts[i + 1]
  IN {d - start : d \in {e \in docs \ deleted : start <= e /\ e < end}}
LiveIn(i) == Local(Docs, i)

(* ---- Queries ---- *)

Clause(q, occur) == [query |-> q, occur |-> occur]
Bool(clauses) == [type |-> "bool", clauses |-> clauses]
MatchAll == [type |-> "all"]

AllProhibited(clauses) ==
  clauses # <<>> /\ \A k \in DOMAIN clauses : clauses[k].occur = "must_not"
OneClause(clauses) == Len(clauses) = 1 /\ clauses[1].occur # "must_not"
WithMatchAll(clauses) ==
  IF AllProhibited(clauses) THEN Append(clauses, Clause(MatchAll, "must")) ELSE clauses

RECURSIVE Rewrite(_)
\* bq_rewrite to its fixed point (isea_rewrite): a query of one clause becomes
\* that clause, one that only prohibits gets a clause that matches everything.
\* A filtered query has its query rewritten when its weight is created.
Rewrite(q) ==
  CASE q.type = "filtered" -> [q EXCEPT !.query = Rewrite(@)]
    [] q.type = "bool" ->
         IF OneClause(q.clauses) THEN Rewrite(q.clauses[1].query)
         ELSE Bool(WithMatchAll([k \in DOMAIN q.clauses |->
                     Clause(Rewrite(q.clauses[k].query), q.clauses[k].occur)]))
    [] OTHER -> q

RECURSIVE Changes(_)
\* Whether bq_rewrite returns another object than the query itself
Changes(q) ==
  /\ q.type = "bool"
  /\ OneClause(q.clauses) \/ \E k \in DOMAIN q.clauses : Changes(q.clauses[k].query)

RECURSIVE AfterRewrite(_)
\* What bq_rewrite makes of the object it is called on: the clause it adds is
\* added to the user's own query unless a clause made it copy the query first.
AfterRewrite(q) ==
  CASE q.type = "filtered" -> [q EXCEPT !.query = AfterRewrite(@)]
    [] q.type = "bool" ->
         LET clauses == [k \in DOMAIN q.clauses |->
               Clause(AfterRewrite(q.clauses[k].query), q.clauses[k].occur)]
         IN Bool(IF Changes(q) THEN clauses ELSE WithMatchAll(clauses))
    [] OTHER -> q

(* ---- Scorers for a query ---- *)

\* frt_filt_get_bv: the vector is made once for a reader and then kept.
GetBits(h, l, i) ==
  IF <<l, i>> \in DOMAIN h.bits THEN h
  ELSE [h EXCEPT !.bits =
          (<<l, i>> :> [set |-> Local(found[l], i), curr_bit |-> -1]) @@ @]

\* frt_scorer_create: the n of the result is the new scorer.
Made(h, node) == [h |-> [h EXCEPT !.node = Append(@, node)], n |-> Len(h.node) + 1]
Null(h) == [h |-> h, n |-> 0]

\* tsc_new, masc_new, cssc_new, non_matching_scorer_new
TermScorer(h, l, i) ==
  Made(h, [kind |-> "term", doc |-> 0, left |-> Local(found[l], i), weight |-> 2 ^ l])
AllScorer(h, i) ==
  Made(h, [kind |-> "all", doc |-> -1, live |-> LiveIn(i), weight |-> 1,
           max_doc |-> starts[i + 1] - starts[i]])
ConstScorer(h, l, i) ==
  Made(GetBits(h, l, i), [kind |-> "const", doc |-> 0, bv |-> <<l, i>>, weight |-> 2 ^ l])
NonMatchingScorer(h) == Made(h, [kind |-> "nomatch", doc |-> 0])

\* fqw_scorer
FilterScorer(s, l, i) ==
  LET h == GetBits(s.h, l, i) IN
  Made(h, [kind |-> "filter", doc |-> 0, sub |-> s.n, bv |-> <<l, i>>])

\* single_match_scorer_new
SingleScorer(h, sub, coord) ==
  Made(h, [kind |-> "single", doc |-> 0, sub |-> sub, coord |-> coord])

\* disjunction_sum_scorer_new, and counting_disjunction_sum_scorer_new where
\* coord is not NULL
DisjScorer(h, subs, coord) ==
  Made(h, [kind |-> "disj", doc |-> -1, subs |-> subs, queue |-> <<>>, queued |-> FALSE,
           cum_score |-> -1, num_matches |-> -1, coord |-> coord])

\* counting_conjunction_sum_scorer_new
ConjScorer(h, subs, coord) ==
  Made(h, [kind |-> "conj", doc |-> 0, subs |-> subs, first_time |-> TRUE, more |-> TRUE,
           first_idx |-> 1, last_scored_doc |-> -1, coord |-> coord, lost |-> FALSE])

\* One scorer for a row of optional ones that may count for coord
OneOf(h, subs, coord) ==
  IF Len(subs) = 1 THEN SingleScorer(h, subs[1], coord) ELSE DisjScorer(h, subs, coord)

\* req_excl_scorer_new around the required scorer r, when clauses are prohibited
WithoutProhibited(r, subs) ==
  LET x == IF Len(subs) = 1 THEN [h |-> r.h, n |-> subs[1]] ELSE DisjScorer(r.h, subs, 0)
  IN IF subs = <<>> THEN r
     ELSE Made(x.h, [kind |-> "reqexcl", doc |-> 0, req |-> r.n, excl |-> x.n,
                     first_time |-> TRUE])

\* req_opt_sum_scorer_new around the required scorer r
WithOptional(r, opt) ==
  Made(r.h, [kind |-> "reqopt", doc |-> 0, req |-> r.n, opt |-> opt, first_time |-> TRUE])

\* counting_sum_scorer_create, counting_sum_scorer_create2 and
\* counting_sum_scorer_create3: from the scorers of the clauses
CountingSumScorer(h, must, should, must_not, coord) ==
  LET required == IF Len(must) = 1 THEN SingleScorer(h, must[1], coord)
                  ELSE ConjScorer(h, must, coord)
      optional == OneOf(required.h, should, coord)
  IN IF must = <<>>
       THEN IF should = <<>> THEN NonMatchingScorer(h)
            ELSE WithoutProhibited(OneOf(h, should, coord), must_not)
       ELSE IF should = <<>> THEN WithoutProhibited(required, must_not)
            ELSE WithOptional(WithoutProhibited([h |-> optional.h, n |-> required.n],
                                                must_not), optional.n)

RECURSIVE Scorer(_, _, _), AddScorers(_, _, _, _)

\* The loop of bw_scorer and bsc_add_scorer. An optional or prohibited clause
\* without a scorer is left out, a required one leaves the query without.
AddScorers(b, clauses, k, i) ==
  IF k > Len(clauses) THEN b
  ELSE LET c   == clauses[k]
           s   == Scorer(b.h, c.query, i)
           add(occur) == IF c.occur = occur /\ s.n # 0 THEN Append(b[occur], s.n) ELSE b[occur]
       IN AddScorers([h |-> s.h, must |-> add("must"), should |-> add("should"),
                      must_not |-> add("must_not"),
                      null |-> b.null \/ (s.n = 0 /\ c.occur = "must")],
                     clauses, k + 1, i)

\* The scorer method of a query's weight. The parts of a boolean scorer are
\* made by its first next or skip_to, which is its first use.
Scorer(h, q, i) ==
  CASE q.type = "term"     -> TermScorer(h, q.leaf, i)
    [] q.type = "all"      -> AllScorer(h, i)
    [] q.type = "const"    -> ConstScorer(h, q.leaf, i)
    [] q.type = "empty"    -> Null(h)
    [] q.type = "filtered" -> FilterScorer(Scorer(h, q.query, i), q.leaf, i)
    [] q.type = "bool"     ->
         LET bsc == Made(h, [kind |-> "bool", doc |-> 0, sub |-> 0, num_matches |-> 0])
             b   == AddScorers([h |-> bsc.h, must |-> <<>>, should |-> <<>>,
                                must_not |-> <<>>, null |-> FALSE], q.clauses, 1, i)
             s   == CountingSumScorer(b.h, b.must, b.should, b.must_not, bsc.n)
         IN IF b.null THEN Null(b.h)
            ELSE [h |-> [s.h EXCEPT !.node[bsc.n].sub = s.n], n |-> bsc.n]

Lost(h) == \E n \in DOMAIN h.node : h.node[n].kind = "conj" /\ h.node[n].lost

(* ---- Searching one index ---- *)

\* hit_lt, among the hits of a sequence, and the hit queue ordered by it
HitLess(hits) ==
  [a, b \in {hits[k] : k \in DOMAIN hits} |->
     IF a.score = b.score THEN a.doc > b.doc ELSE a.score < b.score]
HitInsert(hq, capa, hit) == Insert(hq, capa, hit, HitLess(Append(hq, hit)))

RECURSIVE PopAll(_, _, _)
\* Pops n hits, the worst first, in front of those popped before
PopAll(hq, n, hits) ==
  IF n = 0 THEN hits ELSE PopAll(Pop(hq, HitLess(hq)), n - 1, <<hq[1]>> \o hits)
\* The end of isea_search_w and msea_search_w: the first_doc best hits stay in
\* the queue, the others become the page.
TakePage(hq, first_doc, num_docs) ==
  IF Len(hq) <= first_doc THEN <<>>
  ELSE PopAll(hq, Min({num_docs, Len(hq) - first_doc}), <<>>)

NoHits(h) == [h |-> h, total |-> 0, hits |-> <<>>]

\* A document that scored s: counted, and put into the queue if it is good enough
Counted(td, s, doc, capa) ==
  [h |-> s.h, total |-> td.total + 1,
   hits |-> HitInsert(td.hits, capa, [doc |-> doc, score |-> s.val])]

RECURSIVE Collect(_, _, _, _, _)
\* The loop of isea_search_w over the scorer n; r is next's answer.
CollectOn(td, n, capa, bv) == Collect(MoveNext(td.h, n), n, td, capa, bv)
Collect(r, n, td, capa, bv) ==
  IF ~ r.ok THEN [td EXCEPT !.h = r.h]
  ELSE CollectOn(IF bv # <<>> /\ Doc(r.h, n) \notin r.h.bits[bv].set
                   THEN [td EXCEPT !.h = r.h]
                   ELSE Counted(td, Score(r.h, n), Doc(r.h, n), capa),
                 n, capa, bv)

\* isea_search_w once it has the scorer s
SearchWith(s, i, first_doc, num_docs, filter) ==
  IF s.n = 0 \/ LiveIn(i) = {} THEN NoHits(s.h)
  ELSE [CollectOn(NoHits(s.h), s.n, first_doc + num_docs,
                  IF filter = 0 THEN <<>> ELSE <<filter, i>>)
          EXCEPT !.hits = TakePage(@, first_doc, num_docs)]

\* isea_search_w on index i: the hits are the page, best hit first.
SearchIndex(bv, q, i, first_doc, num_docs, filter) ==
  LET h == [node |-> <<>>, bits |-> bv] IN
  SearchWith(Scorer(IF filter = 0 THEN h ELSE GetBits(h, filter, i), q, i),
             i, first_doc, num_docs, filter)

RECURSIVE Fill(_, _, _, _)
\* The loop of isea_search_unscored_w; r is the answer of skip_to or next.
Fill(r, n, docs, limit) ==
  IF ~ r.ok THEN [h |-> r.h, docs |-> docs]
  ELSE LET buf == Append(docs, Doc(r.h, n)) IN
       IF Len(buf) < limit THEN Fill(MoveNext(r.h, n), n, buf, limit)
       ELSE [h |-> r.h, docs |-> buf]

\* isea_search_unscored_w once it has the scorer s
ScanWith(s, limit, start_doc) ==
  IF s.n = 0 THEN [h |-> s.h, docs |-> <<>>]
  ELSE Fill(SkipTo(s.h, s.n, start_doc), s.n, <<>>, limit)

\* isea_search_unscored_w on index i
ScanIndex(bv, q, i, limit, start_doc) ==
  ScanWith(Scorer([node |-> <<>>, bits |-> bv], q, i), limit, start_doc)

(* ---- Searching several indexes ---- *)

RECURSIVE InsertAll(_, _, _, _)
\* The inner loop of msea_search_w, with hit_pq_multi_insert
InsertAll(hq, hits, start, capa) ==
  IF hits = <<>> THEN hq
  ELSE InsertAll(HitInsert(hq, capa, [hits[1] EXCEPT !.doc = @ + start]),
                 Tail(hits), start, capa)

\* What one index found, on its own and added to what those before it found
TopDocs(one) ==
  [bits |-> one.h.bits, total |-> one.total, lost |-> Lost(one.h), hits |-> one.hits]
WithTopDocs(td, one, i, capa) ==
  [bits |-> one.bits, total |-> td.total + one.total, lost |-> td.lost \/ one.lost,
   hits |-> InsertAll(td.hits, one.hits, starts[i], capa)]

RECURSIVE SearchFrom(_, _, _, _, _)
\* The loop of msea_search_w from index i on
SearchFrom(td, q, i, capa, filter) ==
  IF i \notin Indexes THEN td
  ELSE SearchFrom(WithTopDocs(td, TopDocs(SearchIndex(td.bits, q, i, 0, capa, filter)), i, capa),
                  q, i + 1, capa, filter)

\* The documents one index found, behind those of the indexes before it
WithScanned(sc, one, i) ==
  [bits |-> one.h.bits, lost |-> sc.lost \/ Lost(one.h),
   docs |-> sc.docs \o [k \in DOMAIN one.docs |-> one.docs[k] + starts[i]]]

RECURSIVE ScanFrom(_, _, _, _, _)
\* The loop of msea_search_unscored_w from index i on
ScanFrom(sc, q, i, limit, start_doc) ==
  IF i \notin Indexes \/ Len(sc.docs) >= limit THEN sc
  ELSE ScanFrom(IF start_doc >= starts[i + 1] THEN sc
                ELSE WithScanned(sc, ScanIndex(sc.bits, q, i, limit - Len(sc.docs),
                                               Max({start_doc - starts[i], 0})), i),
                q, i + 1, limit, start_doc)

\* msea_get_searcher_index: the index of document n; of indexes that start at
\* the same number, the last one.
SearcherIndex(n) == IndexOf(starts, n)

(* ---- Calls ---- *)

RECURSIVE ConstLeaves(_)
\* The filters of a query's constant score parts, in a sequence
ConstLeaves(q) ==
  CASE q.type = "const"    -> <<q.leaf>>
    [] q.type = "filtered" -> ConstLeaves(q.query)
    [] q.type = "bool"     ->
         LET Cat[k \in 0..Len(q.clauses)] ==
               IF k = 0 THEN <<>> ELSE Cat[k - 1] \o ConstLeaves(q.clauses[k].query)
         IN Cat[Len(q.clauses)]
    [] OTHER -> <<>>

\* A call meets a vector that is not as its filter made it for the present
\* documents: an earlier call has moved its cursor, a document it contains has
\* been deleted, or two parts of the query share it.
MeetsStaleBits(q) ==
  LET ls == ConstLeaves(q) IN
  \/ \E j, k \in DOMAIN ls : j # k /\ ls[j] = ls[k]
  \/ \E k \in DOMAIN ls, i \in Indexes :
       /\ <<ls[k], i>> \in DOMAIN bits
       /\ bits[<<ls[k], i>>] # [set |-> Local(found[ls[k]], i), curr_bit |-> -1]

MayCall == calls < MaxCalls(asked)
Called(call) ==
  /\ calls' = calls + 1
  /\ query' = AfterRewrite(query)
  /\ last' = [stale |-> MeetsStaleBits(query)] @@ call
  /\ UNCHANGED <<starts, found, deleted, asked>>

\* isea_search, msea_search
Found(q, first, num, filter) ==
  IF Len(starts) = 2 THEN TopDocs(SearchIndex(bits, q, 1, first, num, filter))
  ELSE [SearchFrom([bits |-> bits, total |-> 0, lost |-> FALSE, hits |-> <<>>],
                   q, 1, first + num, filter)
          EXCEPT !.hits = TakePage(@, first, num)]

\* Searcher#search
Search(first, num, filter) ==
  /\ MayCall
  /\ \E td \in {Found(Rewrite(query), first, num, filter)} :
       /\ Called([call |-> "search", first |-> first, num |-> num, filter |-> filter,
                  hits |-> td.hits, total |-> td.total, lost |-> td.lost])
       /\ bits' = td.bits

\* Searcher#scan (isea_search_unscored, msea_search_unscored)
Scan(limit, start_doc) ==
  /\ MayCall
  /\ \E sc \in {ScanFrom([bits |-> bits, lost |-> FALSE, docs |-> <<>>],
                         Rewrite(query), 1, limit, start_doc)} :
       /\ Called([call |-> "scan", limit |-> limit, start_doc |-> start_doc,
                  docs |-> sc.docs, lost |-> sc.lost])
       /\ bits' = sc.bits

\* IndexReader#delete of the reader the searcher reads
Delete(doc) ==
  /\ calls > 0 /\ MayCall
  /\ Cardinality(deleted) < MaxDeletes
  /\ doc \notin deleted
  /\ deleted' = deleted \cup {doc}
  /\ last' = [call |-> "none"]
  /\ UNCHANGED <<starts, found, asked, query, bits, calls>>

\* BooleanQuery#add_query on the query that has been searched with
AddQuery(clause) ==
  /\ calls > 0 /\ MayCall
  /\ query.type = "bool" /\ Len(asked.clauses) < 2
  /\ query' = [query EXCEPT !.clauses = Append(@, clause)]
  /\ asked' = [asked EXCEPT !.clauses = Append(@, clause)]
  /\ last' = [call |-> "none"]
  /\ UNCHANGED <<starts, found, deleted, bits, calls>>

Init ==
  /\ asked \in Queries
  /\ starts \in Layouts(asked)
  /\ found \in Corpora(asked)
  /\ deleted = {}
  /\ query = asked
  /\ bits = [x \in {} |-> 0]
  /\ last = [call |-> "none"]
  /\ calls = 0

Next ==
  \/ \E p \in Searches : Search(p[1], p[2], p[3])
  \/ \E limit \in Limits, start_doc \in Docs : Scan(limit, start_doc)
  \/ \E doc \in Docs : Delete(doc)
  \/ \E l \in Leaves, occur \in {"must", "should"} :
       AddQuery(Clause([type |-> "term", leaf |-> l], occur))

Spec == Init /\ [][Next]_vars

(* ---- What a query means ---- *)

RECURSIVE Matches(_, _), Worth(_, _)

\* Whether a document matches a query, by the meaning of its clauses
Matches(q, d) ==
  CASE q.type \in {"term", "const"} -> d \in found[q.leaf] \ deleted
    [] q.type = "all"      -> d \notin deleted
    [] q.type = "empty"    -> FALSE
    [] q.type = "filtered" -> Matches(q.query, d) /\ d \in found[q.leaf]
    [] q.type = "bool"     ->
         LET of(occur) == {k \in DOMAIN q.clauses : q.clauses[k].occur = occur}
             hit(k)    == Matches(q.clauses[k].query, d)
         IN /\ q.clauses # <<>> /\ d \notin deleted
            /\ \A k \in of("must") : hit(k)
            /\ \A k \in of("must_not") : ~ hit(k)
            /\ of("must") = {} /\ of("should") # {} => \E k \in of("should") : hit(k)

\* The score a matching document deserves: what its matching clauses score,
\* times their number
Worth(q, d) ==
  CASE q.type \in {"term", "const"} -> 2 ^ q.leaf
    [] q.type = "all"      -> 1
    [] q.type = "filtered" -> Worth(q.query, d)
    [] q.type = "bool"     ->
         LET counted == {k \in DOMAIN q.clauses :
                           q.clauses[k].occur # "must_not" /\ Matches(q.clauses[k].query, d)}
         IN IF AllProhibited(q.clauses) THEN 1
            ELSE Cardinality(counted) *
                 MapThenSumSet(LAMBDA k : Worth(q.clauses[k].query, d), counted)

(* ---- Properties ---- *)

\* Types: a cached vector holds documents of its index, and its cursor is
\* before the first bit or on one of the bits.
TypeOK ==
  /\ starts[1] = 0 /\ starts[Len(starts)] = MaxDoc
  /\ deleted \subseteq Docs
  /\ calls \in Nat
  /\ \A v \in DOMAIN bits :
       /\ bits[v].set \subseteq 0..(starts[v[2] + 1] - starts[v[2]] - 1)
       /\ bits[v].curr_bit \in {-1} \cup bits[v].set

\* The hits a search owes: every document that matches and passes the filter
Owed(filter) ==
  {[doc |-> d, score |-> Worth(asked, d)] :
     d \in {e \in Docs : Matches(asked, e) /\ (filter = 0 \/ e \in found[filter])}}
\* The hits ranked first + 1 to first + num: the best score first, and of equal
\* ones the lowest document
PageOf(hits, first, num) ==
  LET rank(h) == Cardinality({g \in hits :
                   g.score > h.score \/ (g.score = h.score /\ g.doc < h.doc)})
      size    == Max({0, Min({num, Cardinality(hits) - first})})
  IN [k \in 1..size |-> CHOOSE h \in hits : rank(h) = first + k - 1]

\* The first limit documents of a set in their order
InOrder(docs, limit) ==
  [k \in 1..Min({limit, Cardinality(docs)}) |->
     CHOOSE d \in docs : Cardinality({e \in docs : e < d}) = k - 1]

\* bq_rewrite has added a clause to the user's query and the user has then
\* added another one that is not prohibited.
Widened ==
  query.type = "bool" /\ ~ AllProhibited(asked.clauses) /\ query # AfterRewrite(asked)

ExactSearch ==
  last.call = "search" =>
    /\ last.hits = PageOf(Owed(last.filter), last.first, last.num)
    /\ last.total = Cardinality(Owed(last.filter))

ExactScan ==
  last.call = "scan" =>
    last.docs = InOrder({d \in Docs : Matches(asked, d) /\ d >= last.start_doc}, last.limit)

Sound == last.call # "none" => ~ last.lost /\ ~ last.stale /\ ~ Widened

\* A search returns exactly the page asked for of the documents that match,
\* each with the score of the clauses that match it and best first, and counts
\* all of them, whatever the query, the filter, the deletions and the split
\* into indexes; unless it met one of the three faults that the model marks.
SearchIsExact == Sound => ExactSearch

\* A scan returns exactly the first matching documents from its start on.
ScanIsExact == Sound => ExactScan

\* The index a MultiSearcher resolves a hit to is the one that found it: the
\* document number lies in that index and is not deleted there.
HitsResolve ==
  last.call = "search" /\ Sound =>
    \A k \in DOMAIN last.hits :
      LET d == last.hits[k].doc
          i == SearcherIndex(d)
      IN d - starts[i] \in LiveIn(i)

\* A document matches only if every :must clause does: what the conjunction
\* scorer answers after running out of documents in csc_sort_scorers.
ConjunctionsAreExact ==
  last.call # "none" /\ ~ last.stale /\ ~ Widened => ExactSearch /\ ExactScan

=============================================================================
