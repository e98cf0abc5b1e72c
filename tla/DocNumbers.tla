----------------------------- MODULE DocNumbers -----------------------------
(* Several readers or searchers as one: the documents of part i follow those  *)
(* of part i - 1. A MultiReader (frt_index.c) and a MultiSearcher             *)
(* (frt_search.c) keep the same table of starts and find the part that has a  *)
(* document with the same binary search.                                      *)
EXTENDS Integers, Sequences

\* frt_mr_init, frt_msea_new: the first document number of every part, then
\* max_doc.
Starts(sizes) ==
  LET start[i \in 1..Len(sizes) + 1] ==
        IF i = 1 THEN 0 ELSE start[i - 1] + sizes[i - 1]
  IN start

\* Mutant of LastMatch: the first match of the search is taken.
LastMatch_First(starts, mid) == mid

\* The scan behind a match: parts of no documents begin with the same number,
\* and the last of them is the one that may have it.
LastMatch(starts, mid) ==
  CHOOSE m \in mid..Len(starts) - 1 :
    /\ \A j \in mid..m : starts[j] = starts[mid]
    /\ m < Len(starts) - 1 => starts[m + 1] # starts[mid]

\* One turn of the search; once it is over a turn changes nothing.
Turn(starts, d, s) ==
  LET mid == (s.lo + s.hi) \div 2 IN
  IF s.found \/ s.hi < s.lo THEN s
  ELSE IF d < starts[mid] THEN [s EXCEPT !.hi = mid - 1]
  ELSE IF d > starts[mid] THEN [s EXCEPT !.lo = mid + 1]
  ELSE [s EXCEPT !.hi = LastMatch(starts, mid), !.found = TRUE]

\* mr_reader_index_i, msea_get_searcher_index. There are not more turns than
\* parts.
IndexOf(starts, d) ==
  LET cnt == Len(starts) - 1
      turn[k \in 0..cnt] ==
        IF k = 0 THEN [lo |-> 1, hi |-> cnt, found |-> FALSE]
        ELSE Turn(starts, d, turn[k - 1])
  IN turn[cnt].hi

=============================================================================
