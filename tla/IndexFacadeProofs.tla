-------------------------- MODULE IndexFacadeProofs --------------------------
(* The facade, for any number of Index objects, documents and options: types,*)
(* the write lock, freshness, and that no change is lost.                    *)
EXTENDS IndexFacade, TLAPS

-----------------------------------------------------------------------------
(* Types *)

ReaderType == [on : BOOLEAN, view : SUBSET Docs, dels : SUBSET Docs, segs : BOOLEAN,
               stale : BOOLEAN, lock : BOOLEAN, mutex : BOOLEAN]
WriterType == [on : BOOLEAN, sis : SUBSET Docs, buf : SUBSET Docs]

(* Only the steps that add documents have documents as their argument. *)
Steps == {"ensure_writer", "ensure_reader", "ensure_searcher", "any_reader", "peek", "read",
          "search", "add", "add_readers", "commit", "delete_term", "delete_number",
          "query_delete", "query_update", "flush", "optimize", "close"}
StepType == {s \in [do : Steps, arg : SUBSET (Docs \cup Keys)] :
                s.do \in {"add", "add_readers"} => s.arg \subseteq Docs}

IndexType == [open : BOOLEAN, opts : Options, writer : WriterType, reader : ReaderType,
              searcher : {"nil", "open", "closed"}, status : {"ok", "crashed", "hung"},
              script : Seq(StepType), last : {"writer", "add_indexes", "other"}, seen : SUBSET Docs]

Move == [x : IndexType, docs : SUBSET Docs, segs : BOOLEAN, wrote : BOOLEAN, lck : BOOLEAN,
         robbed : BOOLEAN, ok : BOOLEAN, opened : BOOLEAN, released : BOOLEAN]

-----------------------------------------------------------------------------
(* The state of one Index *)

(* A writer or a reader, and nothing uncommitted in what is not there. *)
Coherent(x) ==
    /\ ~(x.reader.on /\ x.writer.on)
    /\ ~x.reader.on => x.reader.view = {} /\ ~x.reader.lock
    /\ ~x.writer.on => x.writer.buf = {}
    /\ x.reader.dels \subseteq x.reader.view
    /\ ~x.reader.lock => x.reader.dels = {}

(* It has the write lock; the documents there are, as far as it knows; a     *)
(* writer, and a reader that is not stale, know the last commit.             *)
Holds(x) == x.writer.on \/ x.reader.lock
Holding(x, docs) ==
    CASE x.writer.on                      -> x.writer.sis \cup x.writer.buf
      [] ~x.writer.on /\ x.reader.lock    -> x.reader.view \ x.reader.dels
      [] ~x.writer.on /\ ~x.reader.lock   -> docs
Current(x, docs) ==
    /\ x.writer.on => x.writer.sis = docs
    /\ x.reader.on /\ ~x.reader.stale => x.reader.view = docs
    /\ x.reader.lock => ~x.reader.stale

-----------------------------------------------------------------------------
(* Where an Index is in a call *)

(* What comes before a step in every script. *)
Follows(a, b) ==
    /\ b \in {"delete_term", "optimize", "add_readers"} => a = "ensure_writer"
    /\ b = "add"    => a \in {"ensure_writer", "commit"}
    /\ b = "commit" => a \in {"delete_term", "flush"}
    /\ b = "search" => a = "ensure_searcher"
    /\ b = "read"   => a = "ensure_reader"
Shape(s) ==
    /\ \A i \in 1..(Len(s) - 1) : Follows(s[i].do, s[i + 1].do)
    /\ \A i \in 1..(Len(s) - 2) :
         s[i + 1].do = "flush" /\ s[i + 2].do = "commit" => s[i].do = "delete_term"

(* The next step has what it needs. *)
HeadReady(x) ==
    x.script # <<>> =>
        /\ x.script[1].do \in {"delete_term", "optimize", "add_readers", "add"} => x.writer.on
        /\ x.script[1].do = "commit" => ~x.reader.on
        /\ x.script[1].do = "flush" /\ Len(x.script) > 1 /\ x.script[2].do = "commit" => x.writer.on
        /\ x.script[1].do \in {"read", "search"} /\ x.reader.segs =>
              x.reader.view \ x.reader.dels = x.seen

(* With auto_flush a call ends by closing the writer or committing the       *)
(* reader; or it only reads, and finds no reader with the write lock; or it  *)
(* is one of those that keep the writer.                                     *)
Ends(t) == t # <<>> /\ t[Len(t)].do \in {"flush", "optimize", "close"}
Only(t, dos) == \A i \in 1..Len(t) : t[i].do \in dos

Ensures  == {"ensure_reader", "ensure_searcher", "any_reader"}
Uses     == {"search", "read", "peek"}
Keeping  == {"ensure_writer", "add_readers"}
Keepers  == {"writer", "add_indexes"}

OnlyReads(x) ==
    /\ Only(x.script, Ensures \cup Uses) /\ ~x.reader.lock
    /\ x.script[1].do \in Uses => ~x.writer.on
Goes(x) ==
    \/ x.last \notin Keepers /\ Ends(x.script)
    \/ x.last \notin Keepers /\ OnlyReads(x)
    \/ x.last \in Keepers /\ Only(x.script, Keeping)

EndsFlushed(x) ==
    x.opts.auto_flush =>
        /\ x.script # <<>> => Goes(x)
        /\ x.script = <<>> /\ x.status = "ok" =>
              ~x.reader.lock /\ (x.last \notin Keepers => ~x.writer.on)

Ready(x) == Shape(x.script) /\ HeadReady(x) /\ EndsFlushed(x)

-----------------------------------------------------------------------------
(* The inductive invariant *)

TypeInv ==
    /\ disk \in [docs : SUBSET Docs, segs : BOOLEAN]
    /\ lck \in BOOLEAN /\ robbed \in BOOLEAN /\ want \in SUBSET Docs /\ used \in SUBSET Docs
    /\ fc \in [Facades -> IndexType]

IndexInv == \A f \in Facades : Coherent(fc[f]) /\ Ready(fc[f])

LockInv ==
    /\ \A f \in Facades : Current(fc[f], disk.docs)
    /\ \A f, g \in Facades : Holds(fc[f]) /\ Holds(fc[g]) => f = g
    /\ lck <=> \E f \in Facades : Holds(fc[f])
    /\ \A f \in Facades : Holds(fc[f]) => Holding(fc[f], disk.docs) = want
    /\ (\A f \in Facades : ~Holds(fc[f])) => disk.docs = want

Inv == TypeInv /\ IndexInv /\ (Sane => LockInv)

-----------------------------------------------------------------------------
(* A step of f: what holds of it at every moment.  w is what the changes so  *)
(* far should leave, s the steps that are left.                              *)
OthersHold(f) == \E g \in Facades : g # f /\ Holds(fc[g])

Consistent(f, m, w) ==
    /\ Current(m.x, m.docs)
    /\ Holds(m.x) => ~OthersHold(f)
    /\ m.lck <=> (OthersHold(f) \/ Holds(m.x))
    /\ ~m.wrote => m.docs = disk.docs
    /\ OthersHold(f) => ~m.wrote
    /\ ~OthersHold(f) => Holding(m.x, m.docs) = w

Sound(f, s, m, w) ==
    /\ m \in Move /\ Coherent(m.x)
    /\ m.x.opts = fc[f].opts /\ m.x.last = fc[f].last
    /\ m.ok => m.x.status = "ok" /\ ~m.robbed /\ m.x.script = s
    /\ ~m.ok => m.x.script = <<>> /\ (m.x.status = "ok" => ~Holds(m.x))
    /\ ~m.robbed /\ m.x.status # "crashed" => Consistent(f, m, w)

LEMMA NoScript == <<>> \in Seq(StepType)
OBVIOUS

LEMMA RaiseSound ==
    ASSUME NEW f \in Facades, NEW s, NEW m, NEW w, Sound(f, s, m, w), ~Holds(m.x), m.ok
    PROVE  Sound(f, s, Raise(m), w) /\ ~Raise(m).ok
<1> DEFINE n == Raise(m)
<1>1. /\ n \in Move /\ ~n.ok /\ n.x.script = <<>> /\ n.x.status = m.x.status
      /\ n.x.reader = m.x.reader /\ n.x.writer = m.x.writer /\ n.docs = m.docs
      /\ n.lck = m.lck /\ n.robbed = m.robbed /\ n.wrote = m.wrote
      /\ n.x.opts = m.x.opts /\ n.x.last = m.x.last
  BY NoScript DEF Raise, Sound, Move, IndexType
<1> HIDE DEF n
<1> QED BY <1>1 DEF Sound, Consistent, Coherent, Current, Holds, Holding, n

LEMMA EndSound ==
    ASSUME NEW f \in Facades, NEW s, NEW m, NEW w, Sound(f, s, m, w), NEW st \in {"crashed", "hung"}, m.ok
    PROVE  Sound(f, s, End(m, st), w) /\ ~End(m, st).ok
<1> DEFINE n == End(m, st)
<1>1. /\ n \in Move /\ ~n.ok /\ n.x.script = <<>> /\ n.x.status = st
      /\ n.x.reader = m.x.reader /\ n.x.writer = m.x.writer /\ n.docs = m.docs
      /\ n.lck = m.lck /\ n.robbed = m.robbed /\ n.wrote = m.wrote
      /\ n.x.opts = m.x.opts /\ n.x.last = m.x.last
  BY NoScript DEF End, Sound, Move, IndexType
<1> HIDE DEF n
<1> QED BY <1>1 DEF Sound, Consistent, Coherent, Current, Holds, Holding, n

(* A step that only touches the searcher, or what was seen, or open. *)
Same(m, n) ==
    /\ n \in Move /\ n.ok = m.ok /\ n.x.script = m.x.script /\ n.x.status = m.x.status
    /\ n.x.reader = m.x.reader /\ n.x.writer = m.x.writer /\ n.docs = m.docs
    /\ n.lck = m.lck /\ n.robbed = m.robbed /\ n.wrote = m.wrote
    /\ n.x.opts = m.x.opts /\ n.x.last = m.x.last

LEMMA SameSound ==
    ASSUME NEW f \in Facades, NEW s, NEW m, NEW n, NEW w, Sound(f, s, m, w), Same(m, n)
    PROVE  Sound(f, s, n, w)
BY DEF Same, Sound, Consistent, Coherent, Current, Holds, Holding

LEMMA SameMoves ==
    ASSUME NEW m \in Move
    PROVE  /\ \A s \in {"nil", "open", "closed"} : Same(m, [m EXCEPT !.x.searcher = s])
           /\ Same(m, Closed(m)) /\ Same(m, Seen(m)) /\ Same(m, Done(m))
<1>1. \A s \in {"nil", "open", "closed"} : Same(m, [m EXCEPT !.x.searcher = s])
  BY DEF Same, Move, IndexType
<1>2. Same(m, Closed(m)) /\ Same(m, Done(m))
  BY DEF Same, Move, IndexType, Closed, Done
<1>3. Same(m, Seen(m))
  BY DEF Same, Move, IndexType, Seen
<1> QED BY <1>1, <1>2, <1>3

LEMMA CloseSearcherSound ==
    ASSUME NEW f \in Facades, NEW s, NEW m, NEW w, Sound(f, s, m, w), m.ok
    PROVE  /\ Sound(f, s, CloseSearcher(m), w)
           /\ CloseSearcher(m).ok => CloseSearcher(m).x.reader = m.x.reader
                                     /\ CloseSearcher(m).x.writer = m.x.writer
<1>1. m \in Move /\ m.x.searcher \in {"nil", "open", "closed"}
  BY DEF Sound, Move, IndexType
<1>2. CASE m.x.searcher = "nil"
  BY <1>2 DEF CloseSearcher
<1>3. CASE m.x.searcher = "closed"
  BY <1>3, EndSound DEF CloseSearcher
<1>4. CASE m.x.searcher = "open"
  <2>1. CloseSearcher(m) = [m EXCEPT !.x.searcher = "closed"]
    BY <1>4 DEF CloseSearcher
  <2>2. Same(m, CloseSearcher(m))
    BY <1>1, <2>1, SameMoves
  <2> QED BY <2>2, SameSound DEF Same
<1> QED BY <1>1, <1>2, <1>3, <1>4

(* frt_ir_commit leaves the reader without the write lock, or hangs. *)
LEMMA CommitReaderSound ==
    ASSUME NEW f \in Facades, NEW s, NEW m, NEW w, Sound(f, s, m, w), m.ok, m.x.reader.on
    PROVE  /\ Sound(f, s, CommitReader(m), w)
           /\ CommitReader(m).ok => /\ CommitReader(m).x.writer = m.x.writer
                                    /\ CommitReader(m).x.reader.on
                                    /\ ~CommitReader(m).x.reader.lock
<1> DEFINE n == CommitReader(m)
           live == m.x.reader.view \ m.x.reader.dels
<1>1. m \in Move /\ m.x.reader \in ReaderType /\ live \in SUBSET Docs
  BY DEF Sound, Move, IndexType, ReaderType
<1>2. CASE m.x.reader.mutex
  <2>1. n = End(m, "hung")
    BY <1>2 DEF CommitReader
  <2> QED BY <2>1, EndSound
<1>3. CASE ~m.x.reader.mutex /\ m.x.reader.lock
  <2>1. n = [Write(m, live) EXCEPT !.lck = FALSE, !.released = TRUE, !.x.reader.lock = FALSE,
                                   !.x.reader.view = live, !.x.reader.dels = {}]
    BY <1>3 DEF CommitReader
  <2> DEFINE c == Write(m, live)
  <2> HIDE DEF n, live
  <2>2. /\ c \in Move /\ c.ok = m.ok /\ c.x = m.x /\ c.docs = live /\ c.wrote = TRUE
        /\ c.robbed = m.robbed
    BY <1>1 DEF Write, Move
  <2> HIDE DEF c
  <2>x. n = [c EXCEPT !.lck = FALSE, !.released = TRUE, !.x.reader.lock = FALSE,
                      !.x.reader.view = live, !.x.reader.dels = {}]
    BY <2>1 DEF c
  <2>r. n \in Move
    <3>1. n.x.reader \in ReaderType
      BY <1>1, <2>2, <2>x DEF Move, IndexType, ReaderType
    <3>2. n.x \in IndexType
      BY <1>1, <2>2, <2>x, <3>1 DEF Move, IndexType
    <3> QED BY <1>1, <2>2, <2>x, <3>2 DEF Move
  <2>4. /\ n.ok = m.ok /\ n.x.script = m.x.script /\ n.x.status = m.x.status
        /\ n.x.writer = m.x.writer /\ n.docs = live /\ n.lck = FALSE /\ n.robbed = m.robbed
        /\ n.x.opts = m.x.opts /\ n.x.last = m.x.last /\ n.wrote = TRUE
    BY <1>1, <2>2, <2>x DEF Move, IndexType
  <2>3. /\ n.x.reader.on = m.x.reader.on /\ n.x.reader.lock = FALSE /\ n.x.reader.view = live
        /\ n.x.reader.dels = {} /\ n.x.reader.stale = m.x.reader.stale
    BY <1>1, <2>2, <2>x DEF Move, IndexType, ReaderType
  <2> QED BY <1>3, <2>r, <2>3, <2>4 DEF Sound, Consistent, Coherent, Current, Holds, Holding, n, live
<1>4. CASE ~m.x.reader.mutex /\ ~m.x.reader.lock
  <2>1. n = m
    BY <1>4 DEF CommitReader
  <2> QED BY <1>4, <2>1
<1> QED BY <1>2, <1>3, <1>4

LEMMA CloseReaderSound ==
    ASSUME NEW f \in Facades, NEW s, NEW m, NEW w, Sound(f, s, m, w), m.ok, m.x.reader.on
    PROVE  /\ Sound(f, s, CloseReader(m), w)
           /\ CloseReader(m).ok => /\ CloseReader(m).x.writer = m.x.writer
                                   /\ ~CloseReader(m).x.reader.on
<1> DEFINE c == CommitReader(m)
           n == ReaderGone(c)
<1>1. CloseReader(m) = IF c.ok THEN n ELSE c
  BY DEF CloseReader, Then
<1>2. /\ Sound(f, s, c, w)
      /\ c.ok => c.x.writer = m.x.writer /\ ~c.x.reader.lock
  BY CommitReaderSound
<1> HIDE DEF c
<1>3. CASE c.ok
  <2>1. /\ n \in Move /\ n.ok = c.ok /\ n.x.script = c.x.script /\ n.x.status = c.x.status
        /\ n.x.writer = c.x.writer /\ n.docs = c.docs /\ n.lck = c.lck /\ n.robbed = c.robbed
        /\ n.x.opts = c.x.opts /\ n.x.last = c.x.last /\ n.wrote = c.wrote
    BY <1>2 DEF Sound, ReaderGone, Move, IndexType, NoReader, ReaderType
  <2>2. /\ n.x.reader.on = FALSE /\ n.x.reader.lock = FALSE /\ n.x.reader.view = {}
        /\ n.x.reader.dels = {} /\ n.x.reader.stale = FALSE
    BY <1>2 DEF Sound, ReaderGone, Move, IndexType, NoReader
  <2> HIDE DEF n
  <2>3. Sound(f, s, n, w)
    BY <1>2, <1>3, <2>1, <2>2 DEF Sound, Consistent, Coherent, Current, Holds, Holding
  <2> QED BY <1>1, <1>2, <1>3, <2>1, <2>2, <2>3
<1> QED BY <1>1, <1>2, <1>3

(* frt_iw_commit *)
Flushed(m, n) ==
    /\ n.ok /\ n.x.reader = m.x.reader /\ n.x.writer.on = m.x.writer.on /\ n.x.writer.buf = {}
    /\ n.x.writer.sis = m.x.writer.sis \cup m.x.writer.buf

LEMMA CommitWriterSound ==
    ASSUME NEW f \in Facades, NEW s, NEW m, NEW w, Sound(f, s, m, w), m.ok
    PROVE  Sound(f, s, CommitWriter(m), w) /\ Flushed(m, CommitWriter(m))
<1> DEFINE n == CommitWriter(m)
           live == m.x.writer.sis \cup m.x.writer.buf
<1>1. m \in Move /\ m.x.writer \in WriterType /\ live \in SUBSET Docs
  BY DEF Sound, Move, IndexType, WriterType
<1>2. CASE m.x.writer.buf = {}
  <2>1. n = m
    BY <1>2 DEF CommitWriter
  <2> QED BY <1>1, <1>2, <2>1 DEF Flushed, WriterType
<1>3. CASE m.x.writer.buf # {}
  <2>1. n = [Write(m, live) EXCEPT !.x.writer.sis = live, !.x.writer.buf = {}]
    BY <1>3 DEF CommitWriter
  <2> HIDE DEF n, live
  <2>2. /\ n \in Move /\ n.ok = m.ok /\ n.x.script = m.x.script /\ n.x.status = m.x.status
        /\ n.x.reader = m.x.reader /\ n.docs = live /\ n.lck = m.lck /\ n.robbed = m.robbed
        /\ n.x.opts = m.x.opts /\ n.x.last = m.x.last /\ n.wrote = TRUE
    BY <1>1, <2>1 DEF Write, Move, IndexType, WriterType
  <2>3. n.x.writer.on = m.x.writer.on /\ n.x.writer.sis = live /\ n.x.writer.buf = {}
    BY <1>1, <2>1 DEF Write, Move, IndexType, WriterType
  <2>4. m.x.writer.on /\ ~m.x.reader.on
    BY <1>3 DEF Sound, Coherent
  <2>5. Sound(f, s, n, w)
    BY <1>3, <2>2, <2>3, <2>4 DEF Sound, Consistent, Coherent, Current, Holds, Holding, live
  <2> QED BY <2>2, <2>3, <2>5 DEF Flushed, n, live
<1> QED BY <1>2, <1>3

(* frt_iw_close of an open writer *)
LEMMA CloseWriterSound ==
    ASSUME NEW f \in Facades, NEW s, NEW m, NEW w, Sound(f, s, m, w), m.ok, m.x.writer.on
    PROVE  LET n == CloseWriter(m)
           IN Sound(f, s, n, w) /\ n.ok /\ ~n.x.reader.on /\ ~n.x.writer.on /\ ~n.x.reader.lock
<1> DEFINE c == CommitWriter(m)
           n == CloseWriter(m)
<1>0. Sound(f, s, c, w) /\ Flushed(m, c)
  BY CommitWriterSound
<1>1. /\ Sound(f, s, c, w) /\ c.ok /\ c.x.reader = m.x.reader /\ c.x.writer.on /\ c.x.writer.buf = {}
  BY <1>0 DEF Flushed
<1>2. n = [c EXCEPT !.lck = FALSE, !.released = TRUE, !.x.writer = NoWriter]
  BY DEF CloseWriter
<1> HIDE DEF c, n
<1>3. ~c.x.reader.on /\ ~c.x.reader.lock
  BY <1>1 DEF Sound, Coherent
<1>4. /\ n \in Move /\ n.ok = c.ok /\ n.x.script = c.x.script /\ n.x.status = c.x.status
      /\ n.x.reader = c.x.reader /\ n.docs = c.docs /\ n.lck = FALSE /\ n.robbed = c.robbed
      /\ n.x.opts = c.x.opts /\ n.x.last = c.x.last /\ n.wrote = c.wrote
      /\ n.x.writer.on = FALSE /\ n.x.writer.buf = {}
  BY <1>1, <1>2 DEF Sound, Move, IndexType, NoWriter, WriterType
<1>5. Sound(f, s, n, w)
  BY <1>1, <1>3, <1>4 DEF Sound, Consistent, Coherent, Current, Holds, Holding
<1> QED BY <1>1, <1>3, <1>4, <1>5 DEF n

(* frt_iw_open *)
LEMMA OpenWriterSound ==
    ASSUME NEW f \in Facades, NEW s, NEW m, NEW w, Sound(f, s, m, w), m.ok, ~m.x.writer.on, ~m.x.reader.on
    PROVE  Sound(f, s, OpenWriter(m), w) /\ (OpenWriter(m).ok => OpenWriter(m).x.writer.on)
<1> DEFINE n == OpenWriter(m)
<1>1. m \in Move /\ ~Holds(m.x)
  BY DEF Sound, Coherent, Holds
<1>2. CASE m.lck
  <2> DEFINE r == Raise(m)
  <2>1. n = [r EXCEPT !.lck = FALSE, !.robbed = TRUE]
    BY <1>2 DEF OpenWriter
  <2>2. Sound(f, s, r, w) /\ ~r.ok
    BY <1>1, RaiseSound
  <2> HIDE DEF r, n
  <2>3. n \in Move /\ n.x = r.x /\ n.ok = r.ok /\ n.robbed = TRUE
    BY <2>1, <2>2 DEF Sound, Move
  <2> QED BY <2>2, <2>3 DEF Sound, n
<1>3. CASE ~m.lck
  <2>1. n = [m EXCEPT !.lck = TRUE, !.x.writer = NewWriter(m.docs)]
    BY <1>3 DEF OpenWriter
  <2>2. /\ NewWriter(m.docs) \in WriterType /\ NewWriter(m.docs).on = TRUE
        /\ NewWriter(m.docs).sis = m.docs /\ NewWriter(m.docs).buf = {}
    BY <1>1 DEF NewWriter, NoWriter, WriterType, Move
  <2> HIDE DEF n
  <2>3. /\ n \in Move /\ n.ok = m.ok /\ n.x.script = m.x.script /\ n.x.status = m.x.status
        /\ n.x.reader = m.x.reader /\ n.docs = m.docs /\ n.lck = TRUE /\ n.robbed = m.robbed
        /\ n.x.opts = m.x.opts /\ n.x.last = m.x.last /\ n.wrote = m.wrote
        /\ n.x.writer = NewWriter(m.docs)
    BY <1>1, <2>1, <2>2 DEF Move, IndexType
  <2> QED BY <1>1, <1>3, <2>2, <2>3 DEF Sound, Consistent, Coherent, Current, Holds, Holding, n
<1> QED BY <1>2, <1>3

(* frt_ir_open: the reader is of the last commit. *)
LEMMA OpenReaderSound ==
    ASSUME NEW f \in Facades, NEW s, NEW m, NEW w, Sound(f, s, m, w), m.ok, ~m.x.writer.on, ~m.x.reader.on
    PROVE  LET n == OpenReader(m)
           IN /\ Sound(f, s, n, w) /\ n.ok /\ n.x.reader.on /\ ~n.x.reader.stale /\ ~n.x.writer.on
              /\ ~n.x.reader.lock
<1> DEFINE n == OpenReader(m)
           r == NewReader(m.docs, m.segs)
<1>1. m \in Move /\ ~Holds(m.x)
  BY DEF Sound, Coherent, Holds
<1>2. n = [m EXCEPT !.x.reader = r, !.opened = TRUE]
  BY DEF OpenReader
<1>3. /\ r \in ReaderType /\ r.on = TRUE /\ r.view = m.docs /\ r.dels = {} /\ r.stale = FALSE
      /\ r.lock = FALSE
  BY <1>1 DEF NewReader, NoReader, ReaderType, Move
<1> HIDE DEF n, r
<1>4. /\ n \in Move /\ n.ok = m.ok /\ n.x.script = m.x.script /\ n.x.status = m.x.status
      /\ n.x.reader = r /\ n.docs = m.docs /\ n.lck = m.lck /\ n.robbed = m.robbed
      /\ n.x.opts = m.x.opts /\ n.x.last = m.x.last /\ n.wrote = m.wrote
      /\ n.x.writer = m.x.writer
  BY <1>1, <1>2, <1>3 DEF Move, IndexType
<1>5. Sound(f, s, n, w)
  BY <1>1, <1>3, <1>4 DEF Sound, Consistent, Coherent, Current, Holds, Holding
<1> QED BY <1>3, <1>4, <1>5 DEF n

LEMMA ForgetSearcherSound ==
    ASSUME NEW f \in Facades, NEW s, NEW m, NEW w, Sound(f, s, m, w)
    PROVE  Sound(f, s, ForgetSearcher(m), w) /\ Same(m, ForgetSearcher(m))
<1>1. m \in Move
  BY DEF Sound
<1>2. Same(m, ForgetSearcher(m))
  BY <1>1, SameMoves DEF ForgetSearcher
<1> QED BY <1>2, SameSound

(* ensure_writer_open leaves a writer, or raises. *)
LEMMA EnsureWriterSound ==
    ASSUME NEW f \in Facades, NEW s, NEW m, NEW w, Sound(f, s, m, w), m.ok
    PROVE  Sound(f, s, EnsureWriterOpen(m), w)
           /\ (EnsureWriterOpen(m).ok => EnsureWriterOpen(m).x.writer.on)
<1>1. CASE m.x.writer.on
  BY <1>1 DEF EnsureWriterOpen
<1>2. CASE ~m.x.writer.on /\ ~m.x.reader.on
  <2>1. EnsureWriterOpen(m) = OpenWriter(m)
    BY <1>2 DEF EnsureWriterOpen
  <2> QED BY <1>2, <2>1, OpenWriterSound
<1>3. CASE ~m.x.writer.on /\ m.x.reader.on
  <2> DEFINE a == CloseSearcher(m)
             b == IF a.ok THEN CloseReader(a) ELSE a
             c == IF b.ok THEN ForgetSearcher(b) ELSE b
  <2>1. EnsureWriterOpen(m) = IF c.ok THEN OpenWriter(c) ELSE c
    BY <1>3 DEF EnsureWriterOpen, Then
  <2>2. Sound(f, s, a, w) /\ (a.ok => a.x.reader.on /\ ~a.x.writer.on)
    BY <1>3, CloseSearcherSound
  <2> HIDE DEF a
  <2>3. Sound(f, s, b, w) /\ (b.ok => ~b.x.reader.on /\ ~b.x.writer.on)
    BY <2>2, CloseReaderSound
  <2> HIDE DEF b
  <2>4. Sound(f, s, c, w) /\ (c.ok => ~c.x.reader.on /\ ~c.x.writer.on)
    BY <2>3, ForgetSearcherSound DEF Same
  <2> HIDE DEF c
  <2> QED BY <2>1, <2>4, OpenWriterSound
<1> QED BY <1>1, <1>2, <1>3

(* ensure_reader_open leaves a reader of the last commit, or raises. *)
LEMMA EnsureReaderSound ==
    ASSUME NEW f \in Facades, NEW s, NEW m, NEW w, Sound(f, s, m, w), m.ok
    PROVE  LET n == EnsureReaderOpen(m)
           IN /\ Sound(f, s, n, w) /\ (n.ok /\ n.x.reader.segs => n.x.reader.view = n.docs)
              /\ n.ok /\ ~m.x.reader.lock => ~Holds(n.x)
<1> DEFINE n == EnsureReaderOpen(m)
<1>0. \A k : Sound(f, s, k, w) /\ k.ok /\ k.x.reader.on /\ ~k.x.reader.stale => k.x.reader.view = k.docs
  BY DEF Sound, Consistent, Current
<1>1. CASE m.x.reader.on /\ IsLatest(m.x.reader)
  <2>1. n = m
    BY <1>1 DEF EnsureReaderOpen
  <2>2. ~m.x.writer.on
    BY <1>1 DEF Sound, Coherent
  <2> QED BY <1>0, <1>1, <2>1, <2>2 DEF IsLatest, Holds
<1>2. CASE m.x.reader.on /\ ~IsLatest(m.x.reader)
  <2> DEFINE a == CloseSearcher(m)
             b == IF a.ok THEN CloseReader(a) ELSE a
  <2>1. n = IF b.ok THEN OpenReader(b) ELSE b
    BY <1>2 DEF EnsureReaderOpen, Then
  <2>2. Sound(f, s, a, w) /\ (a.ok => a.x.reader.on /\ ~a.x.writer.on)
    BY <1>2, CloseSearcherSound DEF Sound, Coherent
  <2> HIDE DEF a
  <2>3. Sound(f, s, b, w) /\ (b.ok => ~b.x.reader.on /\ ~b.x.writer.on)
    BY <2>2, CloseReaderSound
  <2> HIDE DEF b, n
  <2> QED BY <1>0, <2>1, <2>3, OpenReaderSound DEF n, Holds
<1>3. CASE ~m.x.reader.on
  <2> DEFINE b == IF m.x.writer.on THEN CloseWriter(m) ELSE m
  <2>1. n = OpenReader(b)
    BY <1>3 DEF EnsureReaderOpen
  <2>2. Sound(f, s, b, w) /\ b.ok /\ ~b.x.reader.on /\ ~b.x.writer.on
    BY <1>3, CloseWriterSound
  <2> HIDE DEF b, n
  <2> QED BY <1>0, <2>1, <2>2, OpenReaderSound DEF n, Holds
<1> QED BY <1>1, <1>2, <1>3

LEMMA NewSearcherSound ==
    ASSUME NEW f \in Facades, NEW s, NEW m, NEW w, Sound(f, s, m, w)
    PROVE  Sound(f, s, NewSearcher(m), w) /\ Same(m, NewSearcher(m))
<1>1. m \in Move /\ Same(m, m)
  BY DEF Sound, Same
<1>2. Same(m, NewSearcher(m))
  BY <1>1, SameMoves DEF NewSearcher
<1> QED BY <1>2, SameSound

LEMMA EnsureSearcherSound ==
    ASSUME NEW f \in Facades, NEW s, NEW m, NEW w, Sound(f, s, m, w), m.ok
    PROVE  LET n == EnsureSearcherOpen(m)
           IN /\ Sound(f, s, n, w) /\ (n.ok /\ n.x.reader.segs => n.x.reader.view = n.docs)
              /\ n.ok /\ ~m.x.reader.lock => ~Holds(n.x)
<1> DEFINE a == EnsureReaderOpen(m)
<1>1. EnsureSearcherOpen(m) = IF a.ok THEN NewSearcher(a) ELSE a
  BY DEF EnsureSearcherOpen, Then
<1>2. /\ Sound(f, s, a, w) /\ (a.ok /\ a.x.reader.segs => a.x.reader.view = a.docs)
      /\ a.ok /\ ~m.x.reader.lock => ~Holds(a.x)
  BY EnsureReaderSound
<1> HIDE DEF a
<1> QED BY <1>1, <1>2, NewSearcherSound DEF Same, Holds

(* ir_acquire_write_lock: only a reader of the last commit gets the lock. *)
LEMMA AcquireSound ==
    ASSUME NEW f \in Facades, NEW s, NEW m, NEW w, Sound(f, s, m, w), m.ok, m.x.reader.on
    PROVE  LET n == AcquireWriteLock(m)
           IN /\ Sound(f, s, n, w)
              /\ n.ok => /\ n.x.reader.on /\ n.x.reader.lock /\ n.x.writer = m.x.writer
                         /\ n.x.reader.view = m.x.reader.view
                         /\ n.x.reader.dels = m.x.reader.dels /\ n.docs = m.docs
<1> DEFINE n == AcquireWriteLock(m)
<1>1. /\ m \in Move /\ m.x.reader \in ReaderType /\ ~m.x.writer.on
      /\ ~m.x.reader.lock => ~Holds(m.x) /\ m.x.reader.dels = {}
  BY DEF Sound, Move, IndexType, Coherent, Holds
<1>2. CASE m.x.reader.mutex
  <2>1. n = End(m, "hung")
    BY <1>2 DEF AcquireWriteLock
  <2> QED BY <2>1, EndSound
<1>3. CASE m.x.reader.lock /\ ~m.x.reader.mutex
  <2>1. n = m
    BY <1>3 DEF AcquireWriteLock
  <2> QED BY <1>3, <2>1
<1>4. CASE (m.lck \/ m.x.reader.stale) /\ ~m.x.reader.lock /\ ~m.x.reader.mutex
  <2> DEFINE r == Raise(m)
  <2>1. n = [r EXCEPT !.x.reader.mutex = TRUE, !.released = @ \/ ~m.lck]
    BY <1>4 DEF AcquireWriteLock
  <2>2. Sound(f, s, r, w) /\ ~r.ok
    BY <1>1, <1>4, RaiseSound
  <2> HIDE DEF r, n
  <2>3. /\ n \in Move /\ n.ok = r.ok /\ n.x.script = r.x.script /\ n.x.status = r.x.status
        /\ n.x.writer = r.x.writer /\ n.docs = r.docs /\ n.lck = r.lck /\ n.robbed = r.robbed
        /\ n.x.opts = r.x.opts /\ n.x.last = r.x.last /\ n.wrote = r.wrote
    BY <1>1, <2>1, <2>2 DEF Sound, Move, IndexType, ReaderType
  <2>4. /\ n.x.reader.on = r.x.reader.on /\ n.x.reader.lock = r.x.reader.lock
        /\ n.x.reader.view = r.x.reader.view /\ n.x.reader.dels = r.x.reader.dels
        /\ n.x.reader.stale = r.x.reader.stale
    BY <2>1, <2>2 DEF Sound, Move, IndexType, ReaderType
  <2> QED BY <2>2, <2>3, <2>4 DEF Sound, Consistent, Coherent, Current, Holds, Holding, n
<1>5. CASE ~m.lck /\ ~m.x.reader.stale /\ ~m.x.reader.lock /\ ~m.x.reader.mutex
  <2>1. n = [m EXCEPT !.lck = TRUE, !.x.reader.lock = TRUE]
    BY <1>5 DEF AcquireWriteLock
  <2> HIDE DEF n
  <2>2. /\ n \in Move /\ n.ok = m.ok /\ n.x.script = m.x.script /\ n.x.status = m.x.status
        /\ n.x.writer = m.x.writer /\ n.docs = m.docs /\ n.lck = TRUE /\ n.robbed = m.robbed
        /\ n.x.opts = m.x.opts /\ n.x.last = m.x.last /\ n.wrote = m.wrote
    BY <1>1, <2>1 DEF Move, IndexType, ReaderType
  <2>3. /\ n.x.reader.on = m.x.reader.on /\ n.x.reader.lock = TRUE
        /\ n.x.reader.view = m.x.reader.view /\ n.x.reader.dels = m.x.reader.dels
        /\ n.x.reader.stale = m.x.reader.stale
    BY <1>1, <2>1 DEF Move, IndexType, ReaderType
  <2>4. Sound(f, s, n, w)
    BY <1>1, <1>5, <2>2, <2>3 DEF Sound, Consistent, Coherent, Current, Holds, Holding
  <2> QED BY <2>2, <2>3, <2>4 DEF n
<1> QED BY <1>2, <1>3, <1>4, <1>5

(* flush leaves neither a writer nor a reader with the write lock. *)
LEMMA FlushSound ==
    ASSUME NEW f \in Facades, NEW s, NEW m, NEW w, Sound(f, s, m, w), m.ok
    PROVE  LET n == Flush(m)
           IN /\ Sound(f, s, n, w) /\ (n.ok => ~Holds(n.x))
              /\ n.ok /\ m.x.writer.on => ~n.x.reader.on
<1> DEFINE n == Flush(m)
<1>1. CASE m.x.reader.on
  <2> DEFINE a == CloseSearcher(m)
             b == IF a.ok THEN ForgetSearcher(a) ELSE a
  <2>1. n = IF b.ok THEN CommitReader(b) ELSE b
    BY <1>1 DEF Flush, Then
  <2>2. ~m.x.writer.on
    BY <1>1 DEF Sound, Coherent
  <2>3. Sound(f, s, a, w) /\ (a.ok => a.x.reader.on /\ ~a.x.writer.on)
    BY <1>1, <2>2, CloseSearcherSound
  <2> HIDE DEF a
  <2>4. Sound(f, s, b, w) /\ (b.ok => b.x.reader.on /\ ~b.x.writer.on)
    BY <2>3, ForgetSearcherSound DEF Same
  <2> HIDE DEF b, n
  <2> QED BY <2>1, <2>2, <2>4, CommitReaderSound DEF n, Holds
<1>2. CASE ~m.x.reader.on /\ m.x.writer.on
  <2>1. n = CloseWriter(m)
    BY <1>2 DEF Flush
  <2> QED BY <1>2, <2>1, CloseWriterSound DEF Holds
<1>3. CASE ~m.x.reader.on /\ ~m.x.writer.on
  <2>1. n = m
    BY <1>3 DEF Flush
  <2>2. ~Holds(m.x)
    BY <1>3 DEF Sound, Coherent, Holds
  <2> QED BY <1>3, <2>1, <2>2
<1> QED BY <1>1, <1>2, <1>3

LEMMA CloseIndexSound ==
    ASSUME NEW f \in Facades, NEW s, NEW m, NEW w, Sound(f, s, m, w), m.ok
    PROVE  Sound(f, s, CloseIndex(m), w) /\ (CloseIndex(m).ok => ~Holds(CloseIndex(m).x))
<1> DEFINE a == CloseSearcher(m)
           b == IF a.ok THEN (IF a.x.reader.on THEN CloseReader(a) ELSE a) ELSE a
           c == IF b.ok THEN (IF b.x.writer.on THEN CloseWriter(b) ELSE b) ELSE b
<1>1. CloseIndex(m) = IF c.ok THEN Closed(c) ELSE c
  BY DEF CloseIndex, Then
<1>2. Sound(f, s, a, w)
  BY CloseSearcherSound
<1> HIDE DEF a
<1>3. Sound(f, s, b, w) /\ (b.ok => ~b.x.reader.on)
  BY <1>2, CloseReaderSound
<1> HIDE DEF b
<1>4. Sound(f, s, c, w) /\ (c.ok => ~Holds(c.x))
  <2>1. CASE b.ok /\ b.x.writer.on
    BY <1>3, <2>1, CloseWriterSound DEF Holds
  <2>2. CASE b.ok /\ ~b.x.writer.on
    BY <1>3, <2>2 DEF Sound, Coherent, Holds
  <2>3. CASE ~b.ok
    BY <1>3, <2>3
  <2> QED BY <2>1, <2>2, <2>3
<1> HIDE DEF c
<1>5. Same(c, Closed(c))
  BY <1>4, SameMoves DEF Sound
<1> QED BY <1>1, <1>4, <1>5, SameSound DEF Same, Holds

LEMMA UseSearcherSound ==
    ASSUME NEW f \in Facades, NEW s, NEW m, NEW w, Sound(f, s, m, w), m.ok
    PROVE  Sound(f, s, UseSearcher(m), w)
           /\ (UseSearcher(m).ok => UseSearcher(m).x.reader = m.x.reader
                                    /\ UseSearcher(m).x.writer = m.x.writer)
<1>1. m \in Move
  BY DEF Sound
<1>2. Same(m, Done(m))
  BY <1>1, SameMoves
<1>3. Sound(f, s, Done(m), w)
  BY <1>2, SameSound
<1> QED BY <1>2, <1>3, EndSound DEF UseSearcher, Same

-----------------------------------------------------------------------------
(* From steps to states *)

LEMMA StartSound ==
    ASSUME Inv, Sane, NEW f \in Facades, fc[f].status = "ok", fc[f].script # <<>>
    PROVE  /\ Sound(f, Tail(fc[f].script), Start(f), want) /\ Start(f).ok /\ Start(f).docs = disk.docs
           /\ Start(f).x.reader = fc[f].reader /\ Start(f).x.writer = fc[f].writer
           /\ Start(f).x.seen = fc[f].seen
<1> DEFINE m == Start(f)
<1>1. /\ fc[f] \in IndexType /\ Tail(fc[f].script) \in Seq(StepType) /\ Coherent(fc[f])
  BY DEF Inv, TypeInv, IndexInv, IndexType
<1>2. /\ m \in Move /\ m.ok = TRUE /\ m.x.script = Tail(fc[f].script) /\ m.x.status = fc[f].status
      /\ m.x.reader = fc[f].reader /\ m.x.writer = fc[f].writer /\ m.docs = disk.docs
      /\ m.lck = lck /\ m.robbed = robbed /\ m.wrote = FALSE /\ m.x.seen = fc[f].seen
      /\ m.x.opts = fc[f].opts /\ m.x.last = fc[f].last
  BY <1>1 DEF Start, Inv, TypeInv, Move, IndexType
<1> HIDE DEF m
<1>3. ~robbed /\ LockInv
  BY DEF Inv, Sane
<1>4. Consistent(f, m, want)
  <2>1. Current(m.x, m.docs)
    BY <1>2, <1>3 DEF LockInv, Current
  <2>2. Holds(m.x) <=> Holds(fc[f])
    BY <1>2 DEF Holds
  <2>3. Holding(m.x, m.docs) = Holding(fc[f], disk.docs)
    BY <1>2 DEF Holding
  <2>4. ~OthersHold(f) => Holding(fc[f], disk.docs) = want
    <3>1. CASE Holds(fc[f])
      BY <1>3, <3>1 DEF LockInv
    <3>2. CASE ~Holds(fc[f])
      BY <1>3, <3>2 DEF LockInv, OthersHold, Holding, Holds
    <3> QED BY <3>1, <3>2
  <2>5. Holds(fc[f]) => ~OthersHold(f)
    BY <1>3 DEF LockInv, OthersHold
  <2>6. lck <=> (OthersHold(f) \/ Holds(fc[f]))
    BY <1>3 DEF LockInv, OthersHold
  <2> QED BY <1>2, <2>1, <2>2, <2>3, <2>4, <2>5, <2>6 DEF Consistent
<1>5. Coherent(m.x)
  BY <1>1, <1>2 DEF Coherent
<1> QED BY <1>2, <1>3, <1>4, <1>5 DEF Sound, m

(* The others see a commit of f as theirs getting stale. *)
Other(x, y, wrote) ==
    /\ y \in IndexType /\ y.writer = x.writer /\ y.opts = x.opts /\ y.status = x.status
    /\ y.script = x.script /\ y.last = x.last /\ y.seen = x.seen
    /\ y.reader.on = x.reader.on /\ y.reader.view = x.reader.view /\ y.reader.dels = x.reader.dels
    /\ y.reader.segs = x.reader.segs /\ y.reader.lock = x.reader.lock
    /\ y.reader.stale = IF wrote THEN x.reader.on ELSE x.reader.stale

LEMMA OtherIs ==
    ASSUME TypeInv, NEW f \in Facades, NEW m \in Move, Becomes(f, m)
    PROVE  /\ fc' \in [Facades -> IndexType] /\ fc'[f] = m.x
           /\ \A g \in Facades : g # f => Other(fc[g], fc'[g], m.wrote)
<1>1. /\ fc'[f] = m.x /\ DOMAIN fc' = Facades /\ fc' = [g \in Facades |-> fc'[g]]
      /\ \A g \in Facades : g # f =>
            fc'[g] = IF m.wrote THEN [fc[g] EXCEPT !.reader.stale = fc[g].reader.on] ELSE fc[g]
  BY DEF Becomes
<1>2. ASSUME NEW g \in Facades, g # f PROVE Other(fc[g], fc'[g], m.wrote)
  <2>1. fc[g] \in IndexType /\ fc[g].reader \in ReaderType
    BY DEF TypeInv, IndexType
  <2>2. CASE ~m.wrote
    BY <1>1, <1>2, <2>1, <2>2 DEF Other
  <2>3. CASE m.wrote
    <3>1. fc'[g] = [fc[g] EXCEPT !.reader.stale = fc[g].reader.on]
      BY <1>1, <1>2, <2>3
    <3>2. fc'[g] \in IndexType
      BY <2>1, <3>1 DEF IndexType, ReaderType
    <3> QED BY <2>1, <2>3, <3>1, <3>2 DEF Other, IndexType, ReaderType
  <2> QED BY <2>2, <2>3
<1>3. \A g \in Facades : fc'[g] \in IndexType
  BY <1>1, <1>2 DEF Other, Move
<1> QED BY <1>1, <1>2, <1>3

LEMMA OtherKept ==
    ASSUME NEW x, NEW y, NEW wr, Other(x, y, wr)
    PROVE  /\ Coherent(x) => Coherent(y) 
           /\ Ready(x) => Ready(y)
           /\ Holds(y) <=> Holds(x) 
           /\ \A docs : Holding(y, docs) = Holding(x, docs)
           /\ \A docs : ~wr /\ Current(x, docs) => Current(y, docs)
           /\ \A docs : wr /\ ~Holds(x) => Current(y, docs)
<1>1. Coherent(x) => Coherent(y)
  BY DEF Other, Coherent
<1>2. Ready(x) => Ready(y)
  <2>1. HeadReady(x) => HeadReady(y)
    BY DEF Other, HeadReady
  <2>2. Goes(x) => Goes(y)
    BY DEF Other, Goes, OnlyReads
  <2>3. EndsFlushed(x) => EndsFlushed(y)
    BY <2>2 DEF Other, EndsFlushed
  <2>4. Shape(x.script) => Shape(y.script)
    BY DEF Other
  <2> QED BY <2>1, <2>3, <2>4 DEF Ready
<1>3. (Holds(y) <=> Holds(x)) /\ \A docs : Holding(y, docs) = Holding(x, docs)
  BY DEF Other, Holds, Holding
<1>4. \A docs : ~wr /\ Current(x, docs) => Current(y, docs)
  BY DEF Other, Current
<1>5. \A docs : wr /\ ~Holds(x) => Current(y, docs)
  BY DEF Other, Current, Holds
<1> QED BY <1>1, <1>2, <1>3, <1>4, <1>5

(* Once a lock file was removed under its holder nothing more is said. *)
LEMMA BecomesRobbed ==
    ASSUME Inv, NEW f \in Facades, NEW m \in Move, Becomes(f, m), Coherent(m.x), Ready(m.x), robbed',
           robbed' \in BOOLEAN, want' \in SUBSET Docs, used' \in SUBSET Docs
    PROVE  Inv'
<1>1. /\ fc' \in [Facades -> IndexType] /\ fc'[f] = m.x
      /\ \A g \in Facades : g # f => Other(fc[g], fc'[g], m.wrote)
  BY OtherIs DEF Inv
<1>2. disk' = [docs |-> m.docs, segs |-> m.segs] /\ lck' = m.lck
  BY DEF Becomes
<1>3. TypeInv'
  BY <1>1, <1>2 DEF TypeInv, Move
<1>4. IndexInv'
  <2>1. \A g \in Facades : g # f => Coherent(fc'[g]) /\ Ready(fc'[g])
    BY <1>1, OtherKept DEF Inv, IndexInv
  <2> QED BY <1>1, <2>1 DEF IndexInv
<1> QED BY <1>3, <1>4 DEF Inv, Sane

LEMMA BecomesInv ==
    ASSUME Inv, Sane, NEW f \in Facades, NEW s, NEW m, Sound(f, s, m, want'), Becomes(f, m), Ready(m.x),
           OthersHold(f) => want' = want, want' \in SUBSET Docs, used' \in SUBSET Docs
    PROVE  Inv'
<1>1. /\ m \in Move /\ Coherent(m.x)
  BY DEF Sound
<1>2. /\ fc' \in [Facades -> IndexType] /\ fc'[f] = m.x
      /\ \A g \in Facades : g # f => Other(fc[g], fc'[g], m.wrote)
  BY <1>1, OtherIs DEF Inv
<1>r. CASE robbed' = TRUE
  BY <1>1, <1>r, BecomesRobbed
<1> SUFFICES ASSUME robbed' # TRUE PROVE Inv'
  BY <1>r
<1>3. disk' = [docs |-> m.docs, segs |-> m.segs] /\ lck' = m.lck /\ robbed' = m.robbed
  BY DEF Becomes
<1>4. TypeInv'
  BY <1>1, <1>2, <1>3 DEF TypeInv, Move
<1>5. IndexInv'
  <2>1. \A g \in Facades : g # f => Coherent(fc'[g]) /\ Ready(fc'[g])
    BY <1>2, OtherKept DEF Inv, IndexInv
  <2> QED BY <1>1, <1>2, <2>1 DEF IndexInv
<1>6. ASSUME Sane' PROVE LockInv'
  <2>1. ~m.robbed /\ m.x.status # "crashed"
    BY <1>2, <1>3, <1>6 DEF Sane
  <2>2. Consistent(f, m, want') /\ disk'.docs = m.docs /\ LockInv
    BY <1>3, <2>1 DEF Sound, Inv
  <2>3. \A g \in Facades : g # f => /\ Holds(fc'[g]) <=> Holds(fc[g])
                                    /\ Holding(fc'[g], disk.docs) = Holding(fc[g], disk.docs)
    BY <1>2, OtherKept
  <2>4. (\E g \in Facades : g # f /\ Holds(fc'[g])) <=> OthersHold(f)
    BY <2>3 DEF OthersHold
  <2>5. \A g \in Facades : Current(fc'[g], m.docs)
    <3> SUFFICES ASSUME NEW g \in Facades, g # f PROVE Current(fc'[g], m.docs)
      BY <1>2, <2>2 DEF Consistent
    <3>1. CASE m.wrote
      <4>1. ~Holds(fc[g])
        BY <2>2, <3>1 DEF Consistent, OthersHold
      <4> QED BY <1>2, <3>1, <4>1, OtherKept
    <3>2. CASE ~m.wrote
      <4>1. Current(fc[g], disk.docs) /\ m.docs = disk.docs
        BY <2>2, <3>2 DEF Consistent, LockInv
      <4> QED BY <1>2, <3>2, <4>1, OtherKept
    <3> QED BY <3>1, <3>2
  <2>6. \A g, h \in Facades : Holds(fc'[g]) /\ Holds(fc'[h]) => g = h
    BY <1>2, <2>2, <2>3 DEF Consistent, LockInv, OthersHold
  <2>7. lck' <=> \E g \in Facades : Holds(fc'[g])
    BY <1>2, <1>3, <2>2, <2>4 DEF Consistent
  <2>8. CASE OthersHold(f)
    <3>1. ~Holds(m.x) /\ m.docs = disk.docs /\ want' = want
      BY <2>2, <2>8 DEF Consistent
    <3>2. \A g \in Facades : Holds(fc'[g]) => Holding(fc'[g], m.docs) = want'
      BY <1>2, <2>2, <2>3, <3>1 DEF LockInv
    <3> QED BY <2>2, <2>4, <2>5, <2>6, <2>7, <2>8, <3>2 DEF LockInv
  <2>9. CASE ~OthersHold(f)
    <3>1. Holding(m.x, m.docs) = want' /\ \A g \in Facades : Holds(fc'[g]) => g = f
      BY <2>2, <2>4, <2>9 DEF Consistent
    <3>2. ~Holds(m.x) => m.docs = want'
      BY <3>1 DEF Holding, Holds
    <3> QED BY <1>2, <2>2, <2>5, <2>6, <2>7, <3>1, <3>2 DEF LockInv
  <2> QED BY <2>8, <2>9
<1> QED BY <1>4, <1>5, <1>6 DEF Inv

-----------------------------------------------------------------------------
(* From one step of a call to the next *)

After(f, x) ==
    /\ fc[f].script[1].do \in {"ensure_writer", "commit", "delete_term", "add_readers"} => x.writer.on
    /\ fc[f].script[1].do = "delete_term" => ~x.reader.on
    /\ fc[f].script[1].do \in {"flush", "optimize", "close"} => ~Holds(x)
    /\ fc[f].script[1].do \in Ensures /\ ~fc[f].reader.lock => ~Holds(x)
    /\ fc[f].script[1].do \in Uses => (Holds(x) <=> Holds(fc[f]))
    /\ fc[f].script[1].do = "flush" /\ fc[f].writer.on => ~x.reader.on
    /\ fc[f].script[1].do \in {"ensure_reader", "ensure_searcher"} /\ x.reader.segs =>
          x.reader.view \ x.reader.dels = x.seen

LEMMA TailIs ==
    ASSUME NEW T, NEW s \in Seq(T), s # <<>>
    PROVE  /\ Len(s) \in Nat \ {0} /\ Tail(s) \in Seq(T) /\ Len(Tail(s)) = Len(s) - 1
           /\ \A i \in 1..(Len(s) - 1) : Tail(s)[i] = s[i + 1]
           /\ Tail(s) # <<>> => Len(s) > 1
           /\ Tail(s) = <<>> => Len(s) = 1
           /\ Head(s) = s[1]
<1>1. Len(s) \in Nat \ {0} /\ Tail(s) \in Seq(T) /\ Len(Tail(s)) = Len(s) - 1 /\ Head(s) = s[1]
  OBVIOUS
<1>2. \A i \in 1..(Len(s) - 1) : Tail(s)[i] = s[i + 1]
  OBVIOUS
<1>3. Tail(s) # <<>> => Len(Tail(s)) # 0
  BY <1>1
<1>4. Tail(s) = <<>> => Len(Tail(s)) = 0
  <2>1. Len(<<>>) = 0
    OBVIOUS
  <2>2. ASSUME NEW t, t = <<>> PROVE Len(t) = 0
    BY <2>1, <2>2
  <2> QED BY <2>2
<1> QED BY <1>1, <1>2, <1>3, <1>4

LEMMA TailShape ==
    ASSUME NEW s \in Seq(StepType), s # <<>>, Shape(s)
    PROVE  Shape(Tail(s))
<1>1. /\ Len(s) \in Nat \ {0} /\ Len(Tail(s)) = Len(s) - 1
      /\ \A i \in 1..(Len(s) - 1) : Tail(s)[i] = s[i + 1]
  BY TailIs
<1>2. ASSUME NEW i \in 1..(Len(Tail(s)) - 1) PROVE Follows(Tail(s)[i].do, Tail(s)[i + 1].do)
  <2>1. i + 1 \in 1..(Len(s) - 1) /\ Tail(s)[i] = s[i + 1] /\ Tail(s)[i + 1] = s[(i + 1) + 1]
    BY <1>1
  <2>2. Follows(s[i + 1].do, s[(i + 1) + 1].do)
    BY <2>1 DEF Shape
  <2> QED BY <2>1, <2>2
<1>3. ASSUME NEW i \in 1..(Len(Tail(s)) - 2),
             Tail(s)[i + 1].do = "flush" /\ Tail(s)[i + 2].do = "commit"
      PROVE  Tail(s)[i].do = "delete_term"
  <2>1. /\ i + 1 \in 1..(Len(s) - 2) /\ Tail(s)[i] = s[i + 1] /\ Tail(s)[i + 1] = s[(i + 1) + 1]
        /\ Tail(s)[i + 2] = s[(i + 1) + 2]
    BY <1>1
  <2> QED BY <1>3, <2>1 DEF Shape
<1> QED BY <1>2, <1>3 DEF Shape

LEMMA ReadyAfter ==
    ASSUME Inv, NEW f \in Facades, fc[f].script # <<>>, NEW m, NEW w,
           Sound(f, Tail(fc[f].script), m, w), m.ok => After(f, m.x)
    PROVE  Ready(m.x)
<1> DEFINE s == fc[f].script
           t == m.x.script
<1>1. CASE ~m.ok
  <2>1. t = <<>> /\ (m.x.status = "ok" => ~Holds(m.x))
    BY <1>1 DEF Sound
  <2>2. Shape(t)
    BY <2>1 DEF Shape
  <2> QED BY <2>1, <2>2 DEF Ready, HeadReady, EndsFlushed, Holds
<1>2. CASE m.ok
  <2>1. t = Tail(s) /\ m.x.opts = fc[f].opts /\ m.x.last = fc[f].last /\ After(f, m.x)
    BY <1>2 DEF Sound
  <2>2. s \in Seq(StepType) /\ s # <<>> /\ Ready(fc[f])
    BY DEF Inv, TypeInv, IndexInv, IndexType
  <2>3. /\ Len(s) \in Nat \ {0} /\ Len(t) = Len(s) - 1
        /\ \A i \in 1..(Len(s) - 1) : t[i] = s[i + 1]
        /\ t # <<>> => Len(s) > 1
        /\ t = <<>> => Len(s) = 1
    BY <2>1, <2>2, TailIs
  <2>4. Shape(t)
    BY <2>1, <2>2, TailShape DEF Ready
  <2>5. HeadReady(m.x)
    <3> SUFFICES ASSUME t # <<>> PROVE HeadReady(m.x)
      BY DEF HeadReady
    <3>1. t[1] = s[2] /\ Follows(s[1].do, s[2].do)
      <4>1. 1 \in 1..(Len(s) - 1) /\ 1 + 1 = 2
        BY <2>3
      <4>2. Follows(s[1].do, s[1 + 1].do) /\ t[1] = s[1 + 1]
        BY <2>2, <2>3, <4>1 DEF Ready, Shape
      <4> QED BY <4>1, <4>2
    <3>2. t[1].do \in {"delete_term", "optimize", "add_readers", "add"} => m.x.writer.on
      BY <2>1, <3>1 DEF After, Follows
    <3>3. ASSUME t[1].do = "commit" PROVE ~m.x.reader.on
      <4>1. CASE s[1].do = "delete_term"
        BY <2>1, <4>1 DEF After
      <4>2. CASE s[1].do = "flush"
        <5>1. fc[f].writer.on
          BY <2>2, <2>3, <3>1, <3>3, <4>2 DEF Ready, HeadReady
        <5> QED BY <2>1, <4>2, <5>1 DEF After
      <4> QED BY <3>1, <3>3, <4>1, <4>2 DEF Follows
    <3>4. ASSUME t[1].do = "flush", Len(t) > 1, t[2].do = "commit" PROVE m.x.writer.on
      <4>1. 1 \in 1..(Len(s) - 2) /\ t[2] = s[3] /\ 1 + 1 = 2 /\ 1 + 2 = 3
        BY <2>3, <3>4
      <4>2. s[1 + 1].do = "flush" /\ s[1 + 2].do = "commit" => s[1].do = "delete_term"
        BY <2>2, <4>1 DEF Ready, Shape
      <4>3. s[1].do = "delete_term"
        BY <3>1, <3>4, <4>1, <4>2
      <4> QED BY <2>1, <4>3 DEF After
    <3>5. t[1].do \in {"read", "search"} /\ m.x.reader.segs =>
             m.x.reader.view \ m.x.reader.dels = m.x.seen
      BY <2>1, <3>1 DEF After, Follows
    <3> QED BY <3>2, <3>3, <3>4, <3>5 DEF HeadReady
  <2>6. EndsFlushed(m.x)
    <3> SUFFICES ASSUME m.x.opts.auto_flush PROVE EndsFlushed(m.x)
      BY DEF EndsFlushed
    <3>1. Goes(fc[f])
      BY <2>1, <2>2 DEF Ready, EndsFlushed
    <3>2. t # <<>> => Len(t) \in 1..(Len(s) - 1) /\ t[Len(t)] = s[Len(t) + 1] /\ Len(t) + 1 = Len(s)
      BY <2>3
    <3>3. ASSUME NEW dos, Only(s, dos) PROVE Only(t, dos) /\ s[1].do \in dos
      <4>1. \A i \in 1..Len(t) : i \in 1..(Len(s) - 1) /\ i + 1 \in 1..Len(s)
        BY <2>3
      <4>2. \A i \in 1..Len(t) : t[i].do \in dos
        BY <2>3, <3>3, <4>1 DEF Only
      <4>3. 1 \in 1..Len(s)
        BY <2>3
      <4> QED BY <3>3, <4>2, <4>3 DEF Only
    <3>4. CASE fc[f].last \notin Keepers /\ Ends(s)
      <4>1. CASE t = <<>>
        <5>1. s[1].do \in {"flush", "optimize", "close"}
          BY <2>3, <3>4, <4>1 DEF Ends
        <5> QED BY <2>1, <4>1, <5>1 DEF After, EndsFlushed, Holds
      <4>2. CASE t # <<>>
        <5>1. Ends(t)
          BY <3>2, <3>4, <4>2 DEF Ends
        <5> QED BY <2>1, <3>4, <4>2, <5>1 DEF EndsFlushed, Goes
      <4> QED BY <4>1, <4>2
    <3>5. CASE fc[f].last \notin Keepers /\ OnlyReads(fc[f])
      <4>1. Only(t, Ensures \cup Uses) /\ s[1].do \in Ensures \cup Uses
        BY <3>3, <3>5 DEF OnlyReads
      <4>2. ~Holds(m.x)
        BY <2>1, <3>5, <4>1 DEF OnlyReads, After, Holds
      <4> QED BY <2>1, <3>5, <4>1, <4>2 DEF EndsFlushed, Goes, OnlyReads, Holds
    <3>6. CASE fc[f].last \in Keepers /\ Only(s, Keeping)
      <4>1. Only(t, Keeping) /\ s[1].do \in Keeping
        BY <3>3, <3>6
      <4>2. m.x.writer.on
        BY <2>1, <4>1 DEF After, Keeping
      <4>3. ~m.x.reader.lock
        BY <4>2 DEF Sound, Coherent
      <4> QED BY <2>1, <3>6, <4>1, <4>3 DEF EndsFlushed, Goes
    <3> QED BY <3>1, <3>4, <3>5, <3>6 DEF Goes
  <2> QED BY <2>4, <2>5, <2>6 DEF Ready
<1> QED BY <1>1, <1>2

LEMMA AtIs ==
    ASSUME Inv, NEW f \in Facades, NEW do, At(f, do)
    PROVE  /\ Sane /\ fc[f].status = "ok" /\ fc[f].script # <<>>
           /\ fc[f].script[1].do = do /\ fc[f].script[1] \in StepType /\ Arg(f) = fc[f].script[1].arg
<1>1. fc[f].script \in Seq(StepType) /\ fc[f].script # <<>>
  BY DEF Inv, TypeInv, IndexType, At
<1>2. Head(fc[f].script) = fc[f].script[1] /\ Len(fc[f].script) \in Nat \ {0}
  BY <1>1, TailIs
<1>3. fc[f].script[1] \in StepType
  BY <1>1, <1>2
<1> QED BY <1>1, <1>2, <1>3 DEF At, Arg

LEMMA StepInv ==
    ASSUME Inv, NEW f \in Facades, NEW do, At(f, do), NEW m,
           Sound(f, Tail(fc[f].script), m, want'), Becomes(f, m),
           OthersHold(f) => want' = want, want' \in SUBSET Docs, used' \in SUBSET Docs,
           m.ok => After(f, m.x)
    PROVE  Inv'
<1>1. Sane /\ fc[f].script # <<>>
  BY AtIs
<1>2. Ready(m.x)
  BY <1>1, ReadyAfter
<1> QED BY <1>1, <1>2, BecomesInv

LEMMA KeepInv ==
    ASSUME Inv, NEW f \in Facades, NEW do, At(f, do), NEW m,
           Sound(f, Tail(fc[f].script), m, want), Becomes(f, m), Keep,
           m.ok => After(f, m.x)
    PROVE  Inv'
<1>1. want' = want /\ want' \in SUBSET Docs /\ used' \in SUBSET Docs
  BY DEF Keep, Inv, TypeInv
<1>2. Sound(f, Tail(fc[f].script), m, want')
  BY <1>1
<1> QED BY <1>1, <1>2, StepInv

-----------------------------------------------------------------------------
(* The steps *)

LEMMA Begin ==
    ASSUME Inv, NEW f \in Facades, NEW do, At(f, do)
    PROVE  /\ Sound(f, Tail(fc[f].script), Start(f), want) /\ Start(f).ok
           /\ Start(f).docs = disk.docs /\ Start(f).x.reader = fc[f].reader
           /\ Start(f).x.writer = fc[f].writer
BY AtIs, StartSound

LEMMA EnsureWriterInv ==
    ASSUME Inv, NEW f \in Facades, EnsureWriter(f)
    PROVE  Inv'
<1> DEFINE m == EnsureWriterOpen(Start(f))
<1>1. At(f, "ensure_writer") /\ Becomes(f, m) /\ Keep
  BY DEF EnsureWriter
<1>2. Sound(f, Tail(fc[f].script), m, want) /\ (m.ok => m.x.writer.on)
  BY <1>1, Begin, EnsureWriterSound
<1> HIDE DEF m
<1>3. m.ok => After(f, m.x)
  BY <1>1, <1>2, AtIs DEF After, Ensures, Uses
<1> QED BY <1>1, <1>2, <1>3, KeepInv

LEMMA SeenInv ==
    ASSUME Inv, NEW f \in Facades, NEW do \in {"ensure_reader", "ensure_searcher"}, At(f, do),
           NEW a, Sound(f, Tail(fc[f].script), a, want),
           a.ok /\ a.x.reader.segs => a.x.reader.view = a.docs,
           a.ok /\ ~fc[f].reader.lock => ~Holds(a.x),
           Becomes(f, IF a.ok THEN Seen(a) ELSE a), Keep
    PROVE  Inv'
<1> DEFINE m == IF a.ok THEN Seen(a) ELSE a
<1>1. a \in Move
  BY DEF Sound
<1>2. Same(a, Seen(a)) /\ Seen(a).x.seen = a.docs \ a.x.reader.dels
  BY <1>1, SameMoves DEF Seen, Move, IndexType
<1>3. Sound(f, Tail(fc[f].script), m, want)
  BY <1>2, SameSound
<1>4. m.ok => After(f, m.x)
  <2>1. CASE a.ok
    <3>1. m = Seen(a) /\ m.x.reader = a.x.reader /\ m.x.writer = a.x.writer
      BY <1>2, <2>1 DEF Same
    <3>3. ~fc[f].reader.lock => ~Holds(m.x)
      BY <2>1, <3>1 DEF Holds
    <3>2. m.x.reader.segs => m.x.reader.view \ m.x.reader.dels = m.x.seen
      BY <1>2, <2>1, <3>1
    <3>4. fc[f].script[1].do = do
      BY AtIs
    <3> HIDE DEF m
    <3> QED BY <3>2, <3>3, <3>4 DEF After, Ensures, Uses
  <2> QED BY <2>1
<1>5. Becomes(f, m)
  OBVIOUS
<1> HIDE DEF m
<1> QED BY <1>3, <1>4, <1>5, KeepInv

LEMMA EnsureReaderInv ==
    ASSUME Inv, NEW f \in Facades, EnsureReader(f)
    PROVE  Inv'
<1> DEFINE a == EnsureReaderOpen(Start(f))
<1>1. At(f, "ensure_reader") /\ Becomes(f, IF a.ok THEN Seen(a) ELSE a) /\ Keep
  BY DEF EnsureReader, Then
<1>2. /\ Sound(f, Tail(fc[f].script), a, want)
      /\ a.ok /\ a.x.reader.segs => a.x.reader.view = a.docs
      /\ a.ok /\ ~fc[f].reader.lock => ~Holds(a.x)
  BY <1>1, Begin, EnsureReaderSound
<1> HIDE DEF a
<1> QED BY <1>1, <1>2, SeenInv

LEMMA EnsureSearcherInv ==
    ASSUME Inv, NEW f \in Facades, EnsureSearcher(f)
    PROVE  Inv'
<1> DEFINE a == EnsureSearcherOpen(Start(f))
<1>1. At(f, "ensure_searcher") /\ Becomes(f, IF a.ok THEN Seen(a) ELSE a) /\ Keep
  BY DEF EnsureSearcher, Then
<1>2. /\ Sound(f, Tail(fc[f].script), a, want)
      /\ a.ok /\ a.x.reader.segs => a.x.reader.view = a.docs
      /\ a.ok /\ ~fc[f].reader.lock => ~Holds(a.x)
  BY <1>1, Begin, EnsureSearcherSound
<1> HIDE DEF a
<1> QED BY <1>1, <1>2, SeenInv

LEMMA AnyReaderInv ==
    ASSUME Inv, NEW f \in Facades, AnyReader(f)
    PROVE  Inv'
<1> DEFINE m == IF fc[f].reader.on THEN Start(f) ELSE EnsureReaderOpen(Start(f))
<1>1. At(f, "any_reader") /\ Becomes(f, m) /\ Keep
  BY DEF AnyReader
<1>2. /\ Sound(f, Tail(fc[f].script), Start(f), want) /\ Start(f).ok
      /\ Start(f).x.reader = fc[f].reader
  BY <1>1, Begin
<1>3. Sound(f, Tail(fc[f].script), m, want) /\ (m.ok /\ ~fc[f].reader.lock => ~Holds(m.x))
  <2>1. CASE fc[f].reader.on
    BY <1>2, <2>1 DEF Sound, Coherent, Holds
  <2>2. CASE ~fc[f].reader.on
    BY <1>2, <2>2, EnsureReaderSound
  <2> QED BY <2>1, <2>2
<1> HIDE DEF m
<1>4. m.ok => After(f, m.x)
  BY <1>1, <1>3, AtIs DEF After, Uses
<1> QED BY <1>1, <1>3, <1>4, KeepInv

(* Reading leaves the writer and the reader as they are. *)
LEMMA UsesInv ==
    ASSUME Inv, NEW f \in Facades, NEW do \in Uses, At(f, do), NEW m,
           Sound(f, Tail(fc[f].script), m, want), Becomes(f, m), Keep,
           m.ok => m.x.reader = fc[f].reader /\ m.x.writer = fc[f].writer
    PROVE  Inv'
<1>1. m.ok => After(f, m.x)
  BY AtIs DEF After, Uses, Ensures, Holds
<1> QED BY <1>1, KeepInv

LEMMA PeekInv ==
    ASSUME Inv, NEW f \in Facades, Peek(f)
    PROVE  Inv'
<1>1. PICK do \in Uses : At(f, do)
  BY DEF Peek, Uses
<1>2. Becomes(f, Done(Start(f))) /\ Keep
  BY DEF Peek
<1>3. /\ Sound(f, Tail(fc[f].script), Start(f), want) /\ Start(f) \in Move
      /\ Start(f).x.reader = fc[f].reader /\ Start(f).x.writer = fc[f].writer
  BY <1>1, Begin DEF Sound
<1>4. Same(Start(f), Done(Start(f)))
  BY <1>3, SameMoves
<1>5. Sound(f, Tail(fc[f].script), Done(Start(f)), want)
  BY <1>3, <1>4, SameSound
<1>6. Done(Start(f)).x.reader = fc[f].reader /\ Done(Start(f)).x.writer = fc[f].writer
  BY <1>3, <1>4 DEF Same
<1> QED BY <1>1, <1>2, <1>5, <1>6, UsesInv

LEMMA SearchInv ==
    ASSUME Inv, NEW f \in Facades, Search(f)
    PROVE  Inv'
<1> DEFINE do == "search"
           m == UseSearcher(Start(f))
<1>1. At(f, do) /\ do \in Uses /\ Becomes(f, m) /\ Keep
  BY DEF Search, Uses
<1> HIDE DEF do
<1>2. /\ Sound(f, Tail(fc[f].script), m, want)
      /\ m.ok => m.x.reader = fc[f].reader /\ m.x.writer = fc[f].writer
  BY <1>1, Begin, UseSearcherSound
<1> HIDE DEF m
<1> QED BY <1>1, <1>2, UsesInv

LEMMA CloseInv ==
    ASSUME Inv, NEW f \in Facades, Close(f)
    PROVE  Inv'
<1> DEFINE m == CloseIndex(Start(f))
           n == IF m.ok THEN CloseDir(m) ELSE m
<1>1. At(f, "close") /\ (Becomes(f, m) \/ Becomes(f, n)) /\ Keep
  BY DEF Close, Then
<1>2. Sound(f, Tail(fc[f].script), m, want) /\ (m.ok => ~Holds(m.x))
  BY <1>1, Begin, CloseIndexSound
<1>3. Sane /\ fc[f].script # <<>> /\ fc[f].script[1].do = "close"
  BY <1>1, AtIs
<1> HIDE DEF m
<1>4. m.ok => After(f, m.x)
  BY <1>2, <1>3 DEF After, Ensures, Uses
<1>5. CASE Becomes(f, m)
  BY <1>1, <1>2, <1>4, <1>5, KeepInv
<1>6. CASE Becomes(f, n) /\ m.ok
  <2>1. /\ n = [m EXCEPT !.lck = FALSE, !.robbed = @ \/ m.lck]
        /\ m \in Move /\ Coherent(m.x) /\ ~m.robbed /\ Becomes(f, n)
    BY <1>2, <1>6 DEF CloseDir, Sound
  <2> HIDE DEF n
  <2>2. CASE ~m.lck
    <3>1. Same(m, n)
      BY <2>1, <2>2 DEF Same, Move
    <3>2. Sound(f, Tail(fc[f].script), n, want) /\ After(f, n.x)
      BY <1>2, <1>3, <1>6, <3>1, SameSound DEF Same, After, Holds, Ensures, Uses
    <3> QED BY <1>1, <2>1, <3>2, KeepInv
  <2>3. CASE m.lck
    <3>1. n \in Move /\ n.x = m.x /\ n.robbed = TRUE
      BY <2>1, <2>3 DEF Move
    <3>2. Ready(m.x)
      BY <1>2, <1>3, <1>4, ReadyAfter
    <3>3. robbed' = TRUE /\ want' \in SUBSET Docs /\ used' \in SUBSET Docs
      BY <1>1, <2>1, <3>1 DEF Becomes, Keep, Inv, TypeInv
    <3> QED BY <2>1, <3>1, <3>2, <3>3, BecomesRobbed
  <2> QED BY <2>1, <2>2, <2>3 DEF Move
<1>7. CASE Becomes(f, n) /\ ~m.ok
  BY <1>5, <1>7
<1> QED BY <1>1, <1>5, <1>6, <1>7

LEMMA FlushInv ==
    ASSUME Inv, NEW f \in Facades, FlushStep(f)
    PROVE  Inv'
<1> DEFINE m == Flush(Start(f))
<1>1. At(f, "flush") /\ Becomes(f, m) /\ Keep
  BY DEF FlushStep
<1>2. /\ Sound(f, Tail(fc[f].script), m, want) /\ (m.ok => ~Holds(m.x))
      /\ m.ok /\ fc[f].writer.on => ~m.x.reader.on
  BY <1>1, Begin, FlushSound
<1> HIDE DEF m
<1>3. m.ok => After(f, m.x)
  BY <1>1, <1>2, AtIs DEF After, Ensures, Uses
<1> QED BY <1>1, <1>2, <1>3, KeepInv

(* The writer steps find a writer. *)
LEMMA WriterIsOn ==
    ASSUME Inv, NEW f \in Facades,
           NEW do \in {"delete_term", "optimize", "add_readers", "add"}, At(f, do)
    PROVE  fc[f].writer.on /\ ~fc[f].reader.on /\ ~OthersHold(f)
<1>1. fc[f].writer.on
  BY AtIs DEF Inv, IndexInv, Ready, HeadReady
<1> QED BY <1>1, AtIs DEF Inv, IndexInv, Coherent, LockInv, OthersHold, Holds

LEMMA CommitInv ==
    ASSUME Inv, NEW f \in Facades, Commit(f)
    PROVE  Inv'
<1> DEFINE s == Start(f)
           m == IF s.x.writer.on THEN CommitWriter(s) ELSE Raise(s)
<1>1. At(f, "commit") /\ Becomes(f, m) /\ Keep
  BY DEF Commit
<1>2. /\ Sound(f, Tail(fc[f].script), s, want) /\ s.ok
      /\ s.x.reader = fc[f].reader
  BY <1>1, Begin
<1>3. ~s.x.reader.on
  BY <1>1, <1>2, AtIs DEF Inv, IndexInv, Ready, HeadReady
<1> HIDE DEF s
<1>4. CASE s.x.writer.on
  <2>1. Sound(f, Tail(fc[f].script), m, want) /\ Flushed(s, m)
    BY <1>2, <1>4, CommitWriterSound
  <2> HIDE DEF m
  <2>2. m.x.writer.on
    BY <1>4, <2>1 DEF Flushed
  <2>3. After(f, m.x)
    BY <1>1, <2>2, AtIs DEF After, Ensures, Uses
  <2> QED BY <1>1, <2>1, <2>3, KeepInv
<1>5. CASE ~s.x.writer.on
  <2>1. ~Holds(s.x)
    BY <1>2, <1>3, <1>5 DEF Sound, Coherent, Holds
  <2>2. Sound(f, Tail(fc[f].script), m, want) /\ ~m.ok
    BY <1>2, <1>5, <2>1, RaiseSound
  <2> HIDE DEF m
  <2> QED BY <1>1, <2>2, KeepInv
<1> QED BY <1>4, <1>5

(* An open writer with an empty buffer commits other documents. *)
Writes(m, docs) == [Write(m, docs) EXCEPT !.x.writer.sis = docs]

LEMMA WriterCommits ==
    ASSUME NEW f \in Facades, NEW s, NEW m, NEW w, Sound(f, s, m, w), m.ok, m.x.writer.on,
           m.x.writer.buf = {}, NEW docs \in SUBSET Docs
    PROVE  LET n == Writes(m, docs)
           IN Sound(f, s, n, docs) /\ n.ok /\ n.x.writer.on /\ n.x.reader = m.x.reader
<1> DEFINE n == Writes(m, docs)
<1>1. m \in Move /\ m.x.writer \in WriterType /\ ~m.x.reader.on /\ ~m.x.reader.lock
  BY DEF Sound, Move, IndexType, Coherent
<1>2. n = [Write(m, docs) EXCEPT !.x.writer.sis = docs]
  BY DEF Writes
<1> HIDE DEF n
<1>3. /\ n \in Move /\ n.ok = m.ok /\ n.x.script = m.x.script /\ n.x.status = m.x.status
      /\ n.x.reader = m.x.reader /\ n.docs = docs /\ n.lck = m.lck /\ n.robbed = m.robbed
      /\ n.x.opts = m.x.opts /\ n.x.last = m.x.last /\ n.wrote = TRUE
  BY <1>1, <1>2 DEF Write, Move, IndexType, WriterType
<1>4. n.x.writer.on = m.x.writer.on /\ n.x.writer.sis = docs /\ n.x.writer.buf = m.x.writer.buf
  BY <1>1, <1>2 DEF Write, Move, IndexType, WriterType
<1>5. Sound(f, s, n, docs)
  BY <1>1, <1>3, <1>4 DEF Sound, Consistent, Coherent, Current, Holds, Holding
<1> QED BY <1>3, <1>4, <1>5 DEF n

LEMMA BufferSound ==
    ASSUME NEW f \in Facades, NEW s, NEW m, NEW w, Sound(f, s, m, w), m.ok, m.x.writer.on,
           NEW docs \in SUBSET Docs
    PROVE  LET n == [m EXCEPT !.x.writer.buf = @ \cup docs]
           IN Sound(f, s, n, w \cup docs) /\ n.ok
<1> DEFINE n == [m EXCEPT !.x.writer.buf = @ \cup docs]
<1>1. m \in Move /\ m.x.writer \in WriterType /\ ~m.x.reader.on /\ ~m.x.reader.lock
  BY DEF Sound, Move, IndexType, Coherent
<1>2. /\ n \in Move /\ n.ok = m.ok /\ n.x.script = m.x.script /\ n.x.status = m.x.status
      /\ n.x.reader = m.x.reader /\ n.docs = m.docs /\ n.lck = m.lck /\ n.robbed = m.robbed
      /\ n.x.opts = m.x.opts /\ n.x.last = m.x.last /\ n.wrote = m.wrote
  BY <1>1 DEF Move, IndexType, WriterType
<1>3. /\ n.x.writer.on = m.x.writer.on /\ n.x.writer.sis = m.x.writer.sis
      /\ n.x.writer.buf = m.x.writer.buf \cup docs
  BY <1>1 DEF Move, IndexType, WriterType
<1> HIDE DEF n
<1>4. Sound(f, s, n, w \cup docs)
  BY <1>1, <1>2, <1>3 DEF Sound, Consistent, Coherent, Current, Holds, Holding
<1> QED BY <1>2, <1>4 DEF n

LEMMA AddInv ==
    ASSUME Inv, NEW f \in Facades, Add(f)
    PROVE  Inv'
<1> DEFINE do == "add"
           s == Start(f)
           b == [s EXCEPT !.x.writer.buf = @ \cup Arg(f)]
<1>1. At(f, do) /\ do \in {"delete_term", "optimize", "add_readers", "add"}
  BY DEF Add
<1>2. fc[f].writer.on /\ ~OthersHold(f)
  <2> HIDE DEF do
  <2> QED BY <1>1, WriterIsOn
<1>3. Sound(f, Tail(fc[f].script), s, want) /\ s.ok /\ s.x.writer.on
  BY <1>1, <1>2, Begin
<1>4. Arg(f) \in SUBSET Docs
  BY <1>1, AtIs DEF StepType
<1>5. Sound(f, Tail(fc[f].script), b, want \cup Arg(f)) /\ b.ok
  BY <1>3, <1>4, BufferSound
<1>6. /\ Becomes(f, b) \/ Becomes(f, CommitWriter(b))
      /\ want' = want \cup Arg(f) /\ used' = used
  BY <1>3 DEF Add
<1>7. /\ want' \in SUBSET Docs /\ used' \in SUBSET Docs
  BY <1>4, <1>6 DEF Inv, TypeInv
<1>8. \A x : After(f, x)
  BY <1>1, AtIs DEF After, Ensures, Uses
<1> HIDE DEF b, s, do
<1>9. Sound(f, Tail(fc[f].script), CommitWriter(b), want \cup Arg(f))
  BY <1>5, CommitWriterSound
<1> QED BY <1>1, <1>2, <1>5, <1>6, <1>7, <1>8, <1>9, StepInv

LEMMA WriterStarts ==
    ASSUME Inv, NEW f \in Facades,
           NEW do \in {"delete_term", "optimize", "add_readers", "add"}, At(f, do)
    PROVE  LET m == CommitWriter(Start(f))
           IN /\ Sound(f, Tail(fc[f].script), m, want) /\ m.ok /\ m.x.writer.on /\ ~m.x.reader.on
              /\ m.x.writer.buf = {} /\ m.x.writer.sis = want
<1> DEFINE s == Start(f)
           m == CommitWriter(s)
<1>1. fc[f].writer.on /\ ~fc[f].reader.on /\ ~OthersHold(f)
  BY WriterIsOn
<1>2. /\ Sound(f, Tail(fc[f].script), s, want) /\ s.ok
      /\ s.x.reader = fc[f].reader /\ s.x.writer = fc[f].writer
  BY Begin
<1> HIDE DEF s
<1>3. Sound(f, Tail(fc[f].script), m, want) /\ Flushed(s, m)
  BY <1>2, CommitWriterSound
<1> HIDE DEF m
<1>4. m.ok /\ m.x.reader = s.x.reader /\ m.x.writer.on = s.x.writer.on /\ m.x.writer.buf = {}
  BY <1>3 DEF Flushed
<1>5. m.x.writer.on /\ ~m.x.reader.on
  BY <1>1, <1>2, <1>4
<1>6. m.x.status = "ok" /\ ~m.robbed
  BY <1>3, <1>4 DEF Sound
<1>7. Consistent(f, m, want)
  BY <1>3, <1>6 DEF Sound
<1>8. m.x.writer.sis = want
  BY <1>1, <1>4, <1>5, <1>7 DEF Consistent, Holding
<1> QED BY <1>3, <1>4, <1>5, <1>8 DEF m, s

LEMMA DeleteTermsInv ==
    ASSUME Inv, NEW f \in Facades, DeleteTerms(f)
    PROVE  Inv'
<1> DEFINE do == "delete_term"
           m == CommitWriter(Start(f))
           gone == WithKey(m.x.writer.sis, Arg(f))
           live == m.x.writer.sis \ gone
           n == IF gone = {} THEN m ELSE Writes(m, live)
<1>1. /\ At(f, do) /\ do \in {"delete_term", "optimize", "add_readers", "add"} /\ Becomes(f, n)
      /\ want' = want \ WithKey(want, Arg(f)) /\ used' = used
  BY DEF DeleteTerms, Writes
<1>2. fc[f].script[1].do = "delete_term" /\ ~OthersHold(f)
  BY <1>1, AtIs, WriterIsOn
<1> HIDE DEF do
<1>3. /\ Sound(f, Tail(fc[f].script), m, want) /\ m.ok /\ m.x.writer.on /\ ~m.x.reader.on
      /\ m.x.writer.buf = {} /\ m.x.writer.sis = want
  BY <1>1, WriterStarts
<1> HIDE DEF m
<1>4. want' = live /\ live \in SUBSET Docs /\ used' \in SUBSET Docs /\ (gone = {} => live = want)
  BY <1>1, <1>3 DEF Inv, TypeInv
<1> HIDE DEF gone, live
<1>5. Sound(f, Tail(fc[f].script), n, live) /\ n.x.writer.on /\ ~n.x.reader.on
  BY <1>3, <1>4, WriterCommits
<1> HIDE DEF n
<1>6. After(f, n.x)
  BY <1>2, <1>5 DEF After, Ensures, Uses
<1>7. Sound(f, Tail(fc[f].script), n, want')
  BY <1>4, <1>5
<1> QED BY <1>1, <1>2, <1>4, <1>6, <1>7, StepInv

LEMMA AddReadersInv ==
    ASSUME Inv, NEW f \in Facades, AddReaders(f)
    PROVE  Inv'
<1> DEFINE do == "add_readers"
           m == CommitWriter(Start(f))
           live == m.x.writer.sis \cup Arg(f)
           n == Writes(m, live)
<1>1. /\ At(f, do) /\ do \in {"delete_term", "optimize", "add_readers", "add"} /\ Becomes(f, n)
      /\ want' = want \cup Arg(f) /\ used' = used
  BY DEF AddReaders, Writes
<1>2. fc[f].script[1].do = "add_readers" /\ Arg(f) \in SUBSET Docs /\ ~OthersHold(f)
  BY <1>1, AtIs, WriterIsOn DEF StepType
<1> HIDE DEF do
<1>3. /\ Sound(f, Tail(fc[f].script), m, want) /\ m.ok /\ m.x.writer.on /\ ~m.x.reader.on
      /\ m.x.writer.buf = {} /\ m.x.writer.sis = want
  BY <1>1, WriterStarts
<1> HIDE DEF m
<1>4. want' = live /\ live \in SUBSET Docs /\ used' \in SUBSET Docs
  BY <1>1, <1>2, <1>3 DEF Inv, TypeInv
<1> HIDE DEF live
<1>5. Sound(f, Tail(fc[f].script), n, live) /\ n.x.writer.on
  BY <1>3, <1>4, WriterCommits
<1> HIDE DEF n
<1>6. After(f, n.x)
  BY <1>2, <1>5 DEF After, Ensures, Uses
<1>7. Sound(f, Tail(fc[f].script), n, want')
  BY <1>4, <1>5
<1> QED BY <1>1, <1>2, <1>4, <1>6, <1>7, StepInv

LEMMA OptimizeInv ==
    ASSUME Inv, NEW f \in Facades, Optimize(f)
    PROVE  Inv'
<1> DEFINE do == "optimize"
           m == CommitWriter(Start(f))
           n == Write(m, m.x.writer.sis)
<1>1. /\ At(f, do) /\ do \in {"delete_term", "optimize", "add_readers", "add"} /\ Keep
      /\ Becomes(f, CloseWriter(m)) \/ Becomes(f, CloseWriter(n))
  BY DEF Optimize
<1>2. fc[f].script[1].do = "optimize"
  BY <1>1, AtIs
<1> HIDE DEF do
<1>3. /\ Sound(f, Tail(fc[f].script), m, want) /\ m.ok /\ m.x.writer.on /\ ~m.x.reader.on
      /\ m.x.writer.buf = {} /\ m.x.writer.sis = want
  BY <1>1, WriterStarts
<1> HIDE DEF m
<1>4. Sound(f, Tail(fc[f].script), n, want) /\ n.ok /\ n.x.writer.on
  <2>1. /\ m \in Move /\ m.x.writer.sis \in SUBSET Docs
        /\ ~m.x.reader.on /\ ~m.x.reader.lock
    BY <1>3 DEF Sound, Move, IndexType, WriterType, Coherent
  <2>2. /\ n \in Move /\ n.ok = m.ok /\ n.x = m.x /\ n.docs = m.x.writer.sis /\ n.lck = m.lck
        /\ n.robbed = m.robbed /\ n.wrote = TRUE
    BY <2>1 DEF Write, Move
  <2> HIDE DEF n
  <2>3. Sound(f, Tail(fc[f].script), n, want)
    BY <1>3, <2>1, <2>2 DEF Sound, Consistent, Coherent, Current, Holds, Holding
  <2> QED BY <1>3, <2>2, <2>3
<1> HIDE DEF n
<1>5. ASSUME NEW k \in {m, n} PROVE Sound(f, Tail(fc[f].script), CloseWriter(k), want) /\ After(f, CloseWriter(k).x)
  <2>1. Sound(f, Tail(fc[f].script), k, want) /\ k.ok /\ k.x.writer.on
    BY <1>3, <1>4, <1>5
  <2>2. /\ Sound(f, Tail(fc[f].script), CloseWriter(k), want)
        /\ ~CloseWriter(k).x.writer.on /\ ~CloseWriter(k).x.reader.lock
    BY <2>1, CloseWriterSound
  <2> QED BY <1>2, <2>2 DEF After, Holds, Ensures, Uses
<1> QED BY <1>1, <1>5, KeepInv

-----------------------------------------------------------------------------
(* Deleting through the reader *)

Deleted(n, gone) == IF n.ok THEN [n EXCEPT !.x.reader.dels = @ \cup gone] ELSE n

LEMMA DeletedSound ==
    ASSUME NEW f \in Facades, NEW s, NEW n, NEW w, Sound(f, s, n, w), n.ok,
           NEW gone \in SUBSET n.x.reader.view, gone = {} \/ n.x.reader.lock
    PROVE  Sound(f, s, Deleted(n, gone), w \ gone)
<1> DEFINE k == Deleted(n, gone)
<1>1. n \in Move /\ n.x.reader \in ReaderType /\ gone \in SUBSET Docs /\ Coherent(n.x)
  BY DEF Sound, Move, IndexType, ReaderType
<1>2. k = [n EXCEPT !.x.reader.dels = @ \cup gone]
  BY DEF Deleted
<1> HIDE DEF k
<1>3. k \in Move
  <2>1. k.x.reader \in ReaderType
    BY <1>1, <1>2 DEF Move, IndexType, ReaderType
  <2>2. k.x \in IndexType
    BY <1>1, <1>2, <2>1 DEF Move, IndexType
  <2> QED BY <1>1, <1>2, <2>2 DEF Move
<1>4. /\ k.ok = n.ok /\ k.x.script = n.x.script /\ k.x.status = n.x.status
      /\ k.x.writer = n.x.writer /\ k.docs = n.docs /\ k.lck = n.lck /\ k.robbed = n.robbed
      /\ k.x.opts = n.x.opts /\ k.x.last = n.x.last /\ k.wrote = n.wrote
  BY <1>1, <1>2 DEF Move, IndexType, ReaderType
<1>5. /\ k.x.reader.on = n.x.reader.on /\ k.x.reader.lock = n.x.reader.lock
      /\ k.x.reader.view = n.x.reader.view /\ k.x.reader.dels = n.x.reader.dels \cup gone
      /\ k.x.reader.stale = n.x.reader.stale
  BY <1>1, <1>2 DEF Move, IndexType, ReaderType
<1>6. Coherent(k.x)
  BY <1>1, <1>4, <1>5 DEF Coherent
<1>7. ASSUME Consistent(f, n, w) PROVE Consistent(f, k, w \ gone)
  <2>1. Current(k.x, k.docs) /\ (Holds(k.x) <=> Holds(n.x))
    BY <1>4, <1>5, <1>7 DEF Consistent, Current, Holds
  <2>2. ASSUME ~OthersHold(f) PROVE Holding(k.x, k.docs) = w \ gone
    <3>1. Holding(n.x, n.docs) = w
      BY <1>7, <2>2 DEF Consistent
    <3>2. CASE n.x.reader.lock
      BY <1>1, <1>4, <1>5, <3>1, <3>2 DEF Holding, Coherent
    <3>3. CASE ~n.x.reader.lock /\ gone = {}
      BY <1>1, <1>4, <1>5, <3>1, <3>3 DEF Holding
    <3> QED BY <3>2, <3>3
  <2> QED BY <1>4, <1>7, <2>1, <2>2 DEF Consistent
<1> QED BY <1>3, <1>4, <1>6, <1>7 DEF Sound, k

(* The deletions of a reader, or none at all when it cannot have the lock. *)
LEMMA ReaderDeletesSound ==
    ASSUME Inv, NEW f \in Facades, NEW s, NEW m, Sound(f, s, m, want), m.ok,
           NEW gone \in SUBSET m.x.reader.view, ReaderDeletes(f, m, gone)
    PROVE  \E k : /\ Sound(f, s, k, want') /\ Becomes(f, k)
                  /\ OthersHold(f) => want' = want
                  /\ want' \in SUBSET Docs
<1> DEFINE n == IF gone = {} THEN m ELSE AcquireWriteLock(m)
<1>1. Becomes(f, Deleted(n, gone)) /\ want' = IF n.ok THEN want \ gone ELSE want
  BY DEF ReaderDeletes, Deleted
<1>2. /\ Sound(f, s, n, want)
      /\ n.ok => n.x.reader.view = m.x.reader.view /\ (gone = {} \/ n.x.reader.lock)
  <2>1. CASE gone = {}
    BY <2>1
  <2>2. CASE gone # {}
    <3>1. m.x.reader.on
      BY <2>2 DEF Sound, Coherent
    <3> QED BY <2>2, <3>1, AcquireSound
  <2> QED BY <2>1, <2>2
<1> HIDE DEF n
<1>3. want' \in SUBSET Docs
  BY <1>1 DEF Inv, TypeInv
<1>4. CASE n.ok
  <2>1. Sound(f, s, Deleted(n, gone), want \ gone)
    BY <1>2, <1>4, DeletedSound
  <2>2. ASSUME OthersHold(f) PROVE gone = {}
    <3>1. ~Holds(n.x)
      BY <1>2, <1>4, <2>2 DEF Sound, Consistent
    <3> QED BY <1>2, <1>4, <3>1 DEF Holds
  <2> QED BY <1>1, <1>3, <1>4, <2>1, <2>2
<1>5. CASE ~n.ok
  <2>1. Deleted(n, gone) = n
    BY <1>5 DEF Deleted
  <2> QED BY <1>1, <1>2, <1>3, <1>5, <2>1
<1> QED BY <1>4, <1>5

LEMMA DeleteDocInv ==
    ASSUME Inv, NEW f \in Facades, DeleteDoc(f)
    PROVE  Inv'
<1> DEFINE do == "delete_number"
<1>1. At(f, do) /\ used' = used
  BY DEF DeleteDoc
<1>2. \A x : After(f, x)
  BY <1>1, AtIs DEF After, Ensures, Uses
<1> HIDE DEF do
<1>3. Sound(f, Tail(fc[f].script), Start(f), want) /\ Start(f).ok /\ Start(f).x.reader = fc[f].reader
  BY <1>1, Begin
<1>4. PICK gone \in SUBSET Start(f).x.reader.view : ReaderDeletes(f, Start(f), gone)
  BY <1>3 DEF DeleteDoc
<1>5. PICK k : /\ Sound(f, Tail(fc[f].script), k, want') /\ Becomes(f, k)
               /\ OthersHold(f) => want' = want
               /\ want' \in SUBSET Docs
  BY <1>3, <1>4, ReaderDeletesSound
<1>6. used' \in SUBSET Docs
  BY <1>1 DEF Inv, TypeInv
<1> QED BY <1>1, <1>2, <1>5, <1>6, StepInv

LEMMA MatchingIs ==
    ASSUME NEW f \in Facades
    PROVE  Matching(f) \in SUBSET fc[f].reader.view
BY DEF Matching, WithKey

LEMMA DeleteByQueryInv ==
    ASSUME Inv, NEW f \in Facades, DeleteByQuery(f)
    PROVE  Inv'
<1> DEFINE do == "query_delete"
           m == UseSearcher(Start(f))
<1>1. /\ At(f, do) /\ used' = used
      /\ IF m.ok THEN ReaderDeletes(f, m, Matching(f)) ELSE Becomes(f, m) /\ UNCHANGED want
  BY DEF DeleteByQuery
<1>2. \A x : After(f, x)
  BY <1>1, AtIs DEF After, Ensures, Uses
<1> HIDE DEF do
<1>3. Sound(f, Tail(fc[f].script), m, want) /\ (m.ok => m.x.reader = fc[f].reader)
  BY <1>1, Begin, UseSearcherSound
<1> HIDE DEF m
<1>4. used' \in SUBSET Docs
  BY <1>1 DEF Inv, TypeInv
<1>5. CASE m.ok
  <2>1. Matching(f) \in SUBSET m.x.reader.view
    BY <1>3, <1>5, MatchingIs
  <2>2. PICK k : /\ Sound(f, Tail(fc[f].script), k, want') /\ Becomes(f, k)
                 /\ OthersHold(f) => want' = want
                 /\ want' \in SUBSET Docs
    BY <1>1, <1>3, <1>5, <2>1, ReaderDeletesSound
  <2> QED BY <1>1, <1>2, <1>4, <2>2, StepInv
<1>6. CASE ~m.ok
  BY <1>1, <1>2, <1>3, <1>6, KeepInv DEF Keep
<1> QED BY <1>5, <1>6

-----------------------------------------------------------------------------
(* Scripts *)

(* A script that can come after any other. *)
Starts(t) ==
    t # <<>> =>
        /\ t[1].do \notin {"delete_term", "optimize", "add_readers", "add", "commit", "search", "read"}
        /\ t[1].do = "flush" /\ Len(t) > 1 => t[2].do # "commit"
Good(t) == t \in Seq(StepType) /\ Shape(t) /\ Starts(t)

LEMMA ConcatIs ==
    ASSUME NEW T, NEW s \in Seq(T), NEW t \in Seq(T)
    PROVE  /\ s \o t \in Seq(T) /\ Len(s) \in Nat /\ Len(t) \in Nat
           /\ Len(s \o t) = Len(s) + Len(t)
           /\ \A i \in 1..Len(s) : (s \o t)[i] = s[i]
           /\ \A i \in 1..Len(t) : (s \o t)[Len(s) + i] = t[i]
           /\ s # <<>> <=> Len(s) > 0
           /\ t # <<>> <=> Len(t) > 0
<1>1. /\ s \o t \in Seq(T) /\ Len(s) \in Nat /\ Len(t) \in Nat
      /\ Len(s \o t) = Len(s) + Len(t)
  OBVIOUS
<1>2. \A i \in 1..Len(s) : (s \o t)[i] = s[i]
  OBVIOUS
<1>3. \A i \in 1..Len(t) : (s \o t)[Len(s) + i] = t[i]
  OBVIOUS
<1>4. \A u \in Seq(T) : u # <<>> <=> Len(u) > 0
  <2> SUFFICES ASSUME NEW u \in Seq(T) PROVE u # <<>> <=> Len(u) > 0
    OBVIOUS
  <2>1. Len(<<>>) = 0
    OBVIOUS
  <2>2. u = <<>> => Len(u) = 0
    BY <2>1
  <2>3. Len(u) = 0 => u = <<>>
    OBVIOUS
  <2> QED BY <2>2, <2>3
<1> QED BY <1>1, <1>2, <1>3, <1>4

LEMMA ConcatGood ==
    ASSUME NEW s, NEW t, Good(s), Good(t)
    PROVE  Good(s \o t)
<1> DEFINE u == s \o t
           n == Len(s)
<1>1. /\ u \in Seq(StepType) /\ n \in Nat /\ Len(t) \in Nat /\ Len(u) = n + Len(t)
      /\ \A i \in 1..n : u[i] = s[i]
      /\ \A i \in 1..Len(t) : u[n + i] = t[i]
      /\ s # <<>> <=> n > 0
      /\ t # <<>> <=> Len(t) > 0
      /\ u # <<>> <=> Len(u) > 0
  <2>1. u \in Seq(StepType)
    BY ConcatIs DEF Good
  <2> QED BY <2>1, ConcatIs DEF Good
<1>n. n \in Nat /\ Len(t) \in Nat
  BY <1>1
<1> HIDE DEF u, n
<1>2. ASSUME Len(t) > 0
      PROVE  /\ t[1].do \notin {"delete_term", "optimize", "add_readers", "add", "commit", "search", "read"}
             /\ t[1].do = "flush" /\ Len(t) > 1 => t[2].do # "commit"
             /\ u[n + 1] = t[1]
  BY <1>1, <1>2 DEF Good, Starts
<1>3. ASSUME NEW i \in 1..(Len(u) - 1) PROVE Follows(u[i].do, u[i + 1].do)
  <2>1. CASE i < n
    <3>1. i \in 1..(n - 1) /\ u[i] = s[i] /\ u[i + 1] = s[i + 1]
      BY <1>1, <2>1
    <3> QED BY <3>1 DEF Good, Shape, n
  <2>2. CASE i = n
    BY <1>1, <1>2, <2>2 DEF Follows
  <2>3. CASE i > n
    <3>1. i - n \in 1..(Len(t) - 1) /\ n + (i - n) = i /\ n + ((i - n) + 1) = i + 1
      BY <1>1, <2>3
    <3>2. u[i] = t[i - n] /\ u[i + 1] = t[(i - n) + 1]
      BY <1>1, <3>1
    <3> QED BY <3>1, <3>2 DEF Good, Shape
  <2> QED BY <1>1, <2>1, <2>2, <2>3
<1>4. ASSUME NEW i \in 1..(Len(u) - 2), u[i + 1].do = "flush", u[i + 2].do = "commit"
      PROVE  u[i].do = "delete_term"
  <2>1. CASE i < n - 1
    <3>1. i \in 1..(n - 2) /\ u[i] = s[i] /\ u[i + 1] = s[i + 1] /\ u[i + 2] = s[i + 2]
      BY <1>1, <2>1
    <3> QED BY <1>4, <3>1 DEF Good, Shape, n
  <2>2. CASE i = n - 1
    BY <1>1, <1>2, <1>4, <2>2
  <2>3. CASE i = n
    <3>1. u[n + 1] = t[1] /\ u[n + 2] = t[2] /\ Len(t) > 1
      BY <1>1, <2>3
    <3> QED BY <1>1, <1>2, <1>4, <2>3, <3>1
  <2>4. CASE i > n
    <3>1. /\ i - n \in 1..(Len(t) - 2) /\ n + (i - n) = i /\ n + ((i - n) + 1) = i + 1
          /\ n + ((i - n) + 2) = i + 2
      BY <1>1, <2>4
    <3>2. PICK j \in 1..(Len(t) - 2) : n + j = i
      BY <3>1
    <3>3. u[n + j] = t[j] /\ u[n + (j + 1)] = t[j + 1] /\ u[n + (j + 2)] = t[j + 2]
      BY <1>1, <3>2
    <3>4. u[i] = t[j] /\ u[i + 1] = t[j + 1] /\ u[i + 2] = t[j + 2]
      <4>1. n + (j + 1) = i + 1 /\ n + (j + 2) = i + 2
        BY <1>n, <3>2
      <4> QED BY <3>2, <3>3, <4>1
    <3> QED BY <1>4, <3>2, <3>4 DEF Good, Shape
  <2> QED BY <1>1, <2>1, <2>2, <2>3, <2>4
<1>5. Starts(u)
  <2>1. CASE n = 0
    <3>1. Len(u) = Len(t) /\ \A i \in 1..Len(t) : u[i] = t[i]
      BY <1>1, <2>1
    <3> QED BY <1>1, <1>2, <3>1 DEF Starts
  <2>2. CASE n = 1
    <3>1. u[1] = s[1] /\ s # <<>>
      BY <1>1, <2>2
    <3>2. Len(u) > 1 => Len(t) > 0 /\ u[2] = t[1]
      BY <1>1, <2>2
    <3> QED BY <1>2, <3>1, <3>2 DEF Starts, Good
  <2>3. CASE n > 1
    <3>1. u[1] = s[1] /\ u[2] = s[2] /\ s # <<>>
      BY <1>1, <2>3
    <3> QED BY <2>3, <3>1 DEF Starts, Good, n
  <2>4. n = 0 \/ n = 1 \/ n > 1
    BY <1>n
  <2> QED BY <2>1, <2>2, <2>3, <2>4
<1>6. Shape(u)
  BY <1>3, <1>4 DEF Shape
<1> QED BY <1>1, <1>5, <1>6 DEF Good, u

LEMMA ConcatEnds ==
    ASSUME NEW s \in Seq(StepType), NEW t \in Seq(StepType), Ends(t)
    PROVE  Ends(s \o t)
<1>1. /\ Len(s) \in Nat /\ Len(t) \in Nat /\ Len(s \o t) = Len(s) + Len(t)
      /\ (s \o t)[Len(s) + Len(t)] = t[Len(t)] /\ Len(t) > 0
  BY ConcatIs DEF Ends
<1>2. s \o t # <<>>
  <2>1. s \o t \in Seq(StepType) /\ Len(s \o t) > 0
    BY <1>1, ConcatIs
  <2> QED BY <2>1, ConcatIs
<1> QED BY <1>1, <1>2 DEF Ends

(* A call that was given up leaves nothing to be ready for. *)
LEMMA StoppedReady ==
    ASSUME NEW f \in Facades, NEW s, NEW m, NEW w, Sound(f, s, m, w), ~m.ok
    PROVE  Ready(m.x)
<1>1. m.x.script = <<>> /\ (m.x.status = "ok" => ~Holds(m.x))
  BY DEF Sound
<1>2. Shape(m.x.script)
  BY <1>1 DEF Shape
<1> QED BY <1>1, <1>2 DEF Ready, HeadReady, EndsFlushed, Holds

(* A script that starts a call, or goes on with one after any step. *)
LEMMA GoodReady ==
    ASSUME NEW x, Good(x.script), x.script # <<>>, x.opts.auto_flush => Goes(x)
    PROVE  Ready(x)
BY DEF Good, Starts, Ready, HeadReady, EndsFlushed

(* One step that needs nothing before it; such a step and one more. *)
LEMMA OneGood ==
    ASSUME NEW a \in StepType,
           a.do \notin {"delete_term", "optimize", "add_readers", "add", "commit", "search", "read"}
    PROVE  Good(<<a>>)
<1> DEFINE t == <<a>>
<1>1. t \in Seq(StepType) /\ Len(t) = 1 /\ t[1] = a
  OBVIOUS
<1> HIDE DEF t
<1> QED BY <1>1 DEF Good, Starts, Shape, t

LEMMA TwoGood ==
    ASSUME NEW a \in StepType, NEW b \in StepType,
           a.do \in {"ensure_writer", "ensure_reader", "ensure_searcher", "any_reader"},
           Follows(a.do, b.do)
    PROVE  Good(<<a, b>>)
<1> DEFINE t == <<a, b>>
<1>1. t \in Seq(StepType) /\ Len(t) = 2 /\ t[1] = a /\ t[2] = b
  OBVIOUS
<1> HIDE DEF t
<1>2. Shape(t)
  <2>1. \A i \in 1..(Len(t) - 1) : i = 1 /\ i + 1 = 2
    BY <1>1
  <2>2. \A i \in 1..(Len(t) - 2) : FALSE
    BY <1>1
  <2> QED BY <1>1, <2>1, <2>2 DEF Shape
<1> QED BY <1>1, <1>2 DEF Good, Starts, t

LEMMA SIs ==
    ASSUME NEW do \in Steps, NEW arg \in SUBSET (Docs \cup Keys),
           do \in {"add", "add_readers"} => arg \in SUBSET Docs
    PROVE  S(do, arg) \in StepType /\ S(do, arg).do = do
BY DEF S, StepType

LEMMA EnsureSteps ==
    EW \in StepType /\ ER \in StepType /\ ES \in StepType
    /\ EW.do = "ensure_writer" /\ ER.do = "ensure_reader" /\ ES.do = "ensure_searcher"
BY DEF EW, ER, ES, S, StepType, Steps

LEMMA EWThenGood ==
    ASSUME NEW do \in {"delete_term", "optimize", "add_readers", "add"},
           NEW arg \in SUBSET (Docs \cup Keys),
           do \in {"add", "add_readers"} => arg \in SUBSET Docs
    PROVE  Good(<<EW, S(do, arg)>>)
<1>1. S(do, arg) \in StepType /\ S(do, arg).do = do
  BY DEF S, StepType, Steps
<1>2. Follows(EW.do, S(do, arg).do)
  BY <1>1, EnsureSteps DEF Follows
<1> QED BY <1>1, <1>2, EnsureSteps, TwoGood

LEMMA UpdateByQueryInv ==
    ASSUME Inv, NEW f \in Facades, UpdateByQuery(f)
    PROVE  Inv'
<1> DEFINE do == "query_update"
           m == UseSearcher(Start(f))
           t == Tail(fc[f].script)
<1>1. At(f, do)
  BY DEF UpdateByQuery
<1>2. /\ \A x : After(f, x)
      /\ Sane /\ fc[f].script # <<>> /\ fc[f].script[1].do = "query_update"
      /\ fc[f].script \in Seq(StepType) /\ Ready(fc[f])
  BY <1>1, AtIs DEF After, Ensures, Uses, Inv, TypeInv, IndexInv, IndexType
<1> HIDE DEF do
<1>3. Sound(f, t, m, want) /\ (m.ok => m.x.reader = fc[f].reader)
  BY <1>1, Begin, UseSearcherSound
<1>4. Good(t) /\ (fc[f].opts.auto_flush => fc[f].last \notin Keepers /\ Ends(t))
  <2> DEFINE s == fc[f].script
  <2>1. /\ Len(s) \in Nat \ {0} /\ t \in Seq(StepType) /\ Len(t) = Len(s) - 1
        /\ \A i \in 1..(Len(s) - 1) : t[i] = s[i + 1]
        /\ t # <<>> => Len(s) > 1
        /\ t = <<>> => Len(s) = 1
    BY <1>2, TailIs
  <2>2. Shape(t)
    BY <1>2, TailShape DEF Ready
  <2>3. Starts(t)
    <3> SUFFICES ASSUME t # <<>> PROVE Starts(t)
      BY DEF Starts
    <3>1. 1 \in 1..(Len(s) - 1) /\ 1 + 1 = 2 /\ 1 + 2 = 3
      BY <2>1
    <3>2. t[1] = s[2] /\ Follows(s[1].do, s[2].do)
      BY <1>2, <2>1, <3>1 DEF Ready, Shape
    <3>3. ASSUME t[1].do = "flush", Len(t) > 1, t[2].do = "commit" PROVE FALSE
      <4>1. 1 \in 1..(Len(s) - 2) /\ 2 \in 1..(Len(s) - 1) /\ t[2] = s[3]
        BY <2>1, <3>3
      <4> QED BY <1>2, <3>1, <3>2, <3>3, <4>1 DEF Ready, Shape
    <3> QED BY <1>2, <3>2, <3>3 DEF Starts, Follows
  <2>4. ASSUME fc[f].opts.auto_flush PROVE fc[f].last \notin Keepers /\ Ends(t)
    <3>0. Goes(fc[f]) /\ 1 \in 1..Len(s)
      BY <1>2, <2>1, <2>4 DEF Ready, EndsFlushed
    <3>1. fc[f].last \notin Keepers /\ s[Len(s)].do \in {"flush", "optimize", "close"}
      BY <1>2, <3>0 DEF Goes, OnlyReads, Only, Ends, Ensures, Uses, Keeping
    <3>2. Len(s) > 1
      BY <1>2, <2>1, <3>1
    <3>3. t # <<>> /\ Len(t) \in 1..(Len(s) - 1) /\ Len(t) + 1 = Len(s)
      BY <2>1, <3>2
    <3> QED BY <2>1, <3>1, <3>3 DEF Ends
  <2> QED BY <2>1, <2>2, <2>3, <2>4 DEF Good
<1> HIDE DEF m, t
<1>5. CASE m.ok /\ \E copies \in SUBSET WithKey(Docs \ used, Arg(f)) :
                 /\ Cardinality(copies) = Cardinality(Matching(f))
                 /\ ReaderDeletes(f, [m EXCEPT !.x.script = <<EW, S("add", copies)>> \o @],
                                  Matching(f))
                 /\ used' = used \cup copies
  <2>1. PICK copies \in SUBSET Docs :
                 /\ ReaderDeletes(f, [m EXCEPT !.x.script = <<EW, S("add", copies)>> \o @],
                                  Matching(f))
                 /\ used' = used \cup copies
    BY <1>5 DEF WithKey
  <2> DEFINE h == <<EW, S("add", copies)>>
             u == h \o t
             n == [m EXCEPT !.x.script = h \o @]
  <2>2. Good(h)
    BY EWThenGood
  <2>3. Good(u) /\ (fc[f].opts.auto_flush => fc[f].last \notin Keepers /\ Ends(u))
    BY <1>4, <2>2, ConcatGood, ConcatEnds DEF Good
  <2>4. u # <<>>
    <3>1. Len(h) = 2 /\ h \in Seq(StepType) /\ t \in Seq(StepType)
      BY <1>4, <2>2 DEF Good
    <3> HIDE DEF h
    <3>2. u \in Seq(StepType) /\ Len(u) > 0
      BY <3>1, ConcatIs
    <3> HIDE DEF u
    <3> QED BY <3>2, ConcatIs
  <2>5. m \in Move /\ m.x.script = t
    BY <1>3, <1>5 DEF Sound
  <2> HIDE DEF h
  <2>6. n = [m EXCEPT !.x.script = u]
    BY <2>5 DEF Move, IndexType
  <2> HIDE DEF n, u
  <2>7. u \in Seq(StepType)
    BY <2>3 DEF Good
  <2>8. /\ n \in Move /\ n.ok = m.ok /\ n.x.script = u /\ n.x.status = m.x.status
        /\ n.x.reader = m.x.reader /\ n.x.writer = m.x.writer /\ n.docs = m.docs
        /\ n.lck = m.lck /\ n.robbed = m.robbed /\ n.wrote = m.wrote
        /\ n.x.opts = m.x.opts /\ n.x.last = m.x.last
    BY <2>5, <2>6, <2>7 DEF Move, IndexType
  <2>9. Sound(f, u, n, want)
    BY <1>3, <1>5, <2>8 DEF Sound, Consistent, Coherent, Current, Holds, Holding
  <2>10. Matching(f) \in SUBSET n.x.reader.view
    BY <1>3, <1>5, <2>8, MatchingIs
  <2>11. PICK k : /\ Sound(f, u, k, want') /\ Becomes(f, k)
                  /\ OthersHold(f) => want' = want
                  /\ want' \in SUBSET Docs
    <3>1. ReaderDeletes(f, n, Matching(f)) /\ n.ok
      BY <1>5, <2>1, <2>8 DEF n, h
    <3> QED BY <2>9, <2>10, <3>1, ReaderDeletesSound
  <2>12. Ready(k.x)
    <3>1. CASE ~k.ok
      BY <2>11, <3>1, StoppedReady
    <3>2. CASE k.ok
      <4>1. k.x.script = u /\ k.x.opts = fc[f].opts /\ k.x.last = fc[f].last
        BY <2>11, <3>2 DEF Sound
      <4>2. k.x.opts.auto_flush => Goes(k.x)
        BY <2>3, <4>1 DEF Goes
      <4> QED BY <2>3, <2>4, <4>1, <4>2, GoodReady
    <3> QED BY <3>1, <3>2
  <2>13. used' \in SUBSET Docs
    BY <2>1 DEF Inv, TypeInv
  <2> QED BY <1>2, <2>11, <2>12, <2>13, BecomesInv
<1>6. CASE ~m.ok /\ Becomes(f, m) /\ UNCHANGED <<want, used>>
  BY <1>1, <1>2, <1>3, <1>6, KeepInv DEF Keep, t
<1> QED BY <1>5, <1>6 DEF UpdateByQuery, m

-----------------------------------------------------------------------------
(* The calls *)

LEMMA AutoFlushGood ==
    ASSUME NEW o
    PROVE  Good(AutoFlush(o)) /\ (o.auto_flush => Ends(AutoFlush(o)))
<1> DEFINE a == S("flush", {})
<1>1. a \in StepType /\ a.do = "flush"
  BY DEF S, StepType, Steps
<1>2. Good(<<>>)
  BY NoScript DEF Good, Shape, Starts
<1> HIDE DEF a
<1>3. Good(<<a>>) /\ Ends(<<a>>)
  BY <1>1, OneGood DEF Ends
<1> QED BY <1>2, <1>3 DEF AutoFlush, a

(* A script of a call that changes documents. *)
Change(o, s) == Good(s) /\ s # <<>> /\ (o.auto_flush => Ends(s))

LEMMA ChangeIs ==
    ASSUME NEW o, NEW s, Good(s), s # <<>>
    PROVE  Change(o, s \o AutoFlush(o))
<1>1. Good(AutoFlush(o)) /\ (o.auto_flush => Ends(AutoFlush(o)))
  BY AutoFlushGood
<1> DEFINE t == AutoFlush(o)
           u == s \o t
<1> HIDE DEF t
<1>2. Good(u) /\ (o.auto_flush => Ends(u))
  BY <1>1, ConcatGood, ConcatEnds DEF Good, t
<1>3. s \in Seq(StepType) /\ t \in Seq(StepType)
  BY <1>1 DEF Good, t
<1>4. u # <<>>
  <2>1. u \in Seq(StepType) /\ Len(u) > 0
    BY <1>3, ConcatIs
  <2> HIDE DEF u
  <2> QED BY <2>1, ConcatIs
<1> QED BY <1>2, <1>4 DEF Change, t

LEMMA ConcatChange ==
    ASSUME NEW o, NEW s, NEW t, Good(s), Change(o, t)
    PROVE  Change(o, s \o t)
<1> DEFINE u == s \o t
<1>1. Good(t) /\ t # <<>> /\ (o.auto_flush => Ends(t))
  BY DEF Change
<1>2. Good(u) /\ (o.auto_flush => Ends(u))
  BY <1>1, ConcatGood, ConcatEnds DEF Good
<1>3. u # <<>>
  <2>1. s \in Seq(StepType) /\ t \in Seq(StepType)
    BY <1>1 DEF Good
  <2>2. u \in Seq(StepType) /\ Len(u) > 0
    BY <1>1, <2>1, ConcatIs
  <2> HIDE DEF u
  <2> QED BY <2>2, ConcatIs
<1> QED BY <1>2, <1>3 DEF Change

LEMMA Pieces ==
    /\ Good(<<EW>>) /\ Good(<<ER, S("delete_number", {})>>)
    /\ \A ks \in SUBSET Keys : /\ Good(<<EW, S("delete_term", ks)>>)
                               /\ Good(<<EW, ES, S("query_delete", ks)>>)
                               /\ Good(<<EW, ES, S("query_update", ks)>>)
    /\ \A ds \in SUBSET Docs : Good(<<EW, S("add", ds)>>)
<1>1. Good(<<EW>>)
  BY EnsureSteps, OneGood
<1>2. Good(<<ER, S("delete_number", {})>>)
  <2>1. S("delete_number", {}) \in StepType /\ S("delete_number", {}).do = "delete_number"
    BY DEF S, StepType, Steps
  <2>2. Follows(ER.do, S("delete_number", {}).do)
    BY <2>1 DEF Follows
  <2> QED BY <2>1, <2>2, EnsureSteps, TwoGood
<1>3. ASSUME NEW ks \in SUBSET Keys PROVE Good(<<EW, S("delete_term", ks)>>)
  BY EWThenGood
<1>4. ASSUME NEW ds \in SUBSET Docs PROVE Good(<<EW, S("add", ds)>>)
  BY EWThenGood
<1>5. ASSUME NEW ks \in SUBSET Keys, NEW do \in {"query_delete", "query_update"}
      PROVE  Good(<<EW, ES, S(do, ks)>>)
  <2>1. S(do, ks) \in StepType /\ S(do, ks).do = do
    BY DEF S, StepType, Steps
  <2>2. Follows(ES.do, S(do, ks).do)
    BY <2>1 DEF Follows
  <2>3. Good(<<ES, S(do, ks)>>)
    BY <2>1, <2>2, EnsureSteps, TwoGood
  <2>4. <<EW, ES, S(do, ks)>> = <<EW>> \o <<ES, S(do, ks)>>
    OBVIOUS
  <2> QED BY <1>1, <2>3, <2>4, ConcatGood
<1> QED BY <1>1, <1>2, <1>3, <1>4, <1>5

LEMMA DeletesGood ==
    ASSUME NEW o, NEW ks \in SUBSET Keys
    PROVE  /\ Change(o, DeleteNumber(o)) /\ \A k \in Keys : Change(o, DeleteTerm(o, k))
           /\ Change(o, QueryDelete(o, ks)) /\ Change(o, QueryUpdate(o, ks))
           /\ Change(o, BatchDelete(ks) \o AutoFlush(o))
<1>1. \A a, b : <<a, b>> # <<>>
  OBVIOUS
<1>2. \A a, b, c : <<a, b, c>> # <<>>
  OBVIOUS
<1>3. Change(o, DeleteNumber(o))
  BY <1>1, Pieces, ChangeIs DEF DeleteNumber
<1>4. ASSUME NEW k \in Keys PROVE Change(o, DeleteTerm(o, k))
  <2>1. Good(<<EW, S("delete_term", {k})>>)
    BY Pieces
  <2> QED BY <1>1, <2>1, ChangeIs DEF DeleteTerm
<1>5. Change(o, QueryDelete(o, ks))
  BY <1>2, Pieces, ChangeIs DEF QueryDelete
<1>6. Change(o, QueryUpdate(o, ks))
  BY <1>2, Pieces, ChangeIs DEF QueryUpdate
<1>7. Change(o, BatchDelete(ks) \o AutoFlush(o))
  <2>1. BatchDelete(ks) = <<ER, S("delete_number", {})>> \o <<EW, S("delete_term", ks)>>
    BY DEF BatchDelete
  <2>2. Good(BatchDelete(ks))
    BY <2>1, Pieces, ConcatGood
  <2>3. BatchDelete(ks) # <<>>
    BY DEF BatchDelete
  <2> QED BY <2>2, <2>3, ChangeIs
<1> QED BY <1>3, <1>4, <1>5, <1>6, <1>7

LEMMA Concat11 ==
    ASSUME NEW a \in StepType, NEW b \in StepType
    PROVE  <<a>> \o <<b>> = <<a, b>>
<1> DEFINE u == <<a>> \o <<b>>
           v == <<a, b>>
<1>1. /\ u \in Seq(StepType) /\ Len(u) = 2 /\ u[1] = a /\ u[2] = b
      /\ v \in Seq(StepType) /\ Len(v) = 2 /\ v[1] = a /\ v[2] = b
  OBVIOUS
<1> HIDE DEF u, v
<1>2. \A i \in 1..2 : i = 1 \/ i = 2
  OBVIOUS
<1>3. \A i \in 1..2 : u[i] = v[i]
  BY <1>1, <1>2
<1>4. u = [i \in 1..2 |-> u[i]] /\ v = [i \in 1..2 |-> v[i]]
  BY <1>1
<1>5. u = v
  BY <1>3, <1>4
<1> QED BY <1>5 DEF u, v

LEMMA Concat21 ==
    ASSUME NEW a \in StepType, NEW b \in StepType, NEW c \in StepType
    PROVE  <<a, b>> \o <<c>> = <<a, b, c>>
<1> DEFINE u == <<a, b>> \o <<c>>
           v == <<a, b, c>>
<1>1. /\ u \in Seq(StepType) /\ Len(u) = 3 /\ u[1] = a /\ u[2] = b /\ u[3] = c
      /\ v \in Seq(StepType) /\ Len(v) = 3 /\ v[1] = a /\ v[2] = b /\ v[3] = c
  OBVIOUS
<1> HIDE DEF u, v
<1>2. \A i \in 1..3 : i = 1 \/ i = 2 \/ i = 3
  OBVIOUS
<1>3. \A i \in 1..3 : u[i] = v[i]
  BY <1>1, <1>2
<1>4. u = [i \in 1..3 |-> u[i]] /\ v = [i \in 1..3 |-> v[i]]
  BY <1>1
<1>5. u = v
  BY <1>3, <1>4
<1> QED BY <1>5 DEF u, v

LEMMA AddDocumentGood ==
    ASSUME NEW o \in Options, NEW d \in Docs
    PROVE  Change(o, AddDocument(o, d))
<1> DEFINE c == CASE o.key = "none"   -> <<>>
                  [] o.key = "field"  -> <<S("delete_term", {KeyOf[d]})>>
                  [] o.key = "fields" -> QueryDelete(o, {KeyOf[d]})
           h == <<EW>> \o c
           a == <<EW, S("add", {d})>>
<1>1. KeyOf[d] \in Keys /\ o.key \in {"none", "field", "fields"}
  BY FacadeConstants DEF Keys
<1>2. AddDocument(o, d) = (h \o a) \o AutoFlush(o)
  BY DEF AddDocument
<1>3. Good(h)
  <2>1. CASE o.key = "none"
    <3>1. h = <<EW>>
      BY <2>1
    <3> HIDE DEF h
    <3> QED BY <3>1, Pieces
  <2>2. CASE o.key = "field"
    <3>1. c = <<S("delete_term", {KeyOf[d]})>>
      BY <2>2
    <3> HIDE DEF c
    <3>2. h = <<EW, S("delete_term", {KeyOf[d]})>>
      <4>1. S("delete_term", {KeyOf[d]}) \in StepType /\ EW \in StepType
        BY <1>1, EnsureSteps DEF S, StepType, Steps
      <4> QED BY <3>1, <4>1, Concat11
    <3> HIDE DEF h
    <3> QED BY <1>1, <3>2, Pieces
  <2>3. CASE o.key = "fields"
    <3>1. c = QueryDelete(o, {KeyOf[d]})
      BY <2>3
    <3> HIDE DEF c
    <3>2. Good(c)
      BY <1>1, <3>1, DeletesGood DEF Change
    <3> QED BY <3>2, Pieces, ConcatGood
  <2> QED BY <1>1, <2>1, <2>2, <2>3
<1>4. Good(a) /\ a # <<>>
  BY Pieces
<1> HIDE DEF h, a
<1>5. Good(h \o a)
  BY <1>3, <1>4, ConcatGood
<1>6. h \o a # <<>>
  <2>1. h \in Seq(StepType) /\ a \in Seq(StepType)
    BY <1>3, <1>4 DEF Good
  <2> DEFINE u == h \o a
  <2>2. u \in Seq(StepType) /\ Len(u) > 0
    BY <1>4, <2>1, ConcatIs
  <2> HIDE DEF u
  <2>3. u # <<>>
    BY <2>2, ConcatIs
  <2> QED BY <2>3 DEF u
<1> QED BY <1>2, <1>5, <1>6, ChangeIs

(* commit comes after the deletion, or after the flush of the deletion. *)
LEMMA CommitGood ==
    ASSUME NEW ks \in SUBSET Keys, NEW ds \in SUBSET Docs
    PROVE  /\ Good(<<EW, S("delete_term", ks), S("commit", {}), S("add", ds)>>)
           /\ Good(<<EW, S("delete_term", ks), S("flush", {}), S("commit", {}), S("add", ds)>>)
<1> DEFINE b == S("delete_term", ks)
           c == S("commit", {})
           a == S("add", ds)
           e == S("flush", {})
<1>1. /\ b \in StepType /\ c \in StepType /\ a \in StepType /\ e \in StepType /\ EW \in StepType
      /\ b.do = "delete_term" /\ c.do = "commit" /\ a.do = "add" /\ e.do = "flush"
      /\ EW.do = "ensure_writer"
  BY EnsureSteps DEF S, StepType, Steps
<1> HIDE DEF a, b, c, e
<1>2. Good(<<EW, b, c, a>>)
  <2> DEFINE t == <<EW, b, c, a>>
  <2>1. t \in Seq(StepType) /\ Len(t) = 4 /\ t[1] = EW /\ t[2] = b /\ t[3] = c /\ t[4] = a
    BY <1>1
  <2> HIDE DEF t
  <2>2. Starts(t)
    BY <1>1, <2>1 DEF Starts
  <2>3. ASSUME NEW i \in 1..(Len(t) - 1) PROVE Follows(t[i].do, t[i + 1].do)
    <3>1. (i = 1 /\ i + 1 = 2) \/ (i = 2 /\ i + 1 = 3) \/ (i = 3 /\ i + 1 = 4)
      BY <2>1
    <3> QED BY <1>1, <2>1, <3>1 DEF Follows
  <2>4. ASSUME NEW i \in 1..(Len(t) - 2) PROVE t[i + 1].do # "flush"
    <3>1. (i = 1 /\ i + 1 = 2) \/ (i = 2 /\ i + 1 = 3)
      BY <2>1
    <3> QED BY <1>1, <2>1, <3>1
  <2>5. Shape(t)
    BY <2>3, <2>4 DEF Shape
  <2> QED BY <2>1, <2>2, <2>5 DEF Good, t
<1>3. Good(<<EW, b, e, c, a>>)
  <2> DEFINE t == <<EW, b, e, c, a>>
  <2>1. /\ t \in Seq(StepType) /\ Len(t) = 5 /\ t[1] = EW /\ t[2] = b /\ t[3] = e /\ t[4] = c
        /\ t[5] = a
    BY <1>1
  <2> HIDE DEF t
  <2>2. Starts(t)
    BY <1>1, <2>1 DEF Starts
  <2>3. ASSUME NEW i \in 1..(Len(t) - 1) PROVE Follows(t[i].do, t[i + 1].do)
    <3>1. (i = 1 /\ i + 1 = 2) \/ (i = 2 /\ i + 1 = 3) \/ (i = 3 /\ i + 1 = 4) \/ (i = 4 /\ i + 1 = 5)
      BY <2>1
    <3> QED BY <1>1, <2>1, <3>1 DEF Follows
  <2>4. ASSUME NEW i \in 1..(Len(t) - 2), t[i + 1].do = "flush" PROVE t[i].do = "delete_term"
    <3>1. (i = 1 /\ i + 1 = 2) \/ (i = 2 /\ i + 1 = 3) \/ (i = 3 /\ i + 1 = 4)
      BY <2>1
    <3> QED BY <1>1, <2>1, <2>4, <3>1
  <2>5. Shape(t)
    BY <2>3, <2>4 DEF Shape
  <2> QED BY <2>1, <2>2, <2>5 DEF Good, t
<1> QED BY <1>2, <1>3 DEF a, b, c, e

LEMMA UpdateTermGood ==
    ASSUME NEW o, NEW k \in Keys, NEW d \in Docs
    PROVE  Change(o, UpdateTerm(o, k, d))
<1> DEFINE b == S("delete_term", {k})
           c == S("commit", {})
           a == S("add", {d})
           e == S("flush", {})
           h == (<<EW>> \o DeleteTerm(o, k)) \o <<c, a>>
<1>1. UpdateTerm(o, k, d) = h \o AutoFlush(o)
  BY DEF UpdateTerm
<1>2. Good(<<EW, b, c, a>>) /\ Good(<<EW, b, e, c, a>>)
  BY CommitGood
<1> HIDE DEF a, b, c, e
<1>s. b \in StepType /\ e \in StepType /\ EW \in StepType
  BY EnsureSteps DEF S, StepType, Steps, b, e
<1>3. DeleteTerm(o, k) = <<EW, b>> \o AutoFlush(o)
  BY DEF DeleteTerm, b
<1>4. Good(h) /\ h # <<>>
  <2>1. CASE o.auto_flush
    <3>1. AutoFlush(o) = <<e>>
      BY <2>1 DEF AutoFlush, e
    <3>2. DeleteTerm(o, k) = <<EW, b, e>>
      BY <1>3, <1>s, <3>1, Concat21
    <3>3. h = <<EW>> \o <<EW, b, e, c, a>>
      <4>1. h = (<<EW>> \o <<EW, b, e>>) \o <<c, a>>
        BY <3>2, Zenon
      <4>2. (<<EW>> \o <<EW, b, e>>) \o <<c, a>> = <<EW>> \o <<EW, b, e, c, a>>
        OBVIOUS
      <4> QED BY <4>1, <4>2, Zenon
    <3>4. <<EW>> \o <<EW, b, e, c, a>> # <<>>
      OBVIOUS
    <3> HIDE DEF h
    <3> QED BY <1>2, <3>3, <3>4, Pieces, ConcatGood
  <2>2. CASE ~o.auto_flush
    <3>1. AutoFlush(o) = <<>>
      BY <2>2 DEF AutoFlush
    <3>2. DeleteTerm(o, k) = <<EW, b>>
      BY <1>3, <3>1
    <3>3. h = <<EW>> \o <<EW, b, c, a>>
      <4>1. h = (<<EW>> \o <<EW, b>>) \o <<c, a>>
        BY <3>2, Zenon
      <4>2. (<<EW>> \o <<EW, b>>) \o <<c, a>> = <<EW>> \o <<EW, b, c, a>>
        OBVIOUS
      <4> QED BY <4>1, <4>2, Zenon
    <3>4. <<EW>> \o <<EW, b, c, a>> # <<>>
      OBVIOUS
    <3> HIDE DEF h
    <3> QED BY <1>2, <3>3, <3>4, Pieces, ConcatGood
  <2> QED BY <2>1, <2>2
<1> HIDE DEF h
<1> QED BY <1>1, <1>4, ChangeIs

LEMMA UpdateNumberGood ==
    ASSUME NEW o, NEW d \in Docs
    PROVE  Change(o, UpdateNumber(o, d))
<1> DEFINE h == (<<EW>> \o DeleteNumber(o)) \o <<EW, S("add", {d})>>
           a == <<EW, S("add", {d})>>
<1>1. UpdateNumber(o, d) = h \o AutoFlush(o)
  BY DEF UpdateNumber
<1>2. Good(DeleteNumber(o)) /\ Good(<<EW>>) /\ Good(a) /\ a # <<>>
  <2>1. Change(o, DeleteNumber(o))
    <3>1. \A x, y : <<x, y>> # <<>>
      OBVIOUS
    <3> QED BY <3>1, Pieces, ChangeIs DEF DeleteNumber
  <2> QED BY <2>1, Pieces DEF Change
<1>3. Good(<<EW>> \o DeleteNumber(o))
  BY <1>2, ConcatGood
<1>4. Good(h)
  BY <1>2, <1>3, ConcatGood
<1>5. h # <<>>
  <2> DEFINE g == <<EW>> \o DeleteNumber(o)
  <2>1. h = g \o a /\ g \in Seq(StepType) /\ a \in Seq(StepType)
    BY <1>2, <1>3 DEF Good
  <2> HIDE DEF a, g, h
  <2>2. h \in Seq(StepType) /\ Len(h) > 0
    BY <1>2, <2>1, ConcatIs
  <2> QED BY <2>2, ConcatIs
<1> HIDE DEF h
<1> QED BY <1>1, <1>4, <1>5, ChangeIs

LEMMA BatchUpdateGood ==
    ASSUME NEW o, NEW d \in Docs
    PROVE  Change(o, BatchUpdate(d))
<1> DEFINE e == S("flush", {})
           b == S("delete_term", {KeyOf[d]})
           a == S("add", {d})
           g == <<EW, b>> \o <<EW, a>>
<1>1. BatchUpdate(d) = g \o <<e>>
  BY DEF BatchUpdate
<1>2. Good(<<EW, b>>) /\ Good(<<EW, a>>)
  BY Pieces DEF Keys
<1>3. Good(g)
  BY <1>2, ConcatGood
<1>4. e \in StepType /\ e.do = "flush"
  BY DEF S, StepType, Steps
<1> HIDE DEF e, b, a, g
<1>5. Good(<<e>>) /\ Ends(<<e>>) /\ <<e>> # <<>>
  BY <1>4, OneGood DEF Ends
<1>6. Change(o, <<e>>)
  BY <1>5 DEF Change
<1> QED BY <1>1, <1>3, <1>6, ConcatChange

(* A call: its name, its script and its new documents. *)
Scripted(o, c) ==
    /\ c[1] \in {"writer", "add_indexes", "other"} /\ c[3] \in SUBSET Docs
    /\ Good(c[2]) /\ c[2] # <<>>
    /\ o.auto_flush =>
          \/ c[1] \notin Keepers /\ Ends(c[2])
          \/ c[1] \notin Keepers /\ Only(c[2], Ensures \cup Uses) /\ c[2][1].do \notin Uses
          \/ c[1] \in Keepers /\ Only(c[2], Keeping)

LEMMA ChangeScripted ==
    ASSUME NEW o, NEW s, NEW ds \in SUBSET Docs, Change(o, s)
    PROVE  Scripted(o, <<"other", s, ds>>)
BY DEF Change, Scripted, Keepers

LEMMA ReadScripted ==
    ASSUME NEW o, NEW a \in StepType, NEW b \in StepType, a.do \in Ensures, b.do \in Uses,
           Follows(a.do, b.do)
    PROVE  Scripted(o, <<"other", <<a, b>>, {}>>)
<1> DEFINE t == <<a, b>>
<1>1. Good(t)
  BY TwoGood DEF Ensures
<1>2. t # <<>> /\ Len(t) = 2 /\ t[1] = a /\ t[2] = b
  OBVIOUS
<1> HIDE DEF t
<1>3. Only(t, Ensures \cup Uses)
  <2>1. \A i \in 1..Len(t) : i = 1 \/ i = 2
    BY <1>2
  <2> QED BY <1>2, <2>1 DEF Only
<1>4. t[1].do \notin Uses
  BY <1>2 DEF Ensures, Uses
<1>5. Scripted(o, <<"other", t, {}>>)
  BY <1>1, <1>2, <1>3, <1>4 DEF Scripted, Keepers
<1> QED BY <1>5 DEF t

LEMMA KeepScripted ==
    ASSUME NEW o
    PROVE  /\ Scripted(o, <<"writer", <<EW>>, {}>>)
           /\ \A d \in Docs : Scripted(o, <<"add_indexes", <<EW, EW, S("add_readers", {d})>>, {d}>>)
<1>1. Scripted(o, <<"writer", <<EW>>, {}>>)
  <2> DEFINE t == <<EW>>
  <2>1. Good(t) /\ EW.do = "ensure_writer"
    BY Pieces, EnsureSteps
  <2>2. t # <<>> /\ Len(t) = 1 /\ t[1] = EW
    OBVIOUS
  <2> HIDE DEF t
  <2>3. Only(t, Keeping)
    BY <2>1, <2>2 DEF Only, Keeping
  <2>4. Scripted(o, <<"writer", t, {}>>)
    BY <2>1, <2>2, <2>3 DEF Scripted, Keepers
  <2> QED BY <2>4 DEF t
<1>2. ASSUME NEW d \in Docs
      PROVE  Scripted(o, <<"add_indexes", <<EW, EW, S("add_readers", {d})>>, {d}>>)
  <2> DEFINE b == S("add_readers", {d})
             t == <<EW, EW, b>>
  <2>1. Good(<<EW, b>>) /\ Good(<<EW>>) /\ b.do = "add_readers" /\ EW.do = "ensure_writer"
    BY EWThenGood, Pieces, EnsureSteps DEF S
  <2> HIDE DEF b
  <2>2. t = <<EW>> \o <<EW, b>> /\ t # <<>> /\ Len(t) = 3 /\ t[1] = EW /\ t[2] = EW /\ t[3] = b
    OBVIOUS
  <2> HIDE DEF t
  <2>3. Good(t)
    BY <2>1, <2>2, ConcatGood
  <2>4. Only(t, Keeping)
    <3>1. \A i \in 1..Len(t) : i = 1 \/ i = 2 \/ i = 3
      BY <2>2
    <3> QED BY <2>1, <2>2, <3>1 DEF Only, Keeping
  <2>5. Scripted(o, <<"add_indexes", t, {d}>>)
    BY <2>2, <2>3, <2>4 DEF Scripted, Keepers
  <2> QED BY <2>5 DEF t, b
<1> QED BY <1>1, <1>2

LEMMA OtherCalls ==
    ASSUME NEW o
    PROVE  /\ Scripted(o, <<"other", <<ES, S("search", {})>>, {}>>)
           /\ Scripted(o, <<"other", <<ER, S("read", {})>>, {}>>)
           /\ Scripted(o, <<"other", <<S("any_reader", {}), S("peek", {})>>, {}>>)
           /\ Scripted(o, <<"other", <<S("flush", {})>>, {}>>)
           /\ Scripted(o, <<"other", <<S("close", {})>>, {}>>)
<1>1. ASSUME NEW a \in StepType, a.do \in {"flush", "close"}
      PROVE  Scripted(o, <<"other", <<a>>, {}>>)
  <2>1. Change(o, <<a>>)
    BY <1>1, OneGood DEF Change, Ends
  <2> QED BY <2>1, ChangeScripted
<1>3. ASSUME NEW do \in {"search", "read", "any_reader", "peek", "flush", "close"}
      PROVE  S(do, {}) \in StepType /\ S(do, {}).do = do
  BY DEF S, StepType, Steps
<1>4. /\ Follows(ES.do, S("search", {}).do) /\ Follows(ER.do, S("read", {}).do)
      /\ Follows(S("any_reader", {}).do, S("peek", {}).do)
  BY <1>3, EnsureSteps DEF Follows
<1>6. Scripted(o, <<"other", <<ES, S("search", {})>>, {}>>)
  BY <1>3, <1>4, EnsureSteps, ReadScripted DEF Ensures, Uses
<1>7. Scripted(o, <<"other", <<ER, S("read", {})>>, {}>>)
  BY <1>3, <1>4, EnsureSteps, ReadScripted DEF Ensures, Uses
<1>8. Scripted(o, <<"other", <<S("any_reader", {}), S("peek", {})>>, {}>>)
  BY <1>3, <1>4, ReadScripted DEF Ensures, Uses
<1>9. /\ Scripted(o, <<"other", <<S("flush", {})>>, {}>>)
      /\ Scripted(o, <<"other", <<S("close", {})>>, {}>>)
  BY <1>1, <1>3
<1> QED BY <1>6, <1>7, <1>8, <1>9

LEMMA CallsScripted ==
    ASSUME TypeInv, NEW o \in Options, NEW c \in Calls(o)
    PROVE  Scripted(o, c)
<1>1. c \in {<<"other", <<ES, S("search", {})>>, {}>>,
             <<"other", <<ER, S("read", {})>>, {}>>,
             <<"other", <<S("any_reader", {}), S("peek", {})>>, {}>>,
             <<"other", <<S("flush", {})>>, {}>>,
             <<"writer", <<EW>>, {}>>,
             <<"other", <<S("close", {})>>, {}>>}
      => Scripted(o, c)
  BY OtherCalls, KeepScripted
<1>2. c = <<"other", DeleteNumber(o), {}>> => Scripted(o, c)
  BY DeletesGood, ChangeScripted
<1>3. c = <<"other", BatchDelete(Keys) \o AutoFlush(o), {}>> => Scripted(o, c)
  BY DeletesGood, ChangeScripted
<1>4. c = <<"other", <<EW, S("optimize", {})>>, {}>> => Scripted(o, c)
  <2> DEFINE a == S("optimize", {})
             u == <<EW, a>>
  <2>1. Good(u) /\ a.do = "optimize"
    BY EWThenGood DEF S
  <2> HIDE DEF a
  <2>2. u # <<>> /\ Len(u) = 2 /\ u[2] = a
    OBVIOUS
  <2> HIDE DEF u
  <2>3. Change(o, u)
    BY <2>1, <2>2 DEF Change, Ends
  <2>4. Scripted(o, <<"other", u, {}>>)
    BY <2>3, ChangeScripted
  <2> QED BY <2>4 DEF a, u
<1>5. ASSUME NEW k \in Keys
      PROVE  /\ Scripted(o, <<"other", DeleteTerm(o, k), {}>>)
             /\ Scripted(o, <<"other", QueryDelete(o, {k}), {}>>)
             /\ Scripted(o, <<"other", QueryUpdate(o, {k}), {}>>)
  <2>1. Change(o, DeleteTerm(o, k)) /\ Change(o, QueryDelete(o, {k})) /\ Change(o, QueryUpdate(o, {k}))
    BY DeletesGood
  <2> QED BY <2>1, ChangeScripted
<1>6. ASSUME NEW d \in Docs
      PROVE  /\ Scripted(o, <<"other", AddDocument(o, d), {d}>>)
             /\ Scripted(o, <<"other", UpdateTerm(o, KeyOf[d], d), {d}>>)
             /\ Scripted(o, <<"other", UpdateNumber(o, d), {d}>>)
             /\ Scripted(o, <<"other", BatchUpdate(d), {d}>>)
             /\ Scripted(o, <<"add_indexes", <<EW, EW, S("add_readers", {d})>>, {d}>>)
  <2>1. KeyOf[d] \in Keys
    BY DEF Keys
  <2>2. /\ Change(o, AddDocument(o, d)) /\ Change(o, UpdateTerm(o, KeyOf[d], d))
        /\ Change(o, UpdateNumber(o, d)) /\ Change(o, BatchUpdate(d))
    BY <2>1, AddDocumentGood, UpdateTermGood, UpdateNumberGood, BatchUpdateGood
  <2> QED BY <2>2, ChangeScripted, KeepScripted
<1>7. ASSUME NEW d \in Docs \ used,
             c \in {<<"other", AddDocument(o, d), {d}>>,
                    <<"other", UpdateTerm(o, KeyOf[d], d), {d}>>,
                    <<"other", UpdateNumber(o, d), {d}>>,
                    <<"other", BatchUpdate(d), {d}>>,
                    <<"add_indexes", <<EW, EW, S("add_readers", {d})>>, {d}>>}
      PROVE  Scripted(o, c)
  BY <1>6, <1>7, Zenon
<1>8. ASSUME NEW k \in Keys, c \in {<<"other", DeleteTerm(o, k), {}>>,
                                   <<"other", QueryDelete(o, {k}), {}>>,
                                   <<"other", QueryUpdate(o, {k}), {}>>}
      PROVE  Scripted(o, c)
  BY <1>5, <1>8, Zenon
<1> QED BY <1>1, <1>2, <1>3, <1>4, <1>7, <1>8, ZenonT(60) DEF Calls

(* A new call changes nothing but the script. *)
LEMMA CallInv ==
    ASSUME Inv, NEW f \in Facades, Call(f)
    PROVE  Inv'
<1>1. PICK c \in Calls(fc[f].opts) :
         fc' = [fc EXCEPT ![f].script = c[2], ![f].last = c[1]] /\ used' = used \cup c[3]
  BY DEF Call
<1>2. /\ Sane /\ UNCHANGED <<disk, lck, want, robbed>> /\ TypeInv /\ IndexInv /\ LockInv
      /\ fc \in [Facades -> IndexType] /\ fc[f] \in IndexType
  BY DEF Call, Inv, TypeInv
<1>3. Scripted(fc[f].opts, c)
  BY <1>2, CallsScripted DEF IndexType
<1>4. /\ c[1] \in {"writer", "add_indexes", "other"} /\ c[2] \in Seq(StepType)
      /\ c[3] \in SUBSET Docs /\ Good(c[2]) /\ c[2] # <<>>
  BY <1>3 DEF Scripted, Good
<1> DEFINE x == [fc[f] EXCEPT !.script = c[2], !.last = c[1]]
<1>5. /\ x \in IndexType /\ x.reader = fc[f].reader /\ x.writer = fc[f].writer
      /\ x.status = fc[f].status /\ x.opts = fc[f].opts /\ x.script = c[2] /\ x.last = c[1]
  BY <1>2, <1>4 DEF IndexType
<1>6. fc' = [fc EXCEPT ![f] = x]
  BY <1>1, <1>2 DEF IndexType
<1> HIDE DEF x
<1>7. /\ fc' \in [Facades -> IndexType] /\ fc'[f] = x
      /\ \A g \in Facades : g # f => fc'[g] = fc[g]
  BY <1>2, <1>5, <1>6
<1>8. \A g \in Facades : fc'[g].reader = fc[g].reader /\ fc'[g].writer = fc[g].writer
                         /\ fc'[g].status = fc[g].status
  BY <1>5, <1>7
<1>9. TypeInv'
  BY <1>1, <1>2, <1>4, <1>7 DEF TypeInv
<1>10. IndexInv'
  <2>1. \A g \in Facades : Coherent(fc'[g])
    BY <1>2, <1>8 DEF IndexInv, Coherent
  <2>2. fc[f].opts.auto_flush => ~fc[f].reader.lock
    BY <1>2 DEF Call, IndexInv, Ready, EndsFlushed
  <2>3. x.opts.auto_flush => Goes(x)
    BY <1>3, <1>5, <2>2 DEF Scripted, Goes, OnlyReads
  <2>4. Ready(x)
    BY <1>4, <1>5, <2>3, GoodReady
  <2> QED BY <1>2, <1>7, <2>1, <2>4 DEF IndexInv
<1>11. LockInv'
  <2>1. \A g \in Facades : /\ Holds(fc'[g]) <=> Holds(fc[g])
                           /\ Holding(fc'[g], disk.docs) = Holding(fc[g], disk.docs)
                           /\ Current(fc'[g], disk.docs) <=> Current(fc[g], disk.docs)
    BY <1>8 DEF Holds, Holding, Current
  <2> QED BY <1>2, <2>1 DEF LockInv
<1> QED BY <1>9, <1>10, <1>11 DEF Inv

-----------------------------------------------------------------------------
(* The theorems *)

LEMMA InitInv == Init => Inv
<1> SUFFICES ASSUME Init PROVE Inv
  OBVIOUS
<1>1. PICK o \in [Facades -> Options] : fc = [f \in Facades |-> Fresh(o[f])]
  BY DEF Init
<1>2. ASSUME NEW f \in Facades
      PROVE  /\ fc[f] \in IndexType /\ ~fc[f].reader.on /\ fc[f].reader.view = {} /\ ~fc[f].reader.lock
             /\ fc[f].reader.dels = {} /\ ~fc[f].writer.on /\ fc[f].writer.buf = {}
             /\ fc[f].script = <<>> /\ fc[f].last = "other"
  BY <1>1, NoScript DEF Fresh, IndexType, ReaderType, WriterType, NoReader, NoWriter
<1>3. TypeInv
  BY <1>1, <1>2 DEF Init, TypeInv
<1>4. IndexInv
  <2>1. Shape(<<>>)
    BY DEF Shape
  <2>2. ASSUME NEW f \in Facades PROVE Coherent(fc[f])
    BY <1>2 DEF Coherent
  <2>3. ASSUME NEW f \in Facades PROVE Ready(fc[f])
    BY <1>2, <2>1 DEF Ready, HeadReady, EndsFlushed
  <2> QED BY <2>2, <2>3 DEF IndexInv
<1>5. LockInv
  BY <1>2 DEF Init, LockInv, Holds, Current
<1> QED BY <1>3, <1>4, <1>5 DEF Inv

LEMMA NextInv ==
    ASSUME Inv, [Next]_vars
    PROVE  Inv'
<1>1. CASE UNCHANGED vars
  BY <1>1 DEF vars, Inv, TypeInv, IndexInv, Sane, LockInv
<1>2. ASSUME NEW f \in Facades, Step(f) PROVE Inv'
  BY <1>2, CallInv, EnsureWriterInv, EnsureReaderInv, EnsureSearcherInv, AnyReaderInv, PeekInv,
     SearchInv, AddInv, CommitInv, DeleteTermsInv, DeleteDocInv, DeleteByQueryInv,
     UpdateByQueryInv, FlushInv, OptimizeInv, AddReadersInv, CloseInv DEF Step
<1> QED BY <1>1, <1>2 DEF Next

(* The inductive invariant, for any number of Index objects that call the    *)
(* methods of index.rb in any order.                                         *)
THEOREM FacadeInvariant == Spec => []Inv
<1>1. Inv /\ [Next]_vars => Inv'
  BY NextInv
<1> QED BY <1>1, InitInv, PTL DEF Spec

(* Type correctness; an open Index has a writer or a reader, never both:     *)
(* ensure_writer_open closes the reader, ensure_reader_open the writer.      *)
THEOREM FacadeTypeCorrect == Spec => []TypeOK
<1>1. Inv => TypeOK
  <2> SUFFICES ASSUME Inv PROVE TypeOK
    OBVIOUS
  <2>1. ASSUME NEW f \in Facades
        PROVE  /\ fc[f].searcher \in {"nil", "open", "closed"}
               /\ fc[f].status \in {"ok", "crashed", "hung"}
               /\ ~(fc[f].open /\ fc[f].reader.on /\ fc[f].writer.on)
               /\ fc[f].reader.dels \subseteq fc[f].reader.view
    BY DEF Inv, TypeInv, IndexType, IndexInv, Coherent
  <2> QED BY <2>1 DEF Inv, TypeInv, TypeOK
<1> QED BY <1>1, FacadeInvariant, PTL

(* No change is lost and no deleted document comes back, whatever the Index  *)
(* objects call and however their steps interleave, until a lock file is     *)
(* removed under its holder, by frt_iw_open, fs_close_lock_i or fs_destroy:  *)
(* the writer, or the one reader that holds the write lock, has the last     *)
(* commit and every change since.                                            *)
THEOREM NothingIsLost == Spec => []NothingLost
<1>1. Inv => NothingLost
  <2> SUFFICES ASSUME Inv, Sane PROVE Live = want
    BY DEF NothingLost
  <2> DEFINE writers == {f \in Facades : fc[f].writer.on}
             readers == {f \in Facades : fc[f].reader.lock}
  <2>1. LockInv
    BY DEF Inv
  <2>2. CASE writers # {}
    <3>1. PICK f \in Facades : fc[f].writer.on
      BY <2>2
    <3>2. writers = {f}
      BY <2>1, <3>1 DEF LockInv, Holds
    <3>3. fc[f].writer.sis \cup fc[f].writer.buf = want
      BY <2>1, <3>1 DEF LockInv, Holds, Holding
    <3>4. Live = UNION {fc[g].writer.sis \cup fc[g].writer.buf : g \in writers}
      BY <2>2 DEF Live
    <3> HIDE DEF writers
    <3> QED BY <3>2, <3>3, <3>4
  <2>3. CASE writers = {} /\ readers # {}
    <3>1. PICK f \in Facades : fc[f].reader.lock
      BY <2>3
    <3>2. readers = {f} /\ ~fc[f].writer.on
      BY <2>1, <2>3, <3>1 DEF LockInv, Holds
    <3>3. fc[f].reader.view \ fc[f].reader.dels = want
      BY <2>1, <3>1, <3>2 DEF LockInv, Holds, Holding
    <3>4. Live = UNION {fc[g].reader.view \ fc[g].reader.dels : g \in readers}
      BY <2>3 DEF Live
    <3> HIDE DEF readers
    <3> QED BY <3>2, <3>3, <3>4
  <2>4. CASE writers = {} /\ readers = {}
    <3>1. Live = disk.docs
      BY <2>4 DEF Live
    <3>2. \A f \in Facades : ~Holds(fc[f])
      BY <2>4 DEF Holds
    <3> QED BY <2>1, <3>1, <3>2 DEF LockInv
  <2> QED BY <2>2, <2>3, <2>4
<1> QED BY <1>1, FacadeInvariant, PTL

(* A reading call sees every commit up to the moment it made sure of its     *)
(* reader: ensure_reader_open keeps a reader only when latest? says so, and  *)
(* nothing comes between it and the read.                                    *)
THEOREM ReadsStayFresh == Spec => []ReadsAreFresh
<1>1. Inv => ReadsAreFresh
  <2> SUFFICES ASSUME Inv, NEW f \in Facades, fc[f].reader.segs,
                      NEW do \in {"read", "search"}, At(f, do)
               PROVE  fc[f].reader.view \ fc[f].reader.dels = fc[f].seen
    BY DEF ReadsAreFresh
  <2>1. fc[f].script # <<>> /\ fc[f].script[1].do = do
    BY AtIs
  <2> QED BY <2>1 DEF Inv, IndexInv, Ready, HeadReady
<1> QED BY <1>1, FacadeInvariant, PTL

(* With auto_flush every call but add_indexes, writer and field_infos,       *)
(* whether it returns or raises, leaves the Index without the write lock,    *)
(* which those three may have left it with.                                  *)
THEOREM AutoFlushFrees == Spec => []AutoFlushFreesLock
<1>1. Inv => AutoFlushFreesLock
  BY DEF Inv, IndexInv, Ready, EndsFlushed, Keepers, AutoFlushFreesLock
<1> QED BY <1>1, FacadeInvariant, PTL
=============================================================================
