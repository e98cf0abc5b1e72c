---------------------------- MODULE IndexFacade ----------------------------
(* Index::Index, the Ruby facade: an Index keeps a writer, or a reader and   *)
(* perhaps a searcher over it, and switches between them on every call       *)
(* (ensure_writer_open, ensure_reader_open, ensure_searcher_open).  Several  *)
(* Index objects, in several processes, share one index and its write lock.  *)
(*                                                                           *)
(* A method is the sequence of the steps it takes (Script); calls of         *)
(* different Index objects interleave between steps.  One Index makes one    *)
(* call at a time: its methods run in the monitor of its directory.          *)
(* IndexCommit and WriteLock have what is one step here: a commit, an        *)
(* attempt at the write lock.                                                *)
EXTENDS Integers, Sequences, FiniteSets

CONSTANTS
    Facades,      \* the Index objects
    Docs,         \* the documents that are ever added; each is added once
    KeyOf,        \* the value of the id field of every document
    Options       \* the options they are created with: [auto_flush, key]

Keys == {KeyOf[d] : d \in Docs}

ASSUME FacadeConstants ==
    /\ KeyOf \in [Docs -> Keys]
    /\ Options \subseteq [auto_flush : BOOLEAN, key : {"none", "field", "fields"}]

VARIABLES
    disk,         \* the last commit: its live documents; has it any segment?
    lck,          \* is there a write lock file?
    fc,           \* the Index objects
    want,         \* history: the documents the changes so far should leave
    used,         \* history: the documents of the calls so far
    robbed        \* history: a lock file was removed under its holder

vars == <<disk, lck, fc, want, used, robbed>>

-----------------------------------------------------------------------------
(* Readers, writers, facades *)

(* An IndexReader: the documents of the commit it was opened on, those it    *)
(* has deleted since its last commit, whether it found any segment, whether  *)
(* the index was committed by another since, and two fields of FrtIndexReader*)
(* : does it hold the write lock, is its mutex left locked by an error?      *)
NoReader == [on |-> FALSE, view |-> {}, dels |-> {}, segs |-> FALSE, stale |-> FALSE,
             lock |-> FALSE, mutex |-> FALSE]
NewReader(docs, segs) == [NoReader EXCEPT !.on = TRUE, !.view = docs, !.segs = segs]

(* An IndexWriter: its SegmentInfos and its buffered documents. *)
NoWriter == [on |-> FALSE, sis |-> {}, buf |-> {}]
NewWriter(docs) == [NoWriter EXCEPT !.on = TRUE, !.sis = docs]

(* searcher "closed": @searcher is still set, but closed.  status "crashed": *)
(* a closed object was used; "hung": waiting for a mutex it has locked.      *)
(* last: the last call, when it is one that keeps the writer it has opened.  *)
(* seen is history: the commit there was when the reader was made sure of.   *)
Fresh(o) == [open |-> TRUE, opts |-> o, writer |-> NoWriter, reader |-> NoReader,
             searcher |-> "nil", status |-> "ok", script |-> <<>>, last |-> "other",
             seen |-> {}]

Init ==
    /\ disk = [docs |-> {}, segs |-> FALSE]
    /\ lck = FALSE /\ want = {} /\ used = {} /\ robbed = FALSE
    /\ \E o \in [Facades -> Options] : fc = [f \in Facades |-> Fresh(o[f])]

-----------------------------------------------------------------------------
(* The methods *)

(* Somebody lost the write lock, or the process of an Index died in it: what *)
(* follows is the subject of WriteLock and IndexCommit.                      *)
Sane == ~robbed /\ \A f \in Facades : fc[f].status # "crashed"

S(do, arg) == [do |-> do, arg |-> arg]
EW == S("ensure_writer", {})
ER == S("ensure_reader", {})
ES == S("ensure_searcher", {})

AutoFlush_Never(o) == <<>>                   \* mutant: never flushes
AutoFlush(o) == IF o.auto_flush THEN <<S("flush", {})>> ELSE <<>>

QueryDelete(o, ks) == <<EW, ES, S("query_delete", ks)>> \o AutoFlush(o)

(* The existing documents with the key of the new one are deleted first. *)
AddDocument(o, d) ==
    <<EW>>
    \o (CASE o.key = "none"   -> <<>>
          [] o.key = "field"  -> <<S("delete_term", {KeyOf[d]})>>
          [] o.key = "fields" -> QueryDelete(o, {KeyOf[d]}))
    \o <<EW, S("add", {d})>> \o AutoFlush(o)

DeleteTerm(o, k) == <<EW, S("delete_term", {k})>> \o AutoFlush(o)
DeleteNumber(o)  == <<ER, S("delete_number", {})>> \o AutoFlush(o)

(* batch_delete: document numbers first, then terms. *)
BatchDelete(ks) == <<ER, S("delete_number", {}), EW, S("delete_term", ks)>>

UpdateTerm(o, k, d) ==
    <<EW>> \o DeleteTerm(o, k) \o <<S("commit", {}), S("add", {d})>> \o AutoFlush(o)
UpdateNumber(o, d) ==
    <<EW>> \o DeleteNumber(o) \o <<EW, S("add", {d})>> \o AutoFlush(o)
BatchUpdate(d) == <<EW, S("delete_term", {KeyOf[d]}), EW, S("add", {d}), S("flush", {})>>
QueryUpdate(o, ks) == <<EW, ES, S("query_update", ks)>> \o AutoFlush(o)

(* The calls: their steps, their new documents.  Only two leave the writer   *)
(* open with auto_flush: "writer" changes nothing, add_indexes does.         *)
Calls(o) ==
    {<<"other", <<ES, S("search", {})>>, {}>>,       \* search, search_each, scan, explain, ...
     <<"other", <<ER, S("read", {})>>, {}>>,         \* size, each, deleted?, doc(String), ...
     <<"other", <<S("any_reader", {}), S("peek", {})>>, {}>>,         \* doc(Integer)
     <<"other", DeleteNumber(o), {}>>,
     <<"other", BatchDelete(Keys) \o AutoFlush(o), {}>>,
     <<"other", <<S("flush", {})>>, {}>>,
     <<"other", <<EW, S("optimize", {})>>, {}>>,
     <<"writer", <<EW>>, {}>>,                       \* writer, field_infos
     <<"other", <<S("close", {})>>, {}>>}
    \cup {<<"other", DeleteTerm(o, k), {}>> : k \in Keys}
    \cup {<<"other", QueryDelete(o, {k}), {}>> : k \in Keys}
    \cup {<<"other", QueryUpdate(o, {k}), {}>> : k \in Keys}
    \cup UNION {{<<"other", AddDocument(o, d), {d}>>,
                 <<"other", UpdateTerm(o, KeyOf[d], d), {d}>>,
                 <<"other", UpdateNumber(o, d), {d}>>,
                 <<"other", BatchUpdate(d), {d}>>,
                 <<"add_indexes", <<EW, EW, S("add_readers", {d})>>, {d}>>} : d \in Docs \ used}

Call(f) ==
    /\ Sane /\ fc[f].status = "ok" /\ fc[f].script = <<>> /\ fc[f].open
    /\ \E c \in Calls(fc[f].opts) :
         /\ fc' = [fc EXCEPT ![f].script = c[2], ![f].last = c[1]]
         /\ used' = used \cup c[3]
    /\ UNCHANGED <<disk, lck, want, robbed>>

-----------------------------------------------------------------------------
(* What one step does to the Index x that takes it, to the disk and to the   *)
(* lock.  ok: nothing was raised so far; opened: a reader was opened;        *)
(* released: the write lock was given back.                                  *)

Start(f) == [x |-> [fc[f] EXCEPT !.script = Tail(@)], docs |-> disk.docs, segs |-> disk.segs,
             wrote |-> FALSE, lck |-> lck, robbed |-> robbed, ok |-> TRUE, opened |-> FALSE,
             released |-> FALSE]

Then(m, Op(_)) == IF m.ok THEN Op(m) ELSE m

Raise(m)   == [m EXCEPT !.x.script = <<>>, !.ok = FALSE]
End(m, st) == [m EXCEPT !.x.script = <<>>, !.x.status = st, !.ok = FALSE]

(* A commit replaces what is on disk by what the committer knows. *)
Write(m, docs) == [m EXCEPT !.docs = docs, !.segs = TRUE, !.wrote = TRUE]

(* searcher.close if @searcher: frb_sea_close, of a closed one too. *)
CloseSearcher(m) ==
    CASE m.x.searcher = "nil"    -> m
      [] m.x.searcher = "closed" -> End(m, "crashed")
      [] OTHER                   -> [m EXCEPT !.x.searcher = "closed"]

(* frt_ir_commit: has_changes is set while the reader holds the write lock. *)
CommitReader(m) ==
    LET r == m.x.reader
        live == r.view \ r.dels
    IN CASE r.mutex -> End(m, "hung")
         [] r.lock /\ ~r.mutex ->
              [Write(m, live) EXCEPT !.lck = FALSE, !.released = TRUE, !.x.reader.lock = FALSE,
                                     !.x.reader.view = live, !.x.reader.dels = {}]
         [] OTHER -> m

ReaderGone(m) == [m EXCEPT !.x.reader = NoReader]
CloseReader(m) == Then(CommitReader(m), ReaderGone)

(* frt_iw_commit; frt_iw_close *)
CommitWriter(m) ==
    LET live == m.x.writer.sis \cup m.x.writer.buf
    IN IF m.x.writer.buf = {} THEN m
       ELSE [Write(m, live) EXCEPT !.x.writer.sis = live, !.x.writer.buf = {}]

CloseWriter(m) == [CommitWriter(m) EXCEPT !.lck = FALSE, !.released = TRUE, !.x.writer = NoWriter]

(* IndexWriter.new: frt_iw_open removes the lock file it could not create. *)
OpenWriter(m) ==
    IF m.lck THEN [Raise(m) EXCEPT !.lck = FALSE, !.robbed = TRUE]
    ELSE [m EXCEPT !.lck = TRUE, !.x.writer = NewWriter(m.docs)]

OpenReader(m) == [m EXCEPT !.x.reader = NewReader(m.docs, m.segs), !.opened = TRUE]

ForgetSearcher(m) == [m EXCEPT !.x.searcher = "nil"]

EnsureWriterOpen_KeepReader(m) ==             \* mutant: the reader is not closed
    IF m.x.writer.on THEN m ELSE OpenWriter(m)
EnsureWriterOpen(m) ==
    CASE m.x.writer.on -> m
      [] ~m.x.writer.on /\ m.x.reader.on ->
           Then(Then(Then(CloseSearcher(m), CloseReader), ForgetSearcher), OpenWriter)
      [] OTHER -> OpenWriter(m)

(* latest?: a reader of no segments has nothing to compare. *)
IsLatest(r) == r.segs => ~r.stale

EnsureReaderOpen_NotLatest(m) ==              \* mutant: an open reader is good enough
    IF m.x.reader.on THEN m
    ELSE OpenReader(IF m.x.writer.on THEN CloseWriter(m) ELSE m)
EnsureReaderOpen(m) ==
    CASE m.x.reader.on /\ IsLatest(m.x.reader)  -> m
      [] m.x.reader.on /\ ~IsLatest(m.x.reader) ->
           Then(Then(CloseSearcher(m), CloseReader), OpenReader)
      [] OTHER -> OpenReader(IF m.x.writer.on THEN CloseWriter(m) ELSE m)

NewSearcher(m) ==
    IF m.opened \/ m.x.searcher = "nil" THEN [m EXCEPT !.x.searcher = "open"] ELSE m
EnsureSearcherOpen(m) == Then(EnsureReaderOpen(m), NewSearcher)

(* ir_acquire_write_lock in frt_ir_delete_doc: errors leave the mutex locked;*)
(* a reader that is out of date has the lock, and gives it back.             *)
AcquireWriteLock_NoCheck(m) ==                \* mutant: the version is not compared
    CASE m.x.reader.mutex -> End(m, "hung")
      [] m.x.reader.lock /\ ~m.x.reader.mutex -> m
      [] m.lck /\ ~m.x.reader.lock /\ ~m.x.reader.mutex ->
           [Raise(m) EXCEPT !.x.reader.mutex = TRUE]
      [] OTHER -> [m EXCEPT !.lck = TRUE, !.x.reader.lock = TRUE]
AcquireWriteLock(m) ==
    CASE m.x.reader.mutex -> End(m, "hung")
      [] m.x.reader.lock /\ ~m.x.reader.mutex -> m
      [] (m.lck \/ m.x.reader.stale) /\ ~m.x.reader.lock /\ ~m.x.reader.mutex ->
           [Raise(m) EXCEPT !.x.reader.mutex = TRUE, !.released = @ \/ ~m.lck]
      [] OTHER -> [m EXCEPT !.lck = TRUE, !.x.reader.lock = TRUE]

Flush(m) ==
    CASE m.x.reader.on -> Then(Then(CloseSearcher(m), ForgetSearcher), CommitReader)
      [] m.x.writer.on /\ ~m.x.reader.on -> CloseWriter(m)
      [] OTHER -> m

Closed(m) == [m EXCEPT !.x.open = FALSE]
CloseIndex(m) ==
    LET CloseAnyReader(n) == IF n.x.reader.on THEN CloseReader(n) ELSE n
        CloseAnyWriter(n) == IF n.x.writer.on THEN CloseWriter(n) ELSE n
    IN Then(Then(Then(CloseSearcher(m), CloseAnyReader), CloseAnyWriter), Closed)

(* @dir.close() if @close_dir: the last reference to the store goes, and     *)
(* fs_destroy removes the lock files there are.                              *)
CloseDir(m) == [m EXCEPT !.lck = FALSE, !.robbed = @ \/ m.lck]

-----------------------------------------------------------------------------
(* The steps *)

At(f, do) == Sane /\ fc[f].status = "ok" /\ fc[f].script # <<>> /\ Head(fc[f].script).do = do
Arg(f)    == Head(fc[f].script).arg

(* The Index objects that may ask for the write lock at any time. *)
Rivals(f) == {g \in Facades \ {f} : fc[g].open /\ fc[g].status = "ok"}

(* The step of f ends in m: a commit makes the readers of the others stale.  *)
(* To give back the lock is to remove its file twice, release and then       *)
(* frt_close_lock: the file another Index has created in between goes too.   *)
Becomes(f, m) ==
    /\ disk' = [docs |-> m.docs, segs |-> m.segs]
    /\ lck' = m.lck
    /\ \/ robbed' = m.robbed
       \/ m.released /\ Rivals(f) # {} /\ robbed' = TRUE
    /\ fc' = [g \in Facades |->
                CASE g = f                -> m.x
                  [] g # f /\ m.wrote     -> [fc[g] EXCEPT !.reader.stale = fc[g].reader.on]
                  [] OTHER                -> fc[g]]

Keep == UNCHANGED <<want, used>>

EnsureWriter(f) == At(f, "ensure_writer") /\ Becomes(f, EnsureWriterOpen(Start(f))) /\ Keep

(* seen: what is on disk when the reader was made sure of. *)
Seen(m) == [m EXCEPT !.x.seen = m.docs \ m.x.reader.dels]

EnsureReader(f) ==
    At(f, "ensure_reader") /\ Becomes(f, Then(EnsureReaderOpen(Start(f)), Seen)) /\ Keep
EnsureSearcher(f) ==
    At(f, "ensure_searcher") /\ Becomes(f, Then(EnsureSearcherOpen(Start(f)), Seen)) /\ Keep

(* ensure_reader_open(false) *)
AnyReader(f) ==
    /\ At(f, "any_reader")
    /\ Becomes(f, IF fc[f].reader.on THEN Start(f) ELSE EnsureReaderOpen(Start(f)))
    /\ Keep

Done(m) == [m EXCEPT !.x.seen = {}]
Peek(f) == (At(f, "peek") \/ At(f, "read")) /\ Becomes(f, Done(Start(f))) /\ Keep

(* A closed searcher has no FrtSearcher any more. *)
UseSearcher(m) == IF m.x.searcher = "closed" THEN End(m, "crashed") ELSE Done(m)
Search(f) == At(f, "search") /\ Becomes(f, UseSearcher(Start(f))) /\ Keep

(* @writer << doc; the buffer is flushed when it is full. *)
Add(f) ==
    /\ At(f, "add")
    /\ LET m == Start(f)
           b == [m EXCEPT !.x.writer.buf = @ \cup Arg(f)]
       IN IF m.x.writer.on
            THEN /\ Becomes(f, b) \/ Becomes(f, CommitWriter(b))
                 /\ want' = want \cup Arg(f)
            ELSE Becomes(f, Raise(m)) /\ UNCHANGED want
    /\ UNCHANGED used

Commit(f) ==
    /\ At(f, "commit")
    /\ LET m == Start(f) IN Becomes(f, IF m.x.writer.on THEN CommitWriter(m) ELSE Raise(m))
    /\ Keep

WithKey(docs, ks) == {d \in docs : KeyOf[d] \in ks}

(* frt_iw_delete_terms: commit what is buffered, then delete. *)
DeleteTerms(f) ==
    /\ At(f, "delete_term")
    /\ LET m    == CommitWriter(Start(f))
           gone == WithKey(m.x.writer.sis, Arg(f))
           live == m.x.writer.sis \ gone
       IN Becomes(f, IF gone = {} THEN m ELSE [Write(m, live) EXCEPT !.x.writer.sis = live])
    /\ want' = want \ WithKey(want, Arg(f))
    /\ UNCHANGED used

(* The documents in gone are deleted through the reader, one by one. *)
ReaderDeletes(f, m, gone) ==
    LET n == IF gone = {} THEN m ELSE AcquireWriteLock(m)
    IN /\ Becomes(f, IF n.ok THEN [n EXCEPT !.x.reader.dels = @ \cup gone] ELSE n)
       /\ want' = IF n.ok THEN want \ gone ELSE want

(* A document number of the reader that is open now. *)
DeleteDoc(f) ==
    /\ At(f, "delete_number")
    /\ \/ \E d \in fc[f].reader.view : ReaderDeletes(f, Start(f), {d})
       \/ fc[f].reader.view = {} /\ ReaderDeletes(f, Start(f), {})
    /\ UNCHANGED used

Matching(f) == WithKey(fc[f].reader.view \ fc[f].reader.dels, Arg(f))

DeleteByQuery(f) ==
    /\ At(f, "query_delete")
    /\ LET m == UseSearcher(Start(f))
       IN IF m.ok THEN ReaderDeletes(f, m, Matching(f)) ELSE Becomes(f, m) /\ UNCHANGED want
    /\ UNCHANGED used

(* Every match is deleted, and its changed copy, a new document with the     *)
(* same key, is added by the writer.                                         *)
UpdateByQuery(f) ==
    /\ At(f, "query_update")
    /\ LET m == UseSearcher(Start(f))
       IN \/ m.ok /\ \E copies \in SUBSET WithKey(Docs \ used, Arg(f)) :
                 /\ Cardinality(copies) = Cardinality(Matching(f))
                 /\ ReaderDeletes(f, [m EXCEPT !.x.script = <<EW, S("add", copies)>> \o @],
                                  Matching(f))
                 /\ used' = used \cup copies
          \/ ~m.ok /\ Becomes(f, m) /\ UNCHANGED <<want, used>>

FlushStep(f) == At(f, "flush") /\ Becomes(f, Flush(Start(f))) /\ Keep

(* @writer.optimize merges, which commits, unless there is nothing to merge; *)
(* then the writer is closed.                                                *)
Optimize(f) ==
    /\ At(f, "optimize")
    /\ LET m == CommitWriter(Start(f))
       IN \/ Becomes(f, CloseWriter(m))
          \/ m.segs /\ Becomes(f, CloseWriter(Write(m, m.x.writer.sis)))
    /\ Keep

(* @writer.add_readers *)
AddReaders(f) ==
    /\ At(f, "add_readers")
    /\ LET m == CommitWriter(Start(f))
           live == m.x.writer.sis \cup Arg(f)
       IN Becomes(f, [Write(m, live) EXCEPT !.x.writer.sis = live])
    /\ want' = want \cup Arg(f) /\ UNCHANGED used

Close(f) ==
    /\ At(f, "close")
    /\ LET m == CloseIndex(Start(f)) IN Becomes(f, m) \/ Becomes(f, Then(m, CloseDir))
    /\ Keep

Step(f) ==
    \/ Call(f) \/ EnsureWriter(f) \/ EnsureReader(f) \/ EnsureSearcher(f) \/ AnyReader(f)
    \/ Peek(f) \/ Search(f) \/ Add(f) \/ Commit(f) \/ DeleteTerms(f) \/ DeleteDoc(f)
    \/ DeleteByQuery(f) \/ UpdateByQuery(f) \/ FlushStep(f) \/ Optimize(f) \/ AddReaders(f)
    \/ Close(f)

Next == \E f \in Facades : Step(f)

Spec == Init /\ [][Next]_vars

-----------------------------------------------------------------------------
(* Properties *)

(* Type invariant; an open Index has a writer or a reader, never both. *)
TypeOK ==
    /\ disk \in [docs : SUBSET Docs, segs : BOOLEAN]
    /\ lck \in BOOLEAN /\ robbed \in BOOLEAN /\ want \subseteq Docs /\ used \subseteq Docs
    /\ \A f \in Facades :
         /\ fc[f].searcher \in {"nil", "open", "closed"} /\ fc[f].status \in {"ok", "crashed", "hung"}
         /\ ~(fc[f].open /\ fc[f].reader.on /\ fc[f].writer.on)
         /\ fc[f].reader.dels \subseteq fc[f].reader.view

(* The documents of the index, with the changes its writer, or the reader    *)
(* that holds the write lock, has not committed yet.                         *)
Live ==
    LET writers == {f \in Facades : fc[f].writer.on}
        readers == {f \in Facades : fc[f].reader.lock}
    IN CASE writers # {} -> UNION {fc[f].writer.sis \cup fc[f].writer.buf : f \in writers}
         [] writers = {} /\ readers # {} ->
              UNION {fc[f].reader.view \ fc[f].reader.dels : f \in readers}
         [] OTHER -> disk.docs

(* Switching between writer, reader and searcher, flushing, reopening, the   *)
(* buffer filling up: none of it loses a change or brings back a deleted     *)
(* document, whoever else uses the index, as long as nobody's lock file was  *)
(* removed by another: by a writer that failed to open, by the second remove *)
(* of an Index giving back the lock, or by the store of one that closes.     *)
NothingLost == Sane => Live = want

(* "All writes will automatically flush when you perform an operation that   *)
(* reads the index": a reading call sees every commit up to the moment it    *)
(* made sure of its reader, its own changes included.                        *)
ReadsAreFresh ==
    Sane => \A f \in Facades :
        fc[f].reader.segs /\ (At(f, "read") \/ At(f, "search")) =>
            fc[f].reader.view \ fc[f].reader.dels = fc[f].seen

(* With auto_flush no call keeps the write lock when it returns or raises,   *)
(* so that other processes can write, whatever the calls before it left open:*)
(* but for add_indexes, which writes and does not flush ("automatically      *)
(* flushed every time you do a write", index.rb:46-47), and writer and       *)
(* field_infos, which hand out the writer.                                   *)
AutoFlushFreesLock ==
    \A f \in Facades :
        /\ fc[f].opts.auto_flush /\ fc[f].script = <<>> /\ fc[f].status = "ok"
        /\ fc[f].last \notin {"writer", "add_indexes"}
        => ~fc[f].writer.on /\ ~fc[f].reader.lock

=============================================================================
