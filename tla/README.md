# Verification of isomorfeus-ferret

Isomorfeus-Ferret is a full text index: a C extension (`src/ext/isomorfeus_ferret_ext`)
below a thin Ruby layer (`src/lib/isomorfeus/ferret`). This directory holds TLA+ models of
its core, the TLC configurations that check them, and TLAPS proofs. Line numbers below are
those of `frt_index.c` unless another file is named.

## 1. The system

| Part | State | Operations | Interacts with |
|---|---|---|---|
| Store (`frt_store.c`, `frt_fs_store.c`, `frt_ram_store.c`) | named files, lock files | new_output, open_input, remove, exists, each, lock obtain/release/is_locked | everything, by file names; other processes through the directory |
| SegmentInfos (504-1074) | generation, version, name counter, list of segment infos | find the current segments_N, read, write | store |
| Deleter (3487-3719) | set of names to delete | queue, delete, commit, find orphans | store, SegmentInfos |
| IndexWriter (5913-6259) | SegmentInfos, document buffer, deleter, write lock | open, add_doc, flush, merge, delete_term, optimize, add_readers, close | all of the above |
| DocWriter, SegmentMerger, iw_cp_* (5120-5911, 6264-6475) | posting lists, merge queue | invert, flush, merge | store |
| IndexReader: segment and multi reader (3724-4931) | SegmentInfos as of opening, deletions, norms, caches | open, delete_doc, undelete_all, set_norm, commit, close, is_latest | SegmentInfos, deleter, write lock |
| Term enumerators, doc enumerators, vectors | positions in files | next, skip_to, seek | segment files |
| Compound files (`frt_compound_io.c`) | directory of offsets | add_file, close; read only store | store |
| Search (`frt_search.c`, `frt_q_*.c`, `frt_sort.c`, `frt_filter.c`) | scorer trees, hit queue, caches | next, skip_to, score, search | readers |
| Containers (`frt_hash.c`, `frt_priorityqueue.c`, `frt_bitvector.c`, ...) | in-memory | insert, delete, scan | everything |
| Ruby Index (`index.rb`) | at most one of writer, reader/searcher | `<<`, delete, update, search, flush, close | writer, reader, monitor |
| Query parser, analysis, Ruby bindings, vendored stemmers and compressors | | | |

What is hard: an index is shared by processes that have no memory in common. A commit is a
sequence of file operations that can be interrupted anywhere; readers open the files of a
commit one by one while the next commits replace and delete them; the write lock is a file
that outlives a crashed holder; a reader that wants to change the index first has to find
out whether what it knows is still true. `PROJECT.json` lists the hazards line by line.

What makes each part correct:

* commit: the last commit is complete and is found, at every moment and after every crash;
  no file in use is queued or deleted; nothing leaks; every operation ends;
* opening: a reader gets exactly one commit, not older than the last one when it began, or
  an error; every retry goes forward, and opening ends once commits cease;
* lock: at most one process changes the index, on top of the current version; nobody waits
  for ever;
* facade: no change is lost or comes back when an Index switches between writer, reader and
  searcher, a reading call sees all commits, `auto_flush` leaves the lock free;
* reading: what was added is what is read, through skip lists, term index, several segments,
  merges and deletions, in whatever order an enumerator is moved;
* searching: the documents a query means, no others, each once, in order, page by page.

## 2. Modules

### SegmentInfos
The vocabulary: names of data files, `FrtSegmentInfo`, the files `sr_setup_i` opens for a
segment (`SegFiles`), the files `si_delete_files` queues (`SiDeleteFiles`), the files
`frt_deleter_find_deletable_files_i` finds orphaned (`IsDeletable`). Abstractions: the seven
core files of a segment are written, copied and deleted together and are one file; one field
has norms; a file holds the set of documents (or deletions) that its bytes stand for.

### IndexCommit
One process at a time changes the index: an IndexWriter or an IndexReader. `files`,
`segments`, `torn` and `segments_gen` are the directory; `sis`, `pending`, `old_segs`,
`buffer`, `sr` are the memory of the process. An operation (`Flush`, `MergeSegments`,
`DeleteTerm`, `AddReaders`, `CommitReader`) changes the SegmentInfos in memory and enters a
commit; `phase` then walks through the file operations of the commit in the order of the
code:

    write -> torn -> gen -> drop -> purge -> merge -> idle        (writer)
    write -> torn -> gen -> drop -> dropcurr -> idle              (reader)

`write` is every data file, one step each; `torn` is the time between the creation and the
completion of segments_N (1018-1030); `gen` is segments.gen, whose failure is ignored
(1032-1041); `drop` deletes segments_(N-1) (1042-1044); `purge` is
`deleter_commit_pending_deletions`; `dropcurr` is the deletion of `curr_seg_fn` in
`ir_commit_i` (3940); `merge` is the head of the loops of `iw_maybe_merge_segments` and
`iw_optimize_i`. `Crash` may strike in the phases of `CrashPhases`; the directory stays. The
history variable `committed` is the last commit.

`frt_iw_commit`, and the `iw_commit_i` in the other operations of the writer, are `Flush`
steps that have to be taken first (`buffer = {}` in the guards). The merge decisions are
those of the code, exactly.

### IndexOpen, IndexSnapshots
`IndexOpen` adds readers in other processes to `IndexCommit`: the loop of
`sis_find_segments_file` with its three methods, its single retry and its fall back, and
`ir_open_i`, file by file. A turn of the loop is three steps or more: the listing of the directory
(`Find`), the reading of segments.gen and the choice of a generation (`Decide`), then the
segments file; commits fall between them. What a reader sees (`LoadedDocs`) is what the files contain when
it opens them. `IndexSnapshots` is the abstract specification: commits that change the set of
live documents atomically, and readers that show exactly one commit. `ImplementsSnapshots` is
the refinement.

### WriteLock
The lock file and the processes around it: `frt_iw_open`, `ir_acquire_write_lock` with its
version comparison under the lock, `frt_index_is_locked`, `fs_destroy`, the mutex of the
reader, crashes. Giving back the lock is two removes of the file, `Release` (`lock->release`,
`frt_fs_store.c:396`) and `CloseLock` (`frt_close_lock`, whose `fs_close_lock_i` removes it again,
`frt_fs_store.c:417`), in `frt_iw_close`, `ir_commit_i`, the stale branch of
`ir_acquire_write_lock` and the catch of `frt_iw_open`. The file has no owner, so four events
remove the lock of another process: the second remove, when somebody obtained the lock after the
first; giving up waiting (6241); probing (5930); closing a store (`frt_fs_store.c:218`). The
history variable `robbed` has the holders whose file was removed: mutual exclusion is stated for
all others, the absence of lost updates until somebody is robbed.

### IndexFacade
`Index::Index` of `index.rb`, several objects in several processes on one index. A public
method is the sequence of its steps (`AddDocument`, `UpdateTerm`, `QueryUpdate`, ...: the calls
of `ensure_*_open`, writer, reader and `flush` in the order of the Ruby code, per combination of
`auto_flush` and `key`), and steps of different objects interleave. One object makes one call
at a time, as its methods run in the monitor of its directory. A commit and an attempt at the
lock, which IndexCommit and WriteLock take apart, are one step. So is giving the lock back; that
its second remove may hit the lock another Index obtained after the first is a choice of
`Becomes`, open whenever there is another Index that could (`Rivals`): then `robbed` is true and
nothing more is said. Closing the Index also closes its directory (`CloseDir`, index.rb:213), which clears whatever
locks there are, or not (`@close_dir`, or other references to the store). An object has the status "crashed" when it uses a
closed searcher, "hung" when it waits for the mutex an earlier error left locked. The history
variable `want` is what the documents should be.

### PriorityQueue, Scorers, Searching
`PriorityQueue` is the heap of `frt_priorityqueue.c` as operators on sequences, with the order
as a parameter. `Scorers` is the scorer of each kind of query: term, match-all, constant score,
filtered, and the conjunction, disjunction, required/optional, required/excluded, single match
and boolean scorers of `frt_q_boolean.c`. The scorers of a search are nodes of a heap `h`; an
operator takes the heap and a node and returns the heap the call leaves and its answer, so that
the state two scorers share (the coordinator, the bit vector of a cached filter and its cursor)
is shared. `Searching` puts the scorers together as `counting_sum_scorer_create` and
`bq_rewrite` do, and runs `search` and `scan` of IndexSearcher and MultiSearcher on them, with
filter, offset, limit, hit queue, deletions between calls and clauses added to a query after it
was used. A clause's score is its weight (a power of two, so that sums tell clauses apart), the
coordination factor is the number of matching clauses. `Matches` and `Worth` define what a query
means; the properties compare.

### DocNumbers, ReaderDocs
`DocNumbers` is the table of starts and the binary search in it, which MultiReader
(`mr_reader_index_i`) and MultiSearcher (`msea_get_searcher_index`) share. `ReaderDocs` is the
part of a reader that is about document numbers: the deletions of the sub readers, the norms,
`num_docs_cache` and the norms cache, with `delete_doc`, `undelete_all`, `set_norm`, `num_docs`
and `norms` as the code has them. What a writer does between two readers is given there by what
the next reader finds: one more segment (`SegmentAdded`), more deletions (`TermDeleted`), the
last segments as one without their deleted documents and with their norms (`SegmentsMerged`).
`MultiReader` has these in detail, with posting files, enumerators and the merger, and TLC checks
that it implements them (`ImplementsReaderDocs`). The module has no bounds and no recursive
operators, so that its properties are proved for readers of any shape.

### PostingFiles, TermEnums, SegmentMerger, PhraseScorer, MultiReader
`PostingFiles` is what a flush writes: .frq, .prx, .tis, .tix and .tfx as sequences of cells with
the differences, pointers and skip data the code writes. `TermEnums` has the enumerators over
them, `SegmentMerger` the merge of several segments with deletions into one, `PhraseScorer` the
exact and sloppy phrase scorers and `MultipleTermDocPosEnum` below them. `MultiReader` is the
component with state: the segment or multi reader of ReaderDocs, the term dictionaries of its sub
readers, a term enumerator, a document enumerator and a phrase scorer that its caller moves, and a writer that
adds a segment, deletes a term or merges between two readers. Every answer is compared with
`docs`, the documents as they were added, and `gone`, those whose deletion was asked for: `reply`
says whether it was right. Terms are numbers in the order of strcmp; a shared prefix is the
difference of two terms. Calls run to their end, as they hold Ruby's interpreter lock; `Threads`
are the Ruby threads, which have term enumerators of their own in `FrtTermInfosReader`. Calls
that share no state (`Idle`, `NothingUsed`, `Between`) are not interleaved.

### Proof modules
`WriteLockProofs`. `IndexCommitProofs` (types), which `IndexCommitSafety` extends, which
`IndexCommitHistory` extends. `IndexOpenProofs` extends IndexOpen and
`IndexCommitSafety`; `IndexOpenRefinement` extends it and `IndexCommitHistory`.
`IndexFacadeProofs`. `ReaderDocsProofs`. `MC*` modules add only symmetry sets. An operator
with an underscore in its name (`DropPrevious_OffByOne`) is a mutant: a plausible bug that
the property it is paired with in `PROJECT.json` detects.

## 3. Runs

| Run | Shows |
|---|---|
| `commit_compound` | safety of commits with compound files: all reader operations, crashes in every phase except `torn` |
| `commit_plain` | the same without compound files, three documents; all merge branches; every operation ends |
| `open_snapshots` | IndexOpen implements IndexSnapshots, also with crashes before segments_(N-1) is deleted |
| `open_ends` | opening ends once commits cease (`OpenTerminates`), each retry goes forward (`ForwardProgress`); without that crash it is never stale |
| `lock` | mutual exclusion among those whose lock file nobody removed, no lost update until one is removed under its holder, with both removes of every release; attempts end |
| `facade` | two Index objects: `NothingLost`, `ReadsAreFresh`, and with `auto_flush` no call but `add_indexes`, `writer` and `field_infos` keeps the lock (`AutoFlushFreesLock`) |
| `search` | `SearchIsExact`, `ScanIsExact`, `HitsResolve` for all contents of three documents |
| `reader` | `EnumerationIsExact`, `PhrasesAreExact`, `TermsAreExact`, `CachesAreFresh`, `DeletionsAreExact`; MultiReader implements ReaderDocs |

`AddReaders` makes plain segments also under `Format = "compound"`, so `commit_compound`
covers indexes with both formats.

Runs that end in a counterexample, each a disagreement between the code and a sentence of
the repository (quoted in `PROJECT.json`, "findings"):

| Run | Counterexample |
|---|---|
| `commit_torn_reader` | a process dies while it writes segments_(N+1); a reader falls back to segments_N, commits deletions, rewriting segments_(N+1), and deletes it again as `curr_seg_fn` |
| `lock_broken` | two holders of the write lock, after one process gave up waiting for it, probed it, closed a store, or came to the second remove of giving it back |
| `search_conjunction` | `csc_skip_to` overwrites the end that `csc_sort_scorers` found; a scan for two required terms returns a document with one of them |
| `reader_threads` | `tir->field_num` is shared by the threads of a process, the enumerators are not; a lookup is answered from the wrong field |

Seen while modelling, and not a run. Each is excluded from the passing runs at the place named:

* Commits. After the crash of `commit_torn_reader` a writer falls back to segments_N and then
  deletes segments_N, because only the highest name is kept (3702); until its first commit the
  index has no readable segments file (`"torn" \notin CrashPhases`). `si_delete_files` queues
  `_n.del` for a segment that is not compound, while the file is `_n_g.del`; it stays until the
  next writer opens the index (`OnlyDelOrphans` says that nothing else leaks). The fall back from
  segments_1 to segments_0 is never tried (`gen > 1`), while `frt_index_create` starts at
  segments_0.
* Opening. When a process died before it deleted segments_(N-1), a reader whose first attempt
  at N meets a purge opens N-1 although N is complete (`open_ends` has no such crash). After
  `undelete_all` a later deletion writes `_n_0.del` again; a reader that is just opening the
  older commit can then load the new deletions, so `open_snapshots` leaves "undelete" out of
  `ReaderOps`. A reader of an index without segments has no sub readers; `is_latest?` is true for
  ever (`reader.segs` in `ReadsAreFresh`).
* Lock. Every ordinary close of a writer and commit of a reader removes the lock file a second time
  (`robbed`; also in the facade). A reader refused for being stale leaves its mutex locked (3761); closing it, which the
  message asks for, hangs (state "hung").
* Facade. When a reader is replaced inside a method after its searcher was closed, `@searcher`
  still refers to the closed one (index.rb:896-928); the next call uses or closes it
  (status "crashed", after which nothing is said). `update` by term with `auto_flush` flushes in
  `delete`, which sets `@writer` to nil, and then calls `@writer.commit` (index.rb:565-577): it
  raises, after the deletion. `add_indexes` keeps the lock also
  with `auto_flush`, although it writes ("automatically flushed every time you do a write",
  index.rb:46-47), and so do `writer` and `field_infos`, which hand out the writer or read it: these
  three are named in `AutoFlushFreesLock`.
* Search. A cached filter's bit vector has one cursor (`cssc_next`, `frt_q_const_score.c:24`): a
  constant score query finds nothing when it is run again (`last.stale`). Cached bits are not
  updated by deletions. `bq_rewrite` adds a match-all clause to the user's own query when all its
  clauses are prohibited; a clause added later is then no longer needed for a match (`Widened`).
  The example of `frb_search.c:3356` for `scan` starts again at the last document it found and never ends.
* Enumerators. `mtde_seek` for a term no segment has leaves the enumerator it was reading
  (3162); seeking again through `mtde_seek_te` with positions unread leaves `prx_cnt`, and a
  SegmentTermPosEnum has the `seek_te` of a document enumerator: the run seeks again only at the
  end (`MaySeek`, constant `Extra`). A skip interval of 2 or less breaks `stde_skip_to`
  (assumption on `SkipInterval`). `undelete_all` frees the bit vectors open enumerators point to.
  `mr_set_norm_i` drops the cached norms under the sub reader's field number (4663; `Extra`).
* Phrases. `sphsc_phrase_freq` compares a position with one too few of those before it
  (`frt_q_phrase.c:455`): `"a a"~1` matches a document with a single "a", which a comment in
  `sphsc_check_repeats` says is to be avoided; the phrases of the run repeat no term in a sloppy
  phrase. `phsc_skip_to` leaves `first_time` set, so `next` after a `skip_to` that came to the end
  would use a closed enumerator; no caller does.

### Bounds
`MaxGen` and `MaxSeg` bound what an application starts, not the merges that follow. Three
generations are enough for a commit that replaces a deletions or norms file which itself
replaced one, and for a commit after a crash and its clean-up; a fall back needs N > 1, hence
`MaxGen = 3` where it matters; `open_ends` has `MaxGen = 4`, so that the generation moves under a
reader that has already retried. `lock`: three processes, so that one can obtain the lock between
the two removes of another while a third waits, and two versions, one of them old. Two documents give segments with some, all and no deleted
documents; three documents and a merge factor of 2 reach every branch of
`iw_maybe_merge_segments`. `MaxBufferedDocs = 2` gives segments of two sizes.
`facade`: two Index objects and two documents with the same key: a lost update
takes two writers, and with one key every deletion by term or query meets documents of the other
Index. The options combine `auto_flush` with a single key field and its absence with several key
fields, in every pair of the two objects. `search`: three
documents tell skipping over from landing on, every assignment of documents to three leaves is
checked, three clauses give every branch of `counting_sum_scorer_create*`, two levels put every
scorer below every other; two calls for what one call leaves behind; layouts of one index, two
indexes and an empty one between them. `reader`: a skip interval of 3 with up to seven documents
gives two skip entries and a rest; an index interval of 2 with three terms gives an index entry
in the middle of a field; five indexes (one segment, several, one with an empty field, one with a
segment whose documents all go, several indexes with differing field numbers), each with a number
of changes and seeks that lets them meet; the long segment is taken with one change and one seek
and again with two seeks.
`LookAhead` (10 in the code) is 1: what matters is that it is exhausted. Documents and
processes are interchangeable, so symmetry is used where no liveness is checked.

### Fairness
`FairSpec` of IndexCommit: weak fairness of the steps inside an operation; a call that was
made runs, and no step of a commit waits for anyone. `FairOpenSpec`: an opening reader keeps
running; the writer may stop anywhere. It may also go on for ever: a writer that commits during
every attempt keeps the loop of `sis_find_segments_file` running, because each higher generation
resets `retry` (855-857). `OpenTerminates` therefore has a premise, that from some moment on
no segments file is written or deleted; what is left without it is `ForwardProgress`. `FairSpec` of WriteLock: `fs_lock_obtain` makes a
bounded number of attempts, and giving the lock back waits for nobody. Nothing is assumed of applications: nobody has to open, commit or
close anything.

`CHECK_DEADLOCK FALSE` is used where a system may stop: at the bound on versions in
WriteLock, at the bound on calls in Searching, at the bounds when a crash left an index that cannot be opened, and in the liveness run of
IndexOpen, which has no interest in it.

## 4. Proofs

* `LockTypeCorrect`: `Spec => []TypeOK`, any number of processes.
* `MutualExclusion`, `NoLostUpdate`: `LockExcludes` and `HolderIsCurrent` for any number of
  processes, with all events. Neither is inductive alone: a holder is excluded only because
  the lock file exists while there is one, and a holder stays current only because nobody else
  commits. The invariant `LockInv` joins them with "a holder who was not robbed implies the file"
  (`HolderHasFile`): it survives each of the two removes of a release, because a remove robs every
  other holder there is.
* `CommitTypeCorrect`: `Spec => []TypeOK` of IndexCommit, for all documents, configurations,
  crash points and without use of the bounds. It needs `RoleInv` (only a writer merges and
  purges), because a merge changes the list of segments that a reader's changes refer to.
* `CommittedStaysIntact`, `CommitStaysReadable`, `AlwaysRecoverable`, `QueueIsSafe`,
  `ReaderCommitIsKept` (IndexCommitSafety): the safety properties of commits, for all
  documents, configurations, numbers of commits and crash points, assuming only
  `"torn" \notin CrashPhases`: no process dies while its `segments_N` is half written. The
  assumption is needed: `commit_torn_reader` is the counterexample without it. `ReaderCommitIsKept` is the very property `commit_torn_reader` violates.

  None of them is inductive. `CommitInvariant` proves `Inv == TypeOK /\ RoleInv /\ Safe`,
  whose parts say why the others hold: `MemoryInv`, the process's `sis` is the last commit
  except while it writes the next one, and names of segments are below the counter (so a new
  segment overwrites nothing); `StoreInv`, only the `segments_N` being written is above the
  last commit (so the highest one is the one to read); `FilesInv`, what is still to be written
  is not in use, and every file of the next commit is in the store or still to be written (so
  nothing is missing when `segments_N` is complete); `QueueInv`, a queued file belongs to a
  segment already named and a queued `.del` file is older than the current one (so no later
  flush, merge or deletion takes a queued name into use), and the deleter never holds the
  `segments_N` of the last commit. There is one lemma per action; the six operations that
  enter a commit share `StartCommitSafe`, and flush, merge and add_readers also
  `NewSegmentSafe`. The parts of `Inv` were checked with TLC in the configurations of
  `commit_compound` and `commit_plain` before they were proved.

* `OrphansAreDels` (IndexCommitHistory): `OnlyDelOrphans`, without any assumption on crashes.
  The invariant `OrphansInv` says that every file, also one still to be written, is of the
  current segments, queued, of the segment being built, or a `.del` file (`KeptInv`); that the
  counter of every `segments_N` a writer may open is above its segments, so that the segment
  being built has a name of its own (`CountersInv`); and that only `.del` and norms files have
  generations, so that a name tells the file (`NamedFilesInv`).

* `CommitHistory` (IndexCommitHistory): `History` relates a commit to the one before it. A
  commit adds documents, marks some, or expunges marked ones (`ChangeInv`), and writes only
  files of new segments, `.del` files of new generations, or norms that say the same
  (`NamesInv`). Assumed: `"torn" \notin CrashPhases`, `"undelete" \notin ReaderOps`.

* `ReadersDoNotInterfere` (IndexOpenProofs): `OpenSpec => Spec`, which carries every theorem
  about IndexCommit over to an index with readers. `OpenTypeCorrect`: `OpenTypeOK`; the highest
  generation a reader computes is a number because the generations in the store are bounded.

* `OpenStaysFresh`: `OpenIsFresh`, assuming that no process dies between the creation of
  `segments_N` and the deletion of `segments_(N-1)`
  (`CrashPhases \cap {"torn", "gen", "drop"} = {}`). With "drop" TLC finds the counterexample
  described in section 3. The invariant (`Fresh`): versions and generations go together, no
  file is below the last commit except the one just replaced, and a reader never looks below
  the generation of its start; when it falls back after an error, the file that failed had been
  replaced, so the fall back is not older than its start either.

* `OpenGoesForward`: `ForwardProgress`, assuming `"torn" \notin CrashPhases`; a half written
  `segments_N` left by a crash is deleted later, and the highest generation goes back. The
  invariant (`Forwards`): the generation a reader has in hand is not below the last one it tried,
  and until it asks segments.gen it is not above the highest in the directory, which never falls,
  whatever is committed between its steps.

* `OpenImplementsSnapshots` (IndexOpenRefinement): IndexOpen implements IndexSnapshots, as an
  implication between the specifications, for any number of readers, documents and commits.
  Assumed: `"torn" \notin CrashPhases` and `"undelete" \notin ReaderOps`; with either TLC finds
  a counterexample. `SnapshotInv` says that every complete `segments_N` in the store, and every
  one a reader has read, is a recorded commit whose files are gone or still have their content
  (`IsCommit`), and that a reader has read what that commit wrote (`ReadRight`). Then a step
  maps to a commit of IndexSnapshots when `frt_sis_write` completes `segments_N`, to opening when
  the last file is open, and to stuttering otherwise.

* `FacadeTypeCorrect`, `NothingIsLost`, `ReadsStayFresh`, `AutoFlushFrees`
  (IndexFacadeProofs): the four properties of the `facade` run, for any number of Index
  objects, documents, keys and options. `Inv` has the types; `IndexInv`, a condition on each
  Index alone: a writer or a reader and nothing uncommitted in what is not there (`Coherent`),
  every step of a script comes after one that provides what it needs, the next step has what it
  needs, and with `auto_flush` every call but the three named in `AutoFlushFreesLock` ends with a flush or
  with steps that take no lock, or close the Index (`Ready`, `EndsFlushed`); and, while nobody was
  robbed and nobody used a closed searcher, `LockInv`: one holder of the lock, the lock file
  exactly while there is one, the holder knows the last commit and its changes make `want`, and
  a reader that is not stale has the last commit. The proof has one lemma per operator of the
  model (`Sound`: what holds in the middle of a step), one that takes them to the next state
  (`BecomesInv`), one per action, and lemmas on the shape of each method's script.

* `SearchResolves` (ReaderDocsProofs): `IndexOf(Starts(sizes), d)` is the part that has document
  `d`, for every sequence of sizes, with empty parts at the beginning, in the middle and at the
  end. It is what `ReaderIndex` and Searching's `SearcherIndex` rest on. The argument
  (`SearchInv`): parts before `lo` start at or below `d`, parts behind `hi` above it; a turn makes
  the interval smaller, so `Len(sizes)` turns are enough, and then `hi` is the last part that
  starts at or below `d`; a match goes on to the last part with that start, the only one of them
  that may have documents.

* `ReaderTypes`, `DeletionsExact`, `CachesFresh` (ReaderDocsProofs): `TypeOK`,
  `DeletionsAreExact` and `CachesAreFresh` of ReaderDocs, for readers over any number of segments
  of any sizes, fields and field number maps, and any sequence of calls, flushes and merges. The
  only restriction is in the specification: a norm is set for a field that has the same number in
  the sub reader, since `mr_set_norm_i` drops the wrong cached norms otherwise (section 3).
  `CachesAreFresh` speaks of the last answer and is not inductive; neither are the others. `IInv`
  says of the state behind the answers: sub reader by sub reader, number `starts[i] + k` is in
  `gone` exactly if bit `k` is set (`DelsAgree`); each norm in a sub reader is the one flushed
  or set for that document and field (`NormsAgree`); `num_docs_cache` is -1 or the number of all
  documents less the deleted ones (`CountAgrees`); cached norms are the norms of the moment
  (`CacheAgrees`). `LiveCount` shows that the sum over the sub readers in `mr_num_docs` is that
  number, from disjoint ranges of document numbers. The hardest step is the merge, which renumbers:
  the new number of a document is its rank among those left, ranks are different and leave no gap
  (`RankApart`, `RankOnto`), so deletions and norms move with their documents.

  MultiReader implements ReaderDocs in the instance TLC checks, so the theorems say of the detailed
  model: as long as flush, `frt_iw_delete_term` and the merger keep the promises of
  `SegmentAdded`, `TermDeleted` and `SegmentsMerged`, no shape of index and no order of calls
  breaks document numbers, deletions or caches.

The inductive invariants also hold in TLC on the instances of the runs (within the assumptions of
their theorems), `OrphansInv` with "torn" crashes too.

Assumptions used: those named in the modules (`CommitConstants`, `LockConstants`,
`OpenConstants`, `FacadeConstants`), in particular a merge factor of at least 2, as
`frb_index.c:2626` demands.

Only model-checked: liveness (`OperationEnds`, `OpenTerminates`, `AttemptEnds`); what
enumerators, phrases, scorers and searchers answer (`EnumerationIsExact`, `PhrasesAreExact`,
`TermsAreExact`, `SearchIsExact`, `ScanIsExact`, `HitsResolve`, `TypeOK` of Searching), and that
MultiReader implements ReaderDocs. The operators of these modules walk through posting files,
queues and trees of scorers with RECURSIVE operators, which TLAPS does not support, and what they
compute takes induction over that data. `HitsResolve` is proved in its core: its `SearcherIndex`
is the `IndexOf` of `SearchResolves`.

## 5. Not modelled

Exceptions of the store inside a process (disk full); the RAM store, the directory of a compound
file and the encoding of numbers, which are storage formats below the cells of `PostingFiles`;
several threads in one process on one writer (they serialise on `iw->mutex`); stored fields, term
vectors and highlighting; `iw_cp_*`; span, range, fuzzy, wildcard and multi term queries; sorting,
post filters, explanations and floating point weights; hash tables and memory pools; query
parsing, analysis, the Ruby bindings, and vendored code (the stemmers, brotli, bzip2 and lz4 make
up most of the lines of `ext`). `PROJECT.json` gives the reason for each component. In the facade:
`persist`, and calls made from inside the block of `search_each`.

## 6. Plan

1. (done) SegmentInfos, IndexCommit, IndexOpen over IndexSnapshots, WriteLock; types and
   safety of commits and of the lock proved.
2. (done) IndexFacade over reader, writer and lock; scorers and searchers against the meaning of
   queries; posting files, enumerators, merger, phrases and readers against the documents added.
3. (done) Proofs of the facade, of opening, of the refinement of IndexSnapshots and of
   `OnlyDelOrphans`: every safety property of these modules that a run checks is a theorem.
   Document numbers, deletions and caches of a reader as a module of their own, ReaderDocs, with
   its properties proved and MultiReader checked against it.
4. Span queries; add_readers with deletions (`iw_cp_*`); hash table with deletions; RAM store
   reference counts; merge target overflow with 32 bit integers.
