------------------------- MODULE IndexOpenRefinement -------------------------
(* Commits are atomic and a reader sees exactly one of them, for every set   *)
(* of documents, configuration and number of readers: IndexOpen implements   *)
(* IndexSnapshots, as long as no process dies while its segments_N is half   *)
(* written and nobody undeletes (undeleting takes the generations of .del    *)
(* files back, so that a later deletion writes a file a reader may still be  *)
(* opening).                                                                 *)
EXTENDS IndexOpenProofs, IndexCommitHistory

(* s is a former commit, or the last one: its segments are gone or have the  *)
(* documents they had, and its files are gone or have the content they had.  *)
Past(s) ==
    \A n \in DOMAIN s.segs :
        /\ n < committed.counter
        /\ n \in DOMAIN committed.segs => /\ s.segs[n].docs = committed.segs[n].docs
                                          /\ s.segs[n].del_gen <= committed.segs[n].del_gen
Stable(s) ==
    \A n \in DOMAIN s.segs : \A f \in SegFiles(n, s.segs[n]) :
        f \in DOMAIN files => files[f] = Content(s.segs[n], f)

Recorded(s) == s.version \in DOMAIN commits /\ commits[s.version] = LiveDocs(s.segs)

IsCommit(s) == IsSis(s) /\ Apart(s.segs) /\ Past(s) /\ Stable(s) /\ Recorded(s)

CommitsInv ==
    /\ commits = [v \in DOMAIN commits |-> commits[v]]
    /\ \A v \in DOMAIN commits : v \in Nat /\ v <= committed.version
    /\ \A g \in DOMAIN segments \ torn : IsCommit(segments[g])

(* A reader has read what the commit it is opening wrote. *)
ReadRight(l) ==
    l.pc = "load" =>
        /\ IsCommit(l.sis)
        /\ \A n \in DOMAIN l.sis.segs : \A f \in SegFiles(n, l.sis.segs[n]) \ l.toOpen :
               l.loaded[f] = Content(l.sis.segs[n], f)

SnapshotInv == CommitsInv /\ \A r \in Readers : ReadRight(rd[r])

-----------------------------------------------------------------------------
(* A commit that a reader may be opening stays what it is *)

LEMMA FilesStep ==
    ASSUME [Next]_vars
    PROVE  files' = files \/ WriteFile \/ PurgeFile \/ \E d \in Docs : AddDoc(d)
BY DEF Next, WriterStep, ReaderStep, CommitStep, OpenWriter, Flush, Optimize, CloseWriter,
       DeleteTerm, AddReaders, OpenReader, UndeleteAll, CommitReader, CloseReader,
       SetNorm, DeleteDoc, ChangeReader, MaybeMerge, OptimizeStep, MergeSegments, EndMerges,
       StartCommit, BeginSegments, EndSegments, WriteGen, DropPrevious,
       DropCurrent, PurgeSegments, EndPurge, Crash, vars, store

LEMMA StaysPast ==
    ASSUME Inv, History, [Next]_vars, NEW s, IsSis(s), Past(s)
    PROVE  Past(s)'
<1>1. CASE committed' = committed
  BY <1>1 DEF Past
<1>2. CASE EndSegments
  <2>1. phase = "torn" /\ committed' = sis
    BY <1>2 DEF EndSegments
  <2>2. Continues(committed, sis)
    BY <2>1 DEF History, NamesInv
  <2>3. /\ committed.counter \in Nat /\ sis.counter \in Nat
        /\ \A n \in DOMAIN committed.segs : committed.segs[n].del_gen \in Int
        /\ \A n \in DOMAIN sis.segs : sis.segs[n].del_gen \in Int
        /\ \A n \in DOMAIN s.segs : n \in Nat /\ s.segs[n].del_gen \in Int
    BY SisTypes DEF Inv, IsSis, IsMap, SegInfo
  <2>4. ASSUME NEW n \in DOMAIN s.segs
        PROVE  /\ n < sis.counter
               /\ n \in DOMAIN sis.segs => /\ s.segs[n].docs = sis.segs[n].docs
                                           /\ s.segs[n].del_gen <= sis.segs[n].del_gen
    <3>1. /\ n < committed.counter
          /\ n \in DOMAIN committed.segs => /\ s.segs[n].docs = committed.segs[n].docs
                                            /\ s.segs[n].del_gen <= committed.segs[n].del_gen
      BY DEF Past
    <3>2. n < sis.counter
      BY <2>2, <2>3, <3>1 DEF Continues
    <3>3. ASSUME n \in DOMAIN sis.segs
          PROVE  s.segs[n].docs = sis.segs[n].docs /\ s.segs[n].del_gen <= sis.segs[n].del_gen
      <4>1. /\ n \in DOMAIN committed.segs /\ sis.segs[n].docs = committed.segs[n].docs
            /\ sis.segs[n].del_gen >= committed.segs[n].del_gen
        BY <2>2, <2>3, <3>1, <3>3 DEF Continues
      <4> QED BY <2>3, <3>1, <3>3, <4>1
    <3> QED BY <3>2, <3>3
  <2> QED BY <2>1, <2>4 DEF Past
<1> QED BY <1>1, <1>2, CommittedStep

(* No file of a commit is written with another content. *)
LEMMA WrittenIsNotRead ==
    ASSUME Inv, NEW s, IsSis(s), Past(s), NEW n \in DOMAIN s.segs, NEW f \in SegFiles(n, s.segs[n]),
           NEW c, NeverRead(f, c)
    PROVE  c = Content(s.segs[n], f)
<1>1. /\ n \in Nat /\ s.segs[n] \in SegInfo /\ committed.counter \in Nat
      /\ n < committed.counter
      /\ n \in DOMAIN committed.segs => /\ s.segs[n].docs = committed.segs[n].docs
                                        /\ s.segs[n].del_gen <= committed.segs[n].del_gen
                                        /\ committed.segs[n].del_gen \in Int
                                        /\ s.segs[n].del_gen \in Int
  BY SisTypes DEF Inv, IsSis, IsMap, Past, SegInfo
<1>2. f.seg = n /\ (f.kind = "del" => f.gen = s.segs[n].del_gen)
  BY <1>1, SegFilesAre
<1> QED BY <1>1, <1>2 DEF NeverRead, Content

LEMMA StaysStable ==
    ASSUME Inv, History, [Next]_vars, NEW s, IsSis(s), Past(s), Stable(s)
    PROVE  Stable(s)'
<1> SUFFICES ASSUME NEW n \in DOMAIN s.segs, NEW f \in SegFiles(n, s.segs[n]), f \in DOMAIN files'
             PROVE  files'[f] = Content(s.segs[n], f)
  BY DEF Stable
<1>1. f \in DOMAIN files => files[f] = Content(s.segs[n], f)
  BY DEF Stable
<1>2. CASE files' = files
  BY <1>1, <1>2
<1>3. CASE PurgeFile
  BY <1>1, <1>3 DEF PurgeFile, Without
<1>4. CASE WriteFile
  <2>1. PICK g \in DOMAIN todo : files' = Put(files, g, todo[g])
    BY <1>4 DEF WriteFile
  <2>2. phase = "write"
    BY <1>4 DEF WriteFile
  <2>3. NeverRead(g, todo[g])
    BY <2>2 DEF History, NamesInv, NoneRead
  <2>4. CASE f = g
    <3>1. files'[f] = todo[g]
      BY <2>1, <2>4 DEF Put
    <3> QED BY <2>3, <2>4, <3>1, WrittenIsNotRead
  <2>5. CASE f # g
    BY <1>1, <2>1, <2>5 DEF Put
  <2> QED BY <2>4, <2>5
<1>5. ASSUME NEW d \in Docs, AddDoc(d) PROVE files'[f] = Content(s.segs[n], f)
  <2>1. files' = Put(files, CoreFile(sis.counter), buffer') /\ sis = committed
    BY <1>5 DEF AddDoc, Idle, Inv, Safe, MemoryInv
  <2>2. /\ n \in Nat /\ s.segs[n] \in SegInfo /\ sis.counter \in Nat /\ n < sis.counter
    BY <2>1, SisTypes DEF Inv, IsSis, IsMap, Past
  <2>3. f.seg = n /\ CoreFile(sis.counter).seg = sis.counter
    BY <2>2, SegFilesAre, FileNames
  <2> QED BY <1>1, <2>1, <2>2, <2>3 DEF Put
<1> QED BY <1>2, <1>3, <1>4, <1>5, FilesStep

(* The history of the commits. *)
LEMMA LastIsCommit ==
    ASSUME Inv, CommitsInv
    PROVE  IsCommit(committed)
<1>1. /\ committed.generation \in DOMAIN segments \ torn
      /\ segments[committed.generation] = committed
  BY DEF Inv, Safe, StoreInv, CommitReadable, Readable
<1> QED BY <1>1 DEF CommitsInv

LEMMA CommitsStep ==
    ASSUME Inv, History, CommitsInv, [Next]_vars,
           commits' = Put(commits, committed'.version, LiveDocs(committed'.segs))
    PROVE  /\ committed' = committed => commits' = commits
           /\ EndSegments => /\ committed' = sis /\ committed'.version = committed.version + 1
                             /\ committed'.version \notin DOMAIN commits
           /\ \A v \in DOMAIN commits : v \in DOMAIN commits' /\ commits'[v] = commits[v]
<1> DEFINE v == committed'.version
           D == LiveDocs(committed'.segs)
<1>1. /\ commits = [u \in DOMAIN commits |-> commits[u]] /\ committed.version \in Nat
      /\ \A u \in DOMAIN commits : u \in Nat /\ u <= committed.version
  BY DEF CommitsInv, Inv, TypeOK, IsSis
<1>2. committed' = committed => v \in DOMAIN commits /\ commits[v] = D
  BY LastIsCommit DEF IsCommit, Recorded
<1>3. EndSegments => /\ committed' = sis /\ v = committed.version + 1 /\ v \notin DOMAIN commits
  <2> SUFFICES ASSUME EndSegments
               PROVE  committed' = sis /\ v = committed.version + 1 /\ v \notin DOMAIN commits
    OBVIOUS
  <2>1. phase = "torn" /\ committed' = sis
    BY DEF EndSegments
  <2>2. v = committed.version + 1
    BY <2>1 DEF History, ChangeInv
  <2> QED BY <1>1, <2>1, <2>2
<1>4. commits' = Put(commits, v, D)
  OBVIOUS
<1> HIDE DEF v, D
<1>5. committed' = committed => commits' = commits
  <2> SUFFICES ASSUME committed' = committed PROVE commits' = commits
    OBVIOUS
  <2>1. v \in DOMAIN commits /\ commits[v] = D
    BY <1>2
  <2>2. commits' = [u \in DOMAIN commits |-> commits[u]]
    BY <1>4, <2>1 DEF Put
  <2> QED BY <1>1, <2>2
<1>6. EndSegments => \A u \in DOMAIN commits : u \in DOMAIN commits' /\ commits'[u] = commits[u]
  BY <1>3, <1>4 DEF Put
<1> QED BY <1>3, <1>5, <1>6, CommittedStep DEF v

LEMMA StaysCommit ==
    ASSUME Inv, History, CommitsInv, [Next]_vars,
           commits' = Put(commits, committed'.version, LiveDocs(committed'.segs)),
           NEW s, IsCommit(s)
    PROVE  IsCommit(s)'
<1>1. Past(s)' /\ Stable(s)'
  BY StaysPast, StaysStable DEF IsCommit
<1>2. Recorded(s)'
  BY CommitsStep DEF IsCommit, Recorded
<1> QED BY <1>1, <1>2 DEF IsCommit

(* The segments file that has just been completed is a commit. *)
LEMMA NewIsCommit ==
    ASSUME Inv, Inv', History, EndSegments,
           commits' = Put(commits, committed'.version, LiveDocs(committed'.segs))
    PROVE  IsCommit(sis)'
<1>1. phase = "torn" /\ committed' = sis /\ sis' = sis /\ files' = files
  BY DEF EndSegments, memory
<1>2. IsSis(sis) /\ Apart(sis.segs) /\ Intact(sis.segs) /\ \A n \in DOMAIN sis.segs : n < sis.counter
  BY <1>1 DEF Inv, TypeOK, History, DocsInv, Safe, FilesInv, MemoryInv
<1>3. Past(sis)'
  <2>1. \A n \in DOMAIN sis.segs : sis.segs[n].del_gen \in Int
    BY <1>2 DEF IsSis, IsMap, SegInfo
  <2> QED BY <1>1, <1>2, <2>1 DEF Past
<1>4. Stable(sis)'
  BY <1>1, <1>2 DEF Stable, Intact
<1>5. Recorded(sis)'
  BY <1>1 DEF Recorded, Put
<1> QED BY <1>1, <1>2, <1>3, <1>4, <1>5 DEF IsCommit

(* A segments file that can be read could be read before the step. *)
LEMMA SegmentsStep ==
    ASSUME [Next]_vars, NEW g \in DOMAIN segments' \ torn'
    PROVE  \/ g \in DOMAIN segments \ torn /\ segments'[g] = segments[g]
           \/ EndSegments /\ g = sis.generation /\ segments' = segments
<1>1. CASE BeginSegments
  <2> DEFINE new == Sis(sis.generation + 1, sis.version + 1, sis.counter, sis.segs)
  <2>1. segments' = Put(segments, new.generation, new) /\ torn' = torn \cup {new.generation}
    BY <1>1 DEF BeginSegments
  <2> HIDE DEF new
  <2> QED BY <2>1 DEF Put
<1>2. CASE DropPrevious \/ DropCurrent \/ PurgeSegments
  <2>1. PICK h : segments' = Without(segments, {h}) /\ torn' = torn \ {h}
    BY <1>2 DEF DropPrevious, DropCurrent, PurgeSegments
  <2> QED BY <2>1 DEF Without
<1>3. CASE EndSegments
  BY <1>3 DEF EndSegments
<1>4. CASE ~(BeginSegments \/ EndSegments \/ DropPrevious \/ DropCurrent \/ PurgeSegments)
  <2>1. segments' = segments /\ torn' = torn
    BY <1>4
       DEF Next, WriterStep, ReaderStep, CommitStep, OpenWriter, Flush, Optimize, CloseWriter,
           AddDoc, DeleteTerm, AddReaders, OpenReader, UndeleteAll, CommitReader, CloseReader,
           SetNorm, DeleteDoc, ChangeReader, MaybeMerge, OptimizeStep, MergeSegments, EndMerges,
           StartCommit, WriteFile, WriteGen, PurgeFile, EndPurge, Crash, vars, store
  <2> QED BY <2>1
<1> QED BY <1>1, <1>2, <1>3, <1>4

LEMMA CommitsInvStep ==
    ASSUME Inv, Inv', History, CommitsInv, [Next]_vars,
           commits' = Put(commits, committed'.version, LiveDocs(committed'.segs))
    PROVE  CommitsInv'
<1>1. commits' = [v \in DOMAIN commits' |-> commits'[v]]
  BY DEF Put
<1>2. ASSUME NEW v \in DOMAIN commits' PROVE v \in Nat /\ v <= committed'.version
  <2>1. committed'.version \in Nat /\ committed.version \in Nat
    BY DEF Inv, TypeOK, IsSis
  <2>2. v \in DOMAIN commits \/ v = committed'.version
    BY DEF Put
  <2>3. committed' = committed \/ committed'.version = committed.version + 1
    BY CommitsStep, CommittedStep
  <2> QED BY <2>1, <2>2, <2>3 DEF CommitsInv
<1>3. ASSUME NEW g \in DOMAIN segments' \ torn' PROVE IsCommit(segments[g])'
  <2>1. CASE g \in DOMAIN segments \ torn /\ segments'[g] = segments[g]
    <3>1. PICK s : s = segments[g]
      OBVIOUS
    <3>2. IsCommit(s)
      BY <2>1, <3>1 DEF CommitsInv
    <3>3. IsCommit(s)'
      BY <3>2, StaysCommit
    <3> QED BY <2>1, <3>1, <3>3
  <2>2. CASE EndSegments /\ g = sis.generation /\ segments' = segments
    <3>1. phase = "torn" /\ sis' = sis
      BY <2>2 DEF EndSegments, memory
    <3>2. segments'[g] = sis'
      BY <2>2, <3>1 DEF Inv, Safe, StoreInv
    <3>3. IsCommit(sis)'
      BY <2>2, NewIsCommit
    <3> QED BY <3>2, <3>3
  <2> QED BY <2>1, <2>2, SegmentsStep
<1> QED BY <1>1, <1>2, <1>3 DEF CommitsInv

-----------------------------------------------------------------------------
(* The readers *)

LEMMA SetKeepsRight ==
    ASSUME ReadersInv, SnapshotInv, NEW r \in Readers, NEW new, Set(r, new), ReadRight(new)
    PROVE  SnapshotInv'
<1>1. rd' = [rd EXCEPT ![r] = new] /\ rd = [q \in Readers |-> rd[q]] /\ UNCHANGED <<vars, commits>>
  BY DEF Set, ReadersInv
<1>2. \A q \in Readers : rd'[q] = IF q = r THEN new ELSE rd[q]
  BY <1>1
<1>3. UNCHANGED <<files, segments, torn, committed, commits>>
  BY <1>1 DEF vars, store
<1>4. CommitsInv'
  BY <1>3 DEF SnapshotInv, CommitsInv, IsCommit, Past, Stable, Recorded
<1>5. \A q \in Readers : ReadRight(rd'[q])
  BY <1>2 DEF SnapshotInv
<1>6. \A q \in Readers : ReadRight(rd[q])'
  BY <1>3, <1>5 DEF ReadRight, IsCommit, Past, Stable, Recorded
<1> QED BY <1>4, <1>6 DEF SnapshotInv

LEMMA OpeningStepRight ==
    ASSUME Inv, Bounded, ReadersInv, SnapshotInv, NEW r \in Readers, OpeningStep(r)
    PROVE  SnapshotInv'
<1> DEFINE l == rd[r]
<1>1. TypeOK /\ IsReader(l) /\ IsLoading(l) /\ ReadRight(l) /\ CommitsInv
  BY DEF Inv, ReadersInv, SnapshotInv
<1>2. CASE Open(r)
  <2>1. PICK m : m.pc = "find" /\ Set(r, m)
    BY <1>1, <1>2, OpenIs
  <2> QED BY <2>1, SetKeepsRight DEF ReadRight
<1>3. CASE Find(r)
  <2>1. PICK m : m.pc \in {"failed", "found"} /\ Set(r, m)
    BY <1>1, <1>3, FindIs
  <2> QED BY <2>1, SetKeepsRight DEF ReadRight
<1>9. CASE Decide(r)
  <2>1. PICK m : m.pc \in {"failed", "read"} /\ Set(r, m)
    BY <1>1, <1>9, DecideIs
  <2> QED BY <2>1, SetKeepsRight DEF ReadRight
<1>4. CASE ReadSegments(r)
  <2>1. PICK m : /\ m.pc \in {"load", "caught"} /\ Set(r, m)
                 /\ m.pc = "load" => /\ Readable(m.run) /\ m.sis = segments[m.run]
                                     /\ m.toOpen = SisFiles(m.sis.segs)
    BY <1>1, <1>4, ReadSegmentsIs
  <2>2. m.pc = "load" => IsCommit(m.sis)
    BY <1>1, <2>1 DEF Readable, CommitsInv
  <2>3. m.pc = "load" => \A n \in DOMAIN m.sis.segs : SegFiles(n, m.sis.segs[n]) \ m.toOpen = {}
    BY <2>1, InSisFiles
  <2>4. ReadRight(m)
    BY <2>2, <2>3 DEF ReadRight
  <2> QED BY <2>1, <2>4, SetKeepsRight
<1>5. CASE LoadFile(r)
  <2>1. PICK m, f : /\ m.pc \in {"load", "caught"} /\ Set(r, m) /\ f \in l.toOpen
                    /\ m.pc = "load" => /\ m.sis = l.sis /\ f \in DOMAIN files
                                        /\ m.toOpen = l.toOpen \ {f}
                                        /\ m.loaded = Put(l.loaded, f, files[f])
    BY <1>1, <1>5, LoadFileIs
  <2>2. l.pc = "load"
    BY <1>5 DEF LoadFile
  <2>3. IsCommit(l.sis) /\ Stable(l.sis)
    BY <1>1, <2>2 DEF ReadRight, IsCommit
  <2>4. ASSUME m.pc = "load", NEW n \in DOMAIN m.sis.segs,
               NEW h \in SegFiles(n, m.sis.segs[n]) \ m.toOpen
        PROVE  m.loaded[h] = Content(m.sis.segs[n], h)
    <3>1. CASE h = f
      <4>1. m.loaded[h] = files[h]
        BY <2>1, <2>4, <3>1 DEF Put
      <4> QED BY <2>1, <2>3, <2>4, <3>1, <4>1 DEF Stable
    <3>2. CASE h # f
      <4>1. h \in SegFiles(n, l.sis.segs[n]) \ l.toOpen /\ n \in DOMAIN l.sis.segs
        BY <2>1, <2>4, <3>2
      <4>2. l.loaded[h] = Content(l.sis.segs[n], h)
        BY <1>1, <2>2, <4>1 DEF ReadRight
      <4>3. h \in DOMAIN l.loaded
        BY <1>1, <2>2, <4>1, InSisFiles DEF IsLoading
      <4>4. m.loaded[h] = l.loaded[h]
        BY <2>1, <2>4, <3>2, <4>3 DEF Put
      <4> QED BY <2>1, <2>4, <4>2, <4>4
    <3> QED BY <3>1, <3>2
  <2>5. ReadRight(m)
    BY <2>1, <2>3, <2>4 DEF ReadRight
  <2> QED BY <2>1, <2>5, SetKeepsRight
<1>6. CASE EndLoad(r)
  <2>1. PICK m : m.pc = "open" /\ Set(r, m)
    BY <1>1, <1>6, EndLoadIs
  <2> QED BY <2>1, SetKeepsRight DEF ReadRight
<1>7. CASE Fallback(r)
  <2>1. PICK m : m.pc \in {"read", "find"} /\ Set(r, m)
    BY <1>1, <1>7, FallbackIs
  <2> QED BY <2>1, SetKeepsRight DEF ReadRight
<1>8. CASE Close(r)
  BY <1>8, ClosedReaderType, SetKeepsRight DEF Close, ReadRight
<1> QED BY <1>2, <1>3, <1>4, <1>5, <1>6, <1>7, <1>8, <1>9 DEF OpeningStep

LEMMA OpenStepRight ==
    ASSUME Inv, Inv', History, Bounded, ReadersInv, SnapshotInv, [OpenNext]_openVars
    PROVE  SnapshotInv'
<1>1. CASE Commits
  <2>1. /\ rd' = rd /\ [Next]_vars /\ CommitsInv
        /\ commits' = Put(commits, committed'.version, LiveDocs(committed'.segs))
    BY <1>1 DEF Commits, SnapshotInv
  <2>2. CommitsInv'
    BY <2>1, CommitsInvStep
  <2>3. ASSUME NEW r \in Readers PROVE ReadRight(rd[r])'
    <3>1. PICK l : l = rd[r]
      OBVIOUS
    <3>2. ReadRight(l)
      BY <3>1 DEF SnapshotInv
    <3>3. l.pc = "load" => IsCommit(l.sis)'
      <4> SUFFICES ASSUME l.pc = "load" PROVE IsCommit(l.sis)'
        OBVIOUS
      <4>1. IsCommit(l.sis)
        BY <3>2 DEF ReadRight
      <4> QED BY <2>1, <4>1, StaysCommit
    <3>4. ReadRight(l)'
      BY <3>2, <3>3 DEF ReadRight
    <3> QED BY <2>1, <3>1, <3>4
  <2> QED BY <2>2, <2>3 DEF SnapshotInv
<1>2. CASE UNCHANGED openVars
  <2>1. UNCHANGED <<files, segments, torn, committed, commits, rd>>
    BY <1>2 DEF openVars, vars, store
  <2> QED BY <2>1 DEF SnapshotInv, CommitsInv, ReadRight, IsCommit, Past, Stable, Recorded
<1> QED BY <1>1, <1>2, OpeningStepRight DEF OpenNext

LEMMA OpenInitRight == OpenInit => SnapshotInv
<1> SUFFICES ASSUME OpenInit PROVE SnapshotInv
  OBVIOUS
<1> DEFINE empty == Sis(0, 1, 0, NoSegs)
<1>1. empty.version = 1 /\ DOMAIN empty.segs = {} /\ IsSis(empty)
  <2>1. IsMap(NoSegs, Nat, SegInfo)
    BY DEF IsMap, NoSegs
  <2> QED BY <2>1, SisFields, SisType DEF NoSegs
<1> HIDE DEF empty
<1>2. /\ segments = [g \in {0} |-> empty] /\ committed = empty
      /\ rd = [r \in Readers |-> ClosedReader] /\ commits = [v \in {1} |-> {}]
  BY <1>1 DEF OpenInit, Init, empty
<1>3. LiveDocs(empty.segs) = {}
  BY <1>1 DEF LiveDocs
<1>4. IsCommit(empty)
  BY <1>1, <1>2, <1>3 DEF IsCommit, Apart, Past, Stable, Recorded
<1>5. CommitsInv
  BY <1>1, <1>2, <1>4 DEF CommitsInv
<1>6. \A r \in Readers : ReadRight(rd[r])
  BY <1>2, ClosedReaderType DEF ReadRight
<1> QED BY <1>5, <1>6 DEF SnapshotInv

-----------------------------------------------------------------------------
(* The refinement, step by step *)

(* What a reader that has opened every file sees is the commit. *)
LEMMA LoadedIsLive ==
    ASSUME NEW l, IsReader(l), ReadRight(l), l.pc = "load", l.toOpen = {}
    PROVE  LoadedDocs(l) = LiveDocs(l.sis.segs)
<1> DEFINE segs == l.sis.segs
           Docs1(n) == LET docs == l.loaded[IF IsCompound(segs[n]) THEN CfsFile(n) ELSE CoreFile(n)]
                       IN IF HasDeletions(segs[n]) THEN docs \ l.loaded[DelFile(n, segs[n].del_gen)]
                                                   ELSE docs
<1>1. ASSUME NEW n \in DOMAIN segs PROVE Docs1(n) = segs[n].docs \ segs[n].dels
  <2> DEFINE f == IF IsCompound(segs[n]) THEN CfsFile(n) ELSE CoreFile(n)
             h == DelFile(n, segs[n].del_gen)
  <2>1. /\ f \in SegFiles(n, segs[n]) /\ f.kind # "del"
        /\ HasDeletions(segs[n]) => h \in SegFiles(n, segs[n]) /\ h.kind = "del"
    BY DocsFiles DEF CfsFile, CoreFile, DelFile
  <2>2. \A x \in SegFiles(n, segs[n]) : l.loaded[x] = Content(segs[n], x)
    BY DEF ReadRight
  <2>3. HasDeletions(segs[n]) \/ segs[n].dels = {}
    BY DEF ReadRight, IsCommit, Apart
  <2> HIDE DEF f, h, segs
  <2>4. l.loaded[f] = segs[n].docs
    BY <2>1, <2>2 DEF Content
  <2>5. HasDeletions(segs[n]) => l.loaded[h] = segs[n].dels
    BY <2>1, <2>2 DEF Content
  <2>6. Docs1(n) = IF HasDeletions(segs[n]) THEN l.loaded[f] \ l.loaded[h] ELSE l.loaded[f]
    BY DEF f, h
  <2> QED BY <2>3, <2>4, <2>5, <2>6
<1>2. LoadedDocs(l) = UNION {Docs1(n) : n \in DOMAIN segs}
  BY DEF LoadedDocs
<1> HIDE DEF Docs1
<1>3. \A d : d \in LoadedDocs(l) <=> d \in LiveDocs(segs)
  BY <1>1, <1>2 DEF LiveDocs
<1>4. LoadedDocs(l) \subseteq LiveDocs(segs) /\ LiveDocs(segs) \subseteq LoadedDocs(l)
  BY <1>3
<1> QED BY <1>4

(* The documents of two successive commits, as IndexSnapshots has them. *)
LEMMA ChangeIsAbstract ==
    ASSUME NEW old, NEW new, Apart(old), Apart(new), Change(old, new)
    PROVE  \/ \E D \in SUBSET (Docs \ (LiveDocs(old) \cup AllDels(old))) :
                  D # {} /\ LiveDocs(new) = LiveDocs(old) \cup D /\ AllDels(new) = AllDels(old)
           \/ \E D \in SUBSET (LiveDocs(old) \cup AllDels(old)) :
                  LiveDocs(new) = D /\ AllDels(new) = (LiveDocs(old) \cup AllDels(old)) \ D
           \/ \E D \in SUBSET AllDels(old) :
                  D # AllDels(old) /\ LiveDocs(new) = LiveDocs(old) /\ AllDels(new) = D
<1>1. /\ LiveDocs(old) = AllDocs(old) \ AllDels(old) /\ AllDels(old) \subseteq AllDocs(old)
      /\ LiveDocs(new) = AllDocs(new) \ AllDels(new) /\ AllDels(new) \subseteq AllDocs(new)
  BY LiveIsRest
<1>2. LiveDocs(old) \cup AllDels(old) = AllDocs(old) /\ LiveDocs(new) \cup AllDels(new) = AllDocs(new)
  BY <1>1
<1>3. CASE Added(old, new)
  <2>1. PICK D \in SUBSET Docs : /\ D # {} /\ D \cap AllDocs(old) = {}
                                 /\ AllDocs(new) = AllDocs(old) \cup D /\ AllDels(new) = AllDels(old)
    BY <1>3 DEF Added
  <2>2. D \in SUBSET (Docs \ (LiveDocs(old) \cup AllDels(old)))
    BY <1>2, <2>1
  <2>3. LiveDocs(new) = LiveDocs(old) \cup D
    BY <1>1, <2>1
  <2> QED BY <2>1, <2>2, <2>3
<1>4. CASE Marked(old, new)
  <2>1. LiveDocs(new) \in SUBSET (LiveDocs(old) \cup AllDels(old))
    BY <1>1, <1>2, <1>4 DEF Marked
  <2>2. AllDels(new) = (LiveDocs(old) \cup AllDels(old)) \ LiveDocs(new)
    BY <1>1, <1>2, <1>4 DEF Marked
  <2> QED BY <2>1, <2>2
<1>5. CASE Merged(old, new)
  <2>1. LiveDocs(new) = LiveDocs(old) /\ AllDels(new) \in SUBSET AllDels(old)
    BY <1>5 DEF Merged
  <2>2. CASE AllDels(new) # AllDels(old)
    BY <2>1, <2>2
  <2>3. CASE AllDels(new) = AllDels(old)
    <3>1. AllDels(new) = (LiveDocs(old) \cup AllDels(old)) \ LiveDocs(new)
      BY <1>1, <2>1, <2>3
    <3> QED BY <2>1, <3>1
  <2> QED BY <2>2, <2>3
<1> QED BY <1>3, <1>4, <1>5 DEF Change

(* The names of IndexSnapshots are abbreviated: the state functions that     *)
(* its variables stand for.                                                  *)
Live    == LiveDocs(committed.segs)
Removed == UNION {committed.segs[n].dels : n \in DOMAIN committed.segs}
View    == [r \in Readers |-> ReaderView(r)]

(* Completing segments_N is one atomic commit. *)
LEMMA EndSegmentsIsCommit ==
    ASSUME Inv, History, History', SnapshotInv, Commits, EndSegments
    PROVE  Snapshots!Next
<1>1. /\ committed' = sis /\ committed'.version = committed.version + 1
      /\ commits' = Put(commits, committed'.version, LiveDocs(committed'.segs)) /\ rd' = rd
  BY CommitsStep DEF Commits, SnapshotInv
<1>2. /\ Apart(committed.segs) /\ Apart(sis.segs) /\ Change(committed.segs, sis.segs)
  BY DEF EndSegments, History, DocsInv, ChangeInv
<1>3. View' = View
  BY <1>1 DEF View, ReaderView
<1>4. commits' = [v \in DOMAIN commits \cup {committed'.version} |->
                     IF v = committed'.version THEN Live' ELSE commits[v]]
  BY <1>1 DEF Put, Live
<1>5. /\ Live = LiveDocs(committed.segs) /\ Live' = LiveDocs(sis.segs)
      /\ Removed = AllDels(committed.segs) /\ Removed' = AllDels(sis.segs)
  BY <1>1 DEF Live, Removed, AllDels
<1>6. CASE \E D \in SUBSET (Docs \ (Live \cup Removed)) : D # {} /\ Live' = Live \cup D /\ Removed' = Removed
  <2>1. PICK D \in SUBSET (Docs \ (Live \cup Removed)) : D # {} /\ Live' = Live \cup D /\ Removed' = Removed
    BY <1>6
  <2>2. Snapshots!Commit(Live \cup D, Removed)
    BY <1>1, <1>3, <1>4, <2>1 DEF Snapshots!Commit, Live, Removed, View
  <2>3. Snapshots!Add
    BY <2>1, <2>2 DEF Snapshots!Add, Live, Removed
  <2> QED BY <2>3 DEF Snapshots!Next
<1>7. CASE \E D \in SUBSET (Live \cup Removed) : Live' = D /\ Removed' = (Live \cup Removed) \ D
  <2>1. PICK D \in SUBSET (Live \cup Removed) : Live' = D /\ Removed' = (Live \cup Removed) \ D
    BY <1>7
  <2>2. Snapshots!Commit(D, (Live \cup Removed) \ D)
    BY <1>1, <1>3, <1>4, <2>1 DEF Snapshots!Commit, Live, Removed, View
  <2>3. Snapshots!Mark
    BY <2>1, <2>2 DEF Snapshots!Mark, Live, Removed
  <2> QED BY <2>3 DEF Snapshots!Next
<1>8. CASE \E D \in SUBSET Removed : D # Removed /\ Live' = Live /\ Removed' = D
  <2>1. PICK D \in SUBSET Removed : D # Removed /\ Live' = Live /\ Removed' = D
    BY <1>8
  <2>2. Snapshots!Commit(Live, D)
    BY <1>1, <1>3, <1>4, <2>1 DEF Snapshots!Commit, Live, Removed, View
  <2>3. Snapshots!Expunge
    BY <2>1, <2>2 DEF Snapshots!Expunge, Live, Removed
  <2> QED BY <2>3 DEF Snapshots!Next
<1> QED BY <1>2, <1>5, <1>6, <1>7, <1>8, ChangeIsAbstract

(* The steps of a reader: opening and closing, seen from outside. *)
ViewOf(l) == IF l.pc = "open" THEN Snapshots!Opened(l.sis.version, l.docs) ELSE Snapshots!Closed

LEMMA ViewIs == View = [r \in Readers |-> ViewOf(rd[r])]
BY DEF View, ReaderView, ViewOf, Snapshots!Opened, Snapshots!Closed

LEMMA SetView ==
    ASSUME ReadersInv, NEW r \in Readers, NEW m, Set(r, m)
    PROVE  /\ View' = [View EXCEPT ![r] = ViewOf(m)] /\ View[r] = ViewOf(rd[r])
           /\ ViewOf(m) = ViewOf(rd[r]) => View' = View
           /\ UNCHANGED <<committed, commits>> /\ Live' = Live /\ Removed' = Removed
<1>1. rd' = [rd EXCEPT ![r] = m] /\ rd = [q \in Readers |-> rd[q]] /\ UNCHANGED <<vars, commits>>
  BY DEF Set, ReadersInv
<1>2. \A q \in Readers : rd'[q] = IF q = r THEN m ELSE rd[q]
  BY <1>1
<1>3. View = [q \in Readers |-> ViewOf(rd[q])] /\ View' = [q \in Readers |-> ViewOf(rd'[q])]
  <2>1. View = [q \in Readers |-> ViewOf(rd[q])]
    BY ViewIs
  <2>2. View' = [q \in Readers |-> ViewOf(rd'[q])]
    BY DEF View, ReaderView, ViewOf, Snapshots!Opened, Snapshots!Closed
  <2> QED BY <2>1, <2>2
<1>4. committed' = committed
  BY <1>1 DEF vars
<1>5. Live' = Live /\ Removed' = Removed
  BY <1>4 DEF Live, Removed
<1>6. View' = [View EXCEPT ![r] = ViewOf(m)]
  BY <1>2, <1>3
<1>7. ViewOf(m) = ViewOf(rd[r]) => View' = View
  BY <1>2, <1>3
<1> QED BY <1>1, <1>3, <1>4, <1>5, <1>6, <1>7

LEMMA SameView ==
    ASSUME ReadersInv, NEW r \in Readers, NEW m, Set(r, m), m.pc # "open", rd[r].pc # "open"
    PROVE  UNCHANGED Snapshots!vars
<1>1. ViewOf(m) = ViewOf(rd[r])
  BY DEF ViewOf
<1> QED BY <1>1, SetView DEF Snapshots!vars, Live, Removed, View

LEMMA ClosesView ==
    ASSUME ReadersInv, NEW r \in Readers, NEW m, Set(r, m), m.pc # "open", rd[r].pc = "open"
    PROVE  Snapshots!Next
<1>1. ViewOf(m) = Snapshots!Closed /\ ViewOf(rd[r]) # Snapshots!Closed
  <2>1. ViewOf(rd[r]).state = "open" /\ Snapshots!Closed.state = "closed"
    BY DEF ViewOf, Snapshots!Opened, Snapshots!Closed
  <2> QED BY <2>1 DEF ViewOf
<1>2. Snapshots!Close(r)
  BY <1>1, SetView DEF Snapshots!Close, Live, Removed, View
<1> QED BY <1>2 DEF Snapshots!Next

LEMMA OpeningStepIsAbstract ==
    ASSUME Inv, Bounded, ReadersInv, SnapshotInv, NEW r \in Readers, OpeningStep(r)
    PROVE  [Snapshots!Next]_(Snapshots!vars)
<1>1. TypeOK /\ IsReader(rd[r]) /\ ReadRight(rd[r])
  BY DEF Inv, ReadersInv, SnapshotInv
<1>2. CASE Open(r)
  <2>1. PICK m : m.pc = "find" /\ Set(r, m)
    BY <1>1, <1>2, OpenIs
  <2> QED BY <2>1, SameView, ClosesView
<1>3. CASE Close(r)
  BY <1>3, ClosedReaderType, SameView, ClosesView DEF Close
<1>4. CASE Find(r)
  <2>1. rd[r].pc = "find" /\ \E m : m.pc \in {"failed", "found"} /\ Set(r, m)
    BY <1>1, <1>4, FindIs
  <2> QED BY <2>1, SameView
<1>9. CASE Decide(r)
  <2>1. rd[r].pc = "found" /\ \E m : m.pc \in {"failed", "read"} /\ Set(r, m)
    BY <1>1, <1>9, DecideIs
  <2> QED BY <2>1, SameView
<1>5. CASE ReadSegments(r)
  <2>1. rd[r].pc = "read" /\ \E m : m.pc \in {"load", "caught"} /\ Set(r, m)
    BY <1>1, <1>5, ReadSegmentsIs
  <2> QED BY <2>1, SameView
<1>6. CASE LoadFile(r)
  <2>1. rd[r].pc = "load" /\ \E m : m.pc \in {"load", "caught"} /\ Set(r, m)
    BY <1>1, <1>6, LoadFileIs
  <2> QED BY <2>1, SameView
<1>7. CASE Fallback(r)
  <2>1. rd[r].pc = "caught" /\ \E m : m.pc \in {"read", "find"} /\ Set(r, m)
    BY <1>1, <1>7, FallbackIs
  <2> QED BY <2>1, SameView
<1>8. CASE EndLoad(r)
  <2>1. PICK m : m.pc = "open" /\ Set(r, m) /\ m.sis = rd[r].sis /\ m.docs = LoadedDocs(rd[r])
    BY <1>1, <1>8, EndLoadIs
  <2>2. rd[r].pc = "load" /\ rd[r].toOpen = {}
    BY <1>8 DEF EndLoad
  <2>3. m.docs = LiveDocs(m.sis.segs)
    BY <1>1, <2>1, <2>2, LoadedIsLive
  <2>4. m.sis.version \in DOMAIN commits /\ m.docs = commits[m.sis.version]
    BY <1>1, <2>1, <2>2, <2>3 DEF ReadRight, IsCommit, Recorded
  <2>5. /\ ViewOf(rd[r]) = Snapshots!Closed
        /\ ViewOf(m) = Snapshots!Opened(m.sis.version, commits[m.sis.version])
    BY <2>1, <2>2, <2>4 DEF ViewOf
  <2>6. Snapshots!Open(r)
    <3>1. /\ View[r] = Snapshots!Closed
          /\ View' = [View EXCEPT ![r] = Snapshots!Opened(m.sis.version, commits[m.sis.version])]
          /\ UNCHANGED <<committed, commits>> /\ Live' = Live /\ Removed' = Removed
      BY <2>1, <2>5, SetView
    <3> QED BY <2>4, <3>1 DEF Snapshots!Open, Live, Removed, View
  <2> QED BY <2>6 DEF Snapshots!Next
<1> QED BY <1>2, <1>3, <1>4, <1>5, <1>6, <1>7, <1>8, <1>9 DEF OpeningStep

LEMMA StepIsAbstract ==
    ASSUME Inv, History, History', Bounded, ReadersInv, SnapshotInv, [OpenNext]_openVars
    PROVE  [Snapshots!Next]_(Snapshots!vars)
<1>1. CASE Commits
  <2>1. CASE EndSegments
    BY <1>1, <2>1, EndSegmentsIsCommit
  <2>2. CASE ~EndSegments
    <3>1. committed' = committed /\ rd' = rd
      BY <1>1, <2>2, CommittedStep DEF Commits
    <3>2. commits' = commits
      BY <1>1, <3>1, CommitsStep DEF Commits, SnapshotInv
    <3>3. View' = View
      BY <3>1 DEF ReaderView, View
    <3> QED BY <3>1, <3>2, <3>3 DEF Snapshots!vars, View
  <2> QED BY <2>1, <2>2
<1>2. CASE UNCHANGED openVars
  <2>1. UNCHANGED <<committed, commits, rd>>
    BY <1>2 DEF openVars, vars
  <2>2. View' = View
    BY <2>1 DEF ReaderView, View
  <2> QED BY <2>1, <2>2 DEF Snapshots!vars, View
<1> QED BY <1>1, <1>2, OpeningStepIsAbstract DEF OpenNext

LEMMA InitIsAbstract == OpenInit => Snapshots!Init
<1> SUFFICES ASSUME OpenInit PROVE Snapshots!Init
  OBVIOUS
<1>1. committed.version = 1 /\ DOMAIN committed.segs = {}
  BY SisFields DEF OpenInit, Init, NoSegs
<1>2. rd = [r \in Readers |-> ClosedReader] /\ commits = [v \in {1} |-> {}]
  BY <1>1 DEF OpenInit
<1>3. View = [r \in Readers |-> Snapshots!Closed]
  BY <1>2, ViewIs, ClosedReaderType DEF ViewOf
<1>4. Live = {} /\ Removed = {}
  BY <1>1 DEF Live, Removed, LiveDocs
<1> QED BY <1>1, <1>2, <1>3, <1>4 DEF Snapshots!Init, Live, Removed, View

(* An index implements IndexSnapshots.  Whatever flushes, merges, deletions, *)
(* copies, purges and crashes do, file by file, a commit happens at once,    *)
(* when frt_sis_write completes segments_N; and a reader that sis_find_      *)
(* segments_file and ir_open_i open meanwhile, with all its retries, sees    *)
(* exactly the documents of one commit.                                      *)
THEOREM OpenImplementsSnapshots ==
    "torn" \notin CrashPhases /\ "undelete" \notin ReaderOps /\ OpenSpec => ImplementsSnapshots
<1> SUFFICES ASSUME "torn" \notin CrashPhases, "undelete" \notin ReaderOps
             PROVE  OpenSpec => ImplementsSnapshots
  OBVIOUS
<1>1. OpenSpec => []Inv /\ []History
  BY CommitInvariant, CommitHistory, ReadersDoNotInterfere, PTL
<1>2. Inv /\ Inv' /\ History /\ Bounded /\ ReadersInv /\ SnapshotInv /\ [OpenNext]_openVars
        => SnapshotInv'
  BY OpenStepRight
<1>3. OpenSpec => []SnapshotInv
  BY <1>1, <1>2, OpenInitRight, ReadersInvariant, PTL DEF OpenSpec
<1>4. Inv /\ History /\ History' /\ Bounded /\ ReadersInv /\ SnapshotInv /\ [OpenNext]_openVars
        => [Snapshots!Next]_(Snapshots!vars)
  BY StepIsAbstract
<1>5. OpenSpec => Snapshots!Spec
  BY <1>1, <1>3, <1>4, InitIsAbstract, ReadersInvariant, PTL DEF OpenSpec, Snapshots!Spec
<1> QED BY <1>5 DEF ImplementsSnapshots
=============================================================================
