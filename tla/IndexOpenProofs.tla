--------------------------- MODULE IndexOpenProofs ---------------------------
(* What opening an index guarantees while another process changes it: the    *)
(* types of the readers, and that no reader opens an outdated commit.        *)
EXTENDS IndexOpen, IndexCommitSafety, WellFoundedInduction

-----------------------------------------------------------------------------
(* The largest number of a bounded set: what which_gen_i computes. *)

LEMMA Least ==
    ASSUME NEW S \in SUBSET Nat, S # {}
    PROVE  \E x \in S : \A y \in S : x <= y
<1> DEFINE R == {ss \in Nat \X Nat : ss[1] < ss[2]}
<1>1. IsWellFoundedOn(R, Nat)
  BY NatLessThanWellFounded, Zenon DEF OpToRel
<1>2. ASSUME NEW x \in Nat, NEW y \in Nat, x < y PROVE <<x, y>> \in R
  BY <1>2
<1> HIDE DEF R
<1>3. PICK x \in S : \A y \in S : ~(<<y, x>> \in R)
  BY <1>1, WFMin
<1>4. ASSUME NEW y \in S PROVE x <= y
  <2>1. ~(y < x)
    BY <1>2, <1>3
  <2> QED BY <2>1
<1> QED BY <1>4

LEMMA Greatest ==
    ASSUME NEW S \in SUBSET Nat, S # {}, NEW B \in Nat, \A g \in S : g <= B
    PROVE  \E x \in S : \A y \in S : y <= x
<1> DEFINE T == {B - g : g \in S}
<1>1. T # {}
  OBVIOUS
<1>2. ASSUME NEW t \in T PROVE t \in Nat
  <2>1. PICK g \in S : t = B - g
    OBVIOUS
  <2> QED BY <2>1
<1>3. PICK t \in T : \A u \in T : t <= u
  <2> HIDE DEF T
  <2> QED BY <1>1, <1>2, Least
<1>4. PICK x \in S : t = B - x
  OBVIOUS
<1>5. ASSUME NEW y \in S PROVE y <= x
  <2>1. B - y \in T
    OBVIOUS
  <2>2. t <= B - y
    BY <1>3, <2>1
  <2> QED BY <1>4, <2>2
<1> QED BY <1>5

(* The segments files in the store have a highest generation. *)
Bounded == \E B \in Nat : \A g \in DOMAIN segments : g <= B

LEMMA CurrentIsHighest ==
    ASSUME StoreTypeOK, Bounded, DOMAIN segments # {}
    PROVE  /\ CurrentGeneration \in DOMAIN segments /\ CurrentGeneration \in Nat
           /\ \A g \in DOMAIN segments : g <= CurrentGeneration
<1>1. PICK B \in Nat : \A g \in DOMAIN segments : g <= B
  BY DEF Bounded
<1>2. DOMAIN segments \in SUBSET Nat
  BY DEF StoreTypeOK
<1>3. \E g \in DOMAIN segments : \A h \in DOMAIN segments : h <= g
  BY <1>1, <1>2, Greatest
<1>4. CurrentGeneration = CHOOSE g \in DOMAIN segments : \A h \in DOMAIN segments : h <= g
  BY DEF CurrentGeneration
<1> QED BY <1>2, <1>3, <1>4

LEMMA StaysBounded ==
    ASSUME TypeOK, RoleInv, Bounded, [Next]_vars
    PROVE  Bounded'
<1>1. CASE BeginSegments
  <2>1. PICK B \in Nat : \A g \in DOMAIN segments : g <= B
    BY DEF Bounded
  <2> DEFINE new == Sis(sis.generation + 1, sis.version + 1, sis.counter, sis.segs)
  <2>2. segments' = Put(segments, new.generation, new)
    BY <1>1 DEF BeginSegments
  <2>3. new.generation = sis.generation + 1
    BY SisFields
  <2> HIDE DEF new
  <2>4. DOMAIN segments' = DOMAIN segments \cup {sis.generation + 1}
    BY <2>2, <2>3 DEF Put
  <2>5. sis.generation + 1 \in Nat /\ DOMAIN segments \subseteq Nat
    BY SisTypes DEF TypeOK, StoreTypeOK
  <2>6. PICK C \in Nat : C >= B /\ C >= sis.generation + 1
    BY <2>5
  <2>7. \A g \in DOMAIN segments' : g <= C
    BY <2>1, <2>4, <2>5, <2>6
  <2> QED BY <2>7 DEF Bounded
<1>2. CASE ~BeginSegments
  <2>1. DOMAIN segments' \subseteq DOMAIN segments
    <3>1. CASE DropPrevious \/ DropCurrent \/ PurgeSegments
      BY <3>1 DEF DropPrevious, DropCurrent, PurgeSegments, Without
    <3>2. CASE ~(DropPrevious \/ DropCurrent \/ PurgeSegments)
      <4>1. segments' = segments
        BY <1>2, <3>2
           DEF Next, WriterStep, ReaderStep, CommitStep, OpenWriter, Flush, Optimize, CloseWriter,
               AddDoc, DeleteTerm, AddReaders, OpenReader, UndeleteAll, CommitReader, CloseReader,
               SetNorm, DeleteDoc, ChangeReader, MaybeMerge, OptimizeStep, MergeSegments, EndMerges,
               StartCommit, WriteFile, EndSegments, WriteGen, PurgeFile, EndPurge, Crash, vars, store
      <4> QED BY <4>1
    <3> QED BY <3>1, <3>2
  <2> QED BY <2>1 DEF Bounded
<1> QED BY <1>1, <1>2

-----------------------------------------------------------------------------
(* Types *)

(* A reader is a record of its local variables. *)
IsReader(l) ==
    /\ DOMAIN l = {"pc", "gen", "last_gen", "retry", "method", "ahead", "run", "sis", "toOpen",
                   "loaded", "since", "docs"}
    /\ l.pc \in {"closed", "find", "found", "read", "load", "caught", "open", "failed"}
    /\ l.gen \in Nat /\ l.last_gen \in Nat \cup {-1} /\ l.run \in Nat \cup {-1}
    /\ l.method \in 0 .. 2 /\ l.ahead \in 0 .. LookAhead
    /\ IsSis(l.sis) /\ l.toOpen \subseteq DataFile /\ IsMap(l.loaded, DataFile, SUBSET Docs)
    /\ l.since \in Nat /\ l.docs \subseteq Docs

(* Every file of the segments being opened has been read or is still to be. *)
IsLoading(l) ==
    /\ l.pc = "load" => /\ l.toOpen \subseteq SisFiles(l.sis.segs)
                        /\ SisFiles(l.sis.segs) \subseteq l.toOpen \cup DOMAIN l.loaded
    /\ l.pc # "load" => DOMAIN l.loaded = {}

ReadersInv ==
    /\ rd = [r \in Readers |-> rd[r]]
    /\ \A r \in Readers : IsReader(rd[r]) /\ IsLoading(rd[r])

LEMMA ClosedReaderType ==
    /\ IsReader(ClosedReader) /\ IsLoading(ClosedReader) /\ ClosedReader.pc = "closed"
    /\ DOMAIN ClosedReader.loaded = {}
<1>1. /\ IsSis(ClosedReader.sis) /\ IsMap(ClosedReader.loaded, DataFile, SUBSET Docs)
      /\ DOMAIN ClosedReader.loaded = {}
  BY NoSisType, NoFilesMap DEF ClosedReader, NoFiles
<1> QED BY <1>1, OpenConstants DEF IsReader, IsLoading, ClosedReader

(* The head of the loop of sis_find_segments_file changes gen, method and    *)
(* ahead only; after the listing it keeps the generation or moves on.        *)
SameBut(l, m) ==
    /\ DOMAIN m = DOMAIN l
    /\ m.pc = l.pc /\ m.last_gen = l.last_gen /\ m.retry = l.retry /\ m.run = l.run
    /\ m.sis = l.sis /\ m.toOpen = l.toOpen /\ m.loaded = l.loaded
    /\ m.since = l.since /\ m.docs = l.docs

Advanced(l, m) ==
    /\ SameBut(l, m) /\ IsReader(m)
    /\ m.gen >= l.gen
    /\ m.method = 0 => m.gen = l.gen /\ l.method = 0

LEMMA MethodsAdvance ==
    ASSUME NEW l, IsReader(l), segments_gen \in Nat \cup {-1}
    PROVE  Advanced(l, MethodThree(MethodTwo(l)))
<1> DEFINE b == MethodTwo(l)
           c == MethodThree(b)
<1>2. SameBut(l, b) /\ IsReader(b) /\ b.gen >= l.gen /\ (b.method = 0 => b = l)
  <2>1. CASE b = l
    BY <2>1 DEF IsReader, SameBut
  <2>2. CASE b # l
    <3> DEFINE g == IF segments_gen > l.gen THEN segments_gen ELSE l.gen
    <3>1. b = [l EXCEPT !.method = 1, !.gen = g]
      BY <2>2 DEF MethodTwo
    <3>2. g \in Nat /\ g >= l.gen
      BY DEF IsReader
    <3> HIDE DEF g, b
    <3> QED BY <3>1, <3>2 DEF SameBut, IsReader
  <2> QED BY <2>1, <2>2
<1> HIDE DEF b
<1>3. SameBut(b, c) /\ IsReader(c) /\ c.gen >= b.gen /\ (c.method = 0 => c = b)
  <2>1. \/ c = b
        \/ c = [b EXCEPT !.method = 2]
        \/ /\ b.ahead < LookAhead
           /\ c = [b EXCEPT !.method = 2, !.gen = b.gen + 1, !.ahead = b.ahead + 1]
    BY Zenon DEF MethodThree
  <2> HIDE DEF c
  <2>2. CASE c = b
    BY <1>2, <2>2 DEF IsReader, SameBut
  <2>3. CASE c = [b EXCEPT !.method = 2]
    BY <1>2, <2>3 DEF IsReader, SameBut
  <2>4. CASE /\ b.ahead < LookAhead
             /\ c = [b EXCEPT !.method = 2, !.gen = b.gen + 1, !.ahead = b.ahead + 1]
    BY <1>2, <2>4, OpenConstants DEF IsReader, SameBut
  <2> QED BY <2>1, <2>2, <2>3, <2>4
<1> HIDE DEF c
<1>4. SameBut(l, c)
  BY <1>2, <1>3 DEF SameBut
<1>5. c.gen >= l.gen
  BY <1>2, <1>3 DEF IsReader
<1>6. Advanced(l, c)
  BY <1>2, <1>3, <1>4, <1>5 DEF Advanced
<1> QED BY <1>6 DEF b, c

LEMMA SetKeepsReaders ==
    ASSUME ReadersInv, NEW r \in Readers, NEW new, Set(r, new), IsReader(new), IsLoading(new)
    PROVE  ReadersInv'
<1>1. rd' = [rd EXCEPT ![r] = new] /\ rd = [q \in Readers |-> rd[q]]
  BY DEF Set, ReadersInv
<1>2. DOMAIN rd' = Readers /\ \A q \in Readers : rd'[q] = IF q = r THEN new ELSE rd[q]
  BY <1>1
<1>3. rd' = [q \in Readers |-> rd'[q]]
  BY <1>1
<1> QED BY <1>2, <1>3 DEF ReadersInv

(* What the listing of the directory does: it gives up, or finds the highest *)
(* generation.                                                               *)
LEMMA FindIs ==
    ASSUME TypeOK, Bounded, ReadersInv, NEW r \in Readers, Find(r)
    PROVE  /\ rd[r].pc = "find"
           /\ \E m : /\ IsReader(m) /\ m.pc \in {"failed", "found"} /\ Set(r, m)
                     /\ m.since = rd[r].since /\ m.loaded = rd[r].loaded
                     /\ m.last_gen = rd[r].last_gen /\ m.method = rd[r].method
                     /\ m.pc = "failed" => m.gen = rd[r].gen
                     /\ m.pc = "found" /\ m.method = 0 => m.gen = CurrentGeneration
                     /\ m.pc = "found" /\ m.method # 0 => m.gen = rd[r].gen
<1> DEFINE l == rd[r]
<1>1. IsReader(l) /\ l.pc = "find" /\ StoreTypeOK
  BY DEF ReadersInv, Find, TypeOK
<1>2. CASE l.method = 0 /\ DOMAIN segments = {}
  <2> DEFINE new == [l EXCEPT !.pc = "failed"]
  <2>1. Set(r, new)
    BY <1>2 DEF Find
  <2> HIDE DEF l
  <2>2. /\ IsReader(new) /\ new.pc = "failed" /\ new.since = l.since /\ new.loaded = l.loaded
        /\ new.last_gen = l.last_gen /\ new.method = l.method /\ new.gen = l.gen
    BY <1>1 DEF IsReader
  <2> HIDE DEF new
  <2> QED BY <1>1, <2>1, <2>2 DEF l
<1>3. CASE l.method = 0 /\ DOMAIN segments # {}
  <2> DEFINE m == [l EXCEPT !.gen = CurrentGeneration]
             new == [m EXCEPT !.pc = "found"]
  <2>1. Set(r, new)
    BY <1>3 DEF Find, MethodOne
  <2>2. CurrentGeneration \in Nat
    BY <1>1, <1>3, CurrentIsHighest
  <2> HIDE DEF l
  <2>3. /\ IsReader(new) /\ new.pc = "found" /\ new.since = l.since /\ new.loaded = l.loaded
        /\ new.last_gen = l.last_gen /\ new.method = l.method /\ new.gen = CurrentGeneration
    BY <1>1, <2>2 DEF IsReader
  <2> HIDE DEF new
  <2> QED BY <1>1, <1>3, <2>1, <2>3 DEF l
<1>4. CASE l.method # 0
  <2> DEFINE new == [l EXCEPT !.pc = "found"]
  <2>1. Set(r, new)
    BY <1>4 DEF Find, MethodOne
  <2> HIDE DEF l
  <2>2. /\ IsReader(new) /\ new.pc = "found" /\ new.since = l.since /\ new.loaded = l.loaded
        /\ new.last_gen = l.last_gen /\ new.method = l.method /\ new.gen = l.gen
    BY <1>1 DEF IsReader
  <2> HIDE DEF new
  <2> QED BY <1>1, <1>4, <2>1, <2>2 DEF l
<1> QED BY <1>2, <1>3, <1>4

(* What the rest of the head does: it gives up, or goes on to a generation.  *)
LEMMA DecideIs ==
    ASSUME TypeOK, ReadersInv, NEW r \in Readers, Decide(r)
    PROVE  /\ rd[r].pc = "found"
           /\ \E m : /\ IsReader(m) /\ m.pc \in {"failed", "read"} /\ Set(r, m)
                     /\ m.since = rd[r].since /\ m.loaded = rd[r].loaded
                     /\ m.gen >= rd[r].gen
                     /\ m.method = 0 => m.gen = rd[r].gen /\ rd[r].method = 0
                     /\ m.pc = "failed" => m.last_gen = rd[r].last_gen
                     /\ m.pc = "read" => /\ m.run = m.gen /\ m.last_gen = m.gen
                                         /\ rd[r].last_gen = m.gen => m.retry /\ ~rd[r].retry
<1> DEFINE l == rd[r]
           m == MethodThree(MethodTwo(l))
           failed == [m EXCEPT !.pc = "failed"]
           found == [m EXCEPT !.pc = "read", !.retry = (m.last_gen = m.gen),
                              !.last_gen = m.gen, !.run = m.gen]
<1>1. IsReader(l) /\ l.pc = "found" /\ segments_gen \in Nat \cup {-1}
  BY DEF ReadersInv, Decide, TypeOK, StoreTypeOK
<1>2. Set(r, failed) \/ (Set(r, found) /\ ~(m.last_gen = m.gen /\ m.retry))
  BY Zenon DEF Decide
<1> HIDE DEF l
<1>3. Advanced(l, m)
  BY <1>1, MethodsAdvance
<1> HIDE DEF m
<1>4. /\ IsReader(m) /\ m.since = l.since /\ m.loaded = l.loaded /\ m.last_gen = l.last_gen
      /\ m.retry = l.retry /\ m.gen >= l.gen /\ (m.method = 0 => m.gen = l.gen /\ l.method = 0)
  BY <1>3 DEF Advanced, SameBut
<1>5. /\ IsReader(failed) /\ failed.pc = "failed" /\ failed.since = l.since
      /\ failed.loaded = l.loaded /\ failed.gen = m.gen /\ failed.last_gen = l.last_gen
      /\ failed.method = m.method
  BY <1>4 DEF IsReader
<1>6. /\ IsReader(found) /\ found.pc = "read" /\ found.since = l.since
      /\ found.gen = m.gen /\ found.run = m.gen /\ found.loaded = l.loaded
      /\ found.last_gen = m.gen /\ found.method = m.method /\ found.retry = (m.last_gen = m.gen)
  BY <1>4 DEF IsReader
<1> HIDE DEF failed, found
<1>7. CASE Set(r, failed)
  BY <1>1, <1>4, <1>5, <1>7 DEF l
<1>8. CASE Set(r, found) /\ ~(m.last_gen = m.gen /\ m.retry)
  BY <1>1, <1>4, <1>6, <1>8 DEF l
<1> QED BY <1>2, <1>7, <1>8

(* The files a segment infos refers to. *)
LEMMA SisFilesType ==
    ASSUME NEW s, IsSis(s)
    PROVE  SisFiles(s.segs) \subseteq DataFile
<1> SUFFICES ASSUME NEW f \in SisFiles(s.segs) PROVE f \in DataFile
  OBVIOUS
<1>1. IsMap(s.segs, Nat, SegInfo)
  BY DEF IsSis
<1>2. f.seg \in DOMAIN s.segs /\ f \in SegFiles(f.seg, s.segs[f.seg])
  BY <1>1, SisFilesAre
<1>3. f.seg \in Nat /\ s.segs[f.seg] \in SegInfo
  BY <1>1, <1>2 DEF IsMap
<1> QED BY <1>2, <1>3, SegFilesAre

(* What ir_open_i does with the segments file: it reads it, or fails. *)
LEMMA ReadSegmentsIs ==
    ASSUME TypeOK, ReadersInv, NEW r \in Readers, ReadSegments(r)
    PROVE  /\ rd[r].pc = "read"
           /\ \E m : /\ IsReader(m) /\ IsLoading(m) /\ m.pc \in {"load", "caught"} /\ Set(r, m)
                     /\ m.since = rd[r].since /\ m.run = rd[r].run /\ m.gen = rd[r].gen
                     /\ m.pc = "load" => /\ Readable(m.run) /\ m.sis = segments[m.run]
                                         /\ m.loaded = rd[r].loaded
                                         /\ m.toOpen = SisFiles(m.sis.segs)
                     /\ m.pc = "caught" => ~Readable(m.run)
<1> DEFINE l == rd[r]
           s == segments[l.run]
           load == [l EXCEPT !.pc = "load", !.sis = s, !.toOpen = SisFiles(s.segs)]
           caught == [l EXCEPT !.pc = "caught"]
<1>1. IsReader(l) /\ l.pc = "read" /\ DOMAIN l.loaded = {}
  BY DEF ReadersInv, ReadSegments, IsLoading
<1>2. CASE Readable(l.run)
  <2>1. Set(r, load)
    BY <1>2 DEF ReadSegments
  <2>2. IsSis(s)
    BY <1>2 DEF Readable, TypeOK, StoreTypeOK
  <2>3. SisFiles(s.segs) \subseteq DataFile
    BY <2>2, SisFilesType
  <2> HIDE DEF l, s
  <2>4. /\ IsReader(load) /\ load.pc = "load" /\ load.since = l.since /\ load.run = l.run
        /\ load.gen = l.gen /\ load.sis = s /\ load.toOpen = SisFiles(s.segs)
        /\ load.loaded = l.loaded
    BY <1>1, <2>2, <2>3 DEF IsReader
  <2> HIDE DEF load
  <2>5. IsLoading(load)
    BY <2>4 DEF IsLoading
  <2> QED BY <1>1, <1>2, <2>1, <2>4, <2>5 DEF l, s
<1>3. CASE ~Readable(l.run)
  <2>1. Set(r, caught)
    BY <1>3 DEF ReadSegments
  <2> HIDE DEF l
  <2>2. /\ IsReader(caught) /\ caught.pc = "caught" /\ caught.since = l.since
        /\ caught.run = l.run /\ caught.gen = l.gen /\ caught.loaded = l.loaded
    BY <1>1 DEF IsReader
  <2> HIDE DEF caught
  <2>3. IsLoading(caught)
    BY <1>1, <2>2 DEF IsLoading
  <2> QED BY <1>1, <1>3, <2>1, <2>2, <2>3 DEF l
<1> QED BY <1>2, <1>3

(* What sr_open does with one file: it reads it, or fails because it is gone.*)
LEMMA LoadFileIs ==
    ASSUME TypeOK, ReadersInv, NEW r \in Readers, LoadFile(r)
    PROVE  /\ rd[r].pc = "load"
           /\ \E m, f : /\ IsReader(m) /\ IsLoading(m) /\ m.pc \in {"load", "caught"} /\ Set(r, m)
                        /\ m.since = rd[r].since /\ m.run = rd[r].run /\ m.gen = rd[r].gen
                        /\ f \in rd[r].toOpen
                        /\ m.pc = "load" => /\ m.sis = rd[r].sis /\ f \in DOMAIN files
                                            /\ m.toOpen = rd[r].toOpen \ {f}
                                            /\ m.loaded = Put(rd[r].loaded, f, files[f])
                        /\ m.pc = "caught" => f \notin DOMAIN files
<1> DEFINE l == rd[r]
<1>1. IsReader(l) /\ IsLoading(l) /\ l.pc = "load"
  BY DEF ReadersInv, LoadFile
<1>2. PICK f \in l.toOpen :
         IF f \in DOMAIN files
           THEN Set(r, [l EXCEPT !.toOpen = @ \ {f}, !.loaded = Put(@, f, files[f])])
           ELSE Set(r, [l EXCEPT !.pc = "caught", !.sis = NoSis, !.toOpen = {}, !.loaded = NoFiles])
  BY DEF LoadFile
<1>3. CASE f \in DOMAIN files
  <2> DEFINE p == Put(l.loaded, f, files[f])
             load == [l EXCEPT !.toOpen = l.toOpen \ {f}, !.loaded = p]
  <2>1. Set(r, load)
    BY <1>2, <1>3
  <2> HIDE DEF l
  <2>2. IsMap(p, DataFile, SUBSET Docs)
    <3>1. IsMap(l.loaded, DataFile, SUBSET Docs) /\ f \in DataFile
      BY <1>1, <1>2 DEF IsReader
    <3>2. files[f] \in SUBSET Docs
      BY <1>3 DEF TypeOK, StoreTypeOK, IsMap
    <3> QED BY <3>1, <3>2, PutMap
  <2>3. DOMAIN p = DOMAIN l.loaded \cup {f}
    BY DEF Put
  <2> HIDE DEF p
  <2>4. /\ IsReader(load) /\ load.pc = "load" /\ load.since = l.since /\ load.run = l.run
        /\ load.gen = l.gen /\ load.sis = l.sis /\ load.toOpen = l.toOpen \ {f}
        /\ load.loaded = p
    BY <1>1, <2>2 DEF IsReader
  <2> HIDE DEF load
  <2>5. IsLoading(load)
    BY <1>1, <2>3, <2>4 DEF IsLoading
  <2> QED BY <1>1, <1>2, <1>3, <2>1, <2>4, <2>5 DEF l, p
<1>4. CASE f \notin DOMAIN files
  <2> DEFINE caught == [l EXCEPT !.pc = "caught", !.sis = NoSis, !.toOpen = {}, !.loaded = NoFiles]
  <2>1. Set(r, caught)
    BY <1>2, <1>4
  <2> HIDE DEF l
  <2>2. IsMap(NoFiles, DataFile, SUBSET Docs) /\ IsSis(NoSis)
    BY NoFilesMap, NoSisType
  <2>3. /\ IsReader(caught) /\ caught.pc = "caught" /\ caught.since = l.since
        /\ caught.run = l.run /\ caught.gen = l.gen /\ caught.loaded = NoFiles
    BY <1>1, <2>2 DEF IsReader
  <2> HIDE DEF caught
  <2>4. IsLoading(caught)
    BY <2>3 DEF IsLoading, NoFiles
  <2> QED BY <1>1, <1>2, <1>4, <2>1, <2>3, <2>4 DEF l
<1> QED BY <1>3, <1>4

(* The file with the documents of a segment, and its .del file. *)
LEMMA DocsFiles ==
    ASSUME NEW n, NEW si
    PROVE  /\ (IF IsCompound(si) THEN CfsFile(n) ELSE CoreFile(n)) \in SegFiles(n, si)
           /\ HasDeletions(si) => DelFile(n, si.del_gen) \in SegFiles(n, si)
BY DEF SegFiles, DelFiles

LEMMA LoadedDocsType ==
    ASSUME NEW l, IsReader(l), IsLoading(l), l.pc = "load", l.toOpen = {}
    PROVE  LoadedDocs(l) \subseteq Docs
<1>1. ASSUME NEW n \in DOMAIN l.sis.segs
      PROVE  l.loaded[IF IsCompound(l.sis.segs[n]) THEN CfsFile(n) ELSE CoreFile(n)] \subseteq Docs
  <2> DEFINE f == IF IsCompound(l.sis.segs[n]) THEN CfsFile(n) ELSE CoreFile(n)
  <2>1. f \in SisFiles(l.sis.segs)
    BY DocsFiles, InSisFiles
  <2> HIDE DEF f
  <2>2. f \in DOMAIN l.loaded /\ IsMap(l.loaded, DataFile, SUBSET Docs)
    BY <2>1 DEF IsReader, IsLoading
  <2>3. l.loaded[f] \subseteq Docs
    BY <2>2 DEF IsMap
  <2> QED BY <2>3 DEF f
<1> QED BY <1>1 DEF LoadedDocs

(* ir_open_i returns a reader of the segments it has read. *)
LEMMA EndLoadIs ==
    ASSUME ReadersInv, NEW r \in Readers, EndLoad(r)
    PROVE  /\ rd[r].pc = "load" /\ rd[r].toOpen = {}
           /\ \E m : /\ IsReader(m) /\ IsLoading(m) /\ m.pc = "open" /\ Set(r, m)
                     /\ m.since = rd[r].since /\ m.sis = rd[r].sis /\ m.docs = LoadedDocs(rd[r])
<1> DEFINE l == rd[r]
           D == LoadedDocs(l)
           m == [ClosedReader EXCEPT !.pc = "open", !.sis = l.sis, !.since = l.since, !.docs = D]
<1>1. IsReader(l) /\ IsLoading(l) /\ l.pc = "load" /\ l.toOpen = {} /\ Set(r, m)
  BY DEF ReadersInv, EndLoad
<1>2. D \subseteq Docs
  BY <1>1, LoadedDocsType
<1> HIDE DEF l, D
<1>3. /\ IsReader(m) /\ m.pc = "open" /\ m.since = l.since /\ m.sis = l.sis /\ m.docs = D
      /\ m.loaded = ClosedReader.loaded
  BY <1>1, <1>2, ClosedReaderType DEF IsReader
<1> HIDE DEF m
<1>4. IsLoading(m)
  BY <1>3, ClosedReaderType DEF IsLoading
<1> QED BY <1>1, <1>3, <1>4 DEF l, D

(* After a failure the loop tries the generation before, or goes round. *)
LEMMA FallbackIs ==
    ASSUME ReadersInv, NEW r \in Readers, Fallback(r)
    PROVE  /\ rd[r].pc = "caught"
           /\ \E m : /\ IsReader(m) /\ IsLoading(m) /\ m.pc \in {"read", "find"} /\ Set(r, m)
                     /\ m.since = rd[r].since /\ m.gen = rd[r].gen
                     /\ m.pc = "read" => /\ rd[r].run = rd[r].gen /\ m.run = m.gen - 1
                                         /\ m.run \in DOMAIN segments
                     /\ m.pc = "find" => m.run = rd[r].run /\ m.method = rd[r].method
<1> DEFINE l == rd[r]
           again == [l EXCEPT !.pc = "read", !.run = l.gen - 1]
           on == [l EXCEPT !.pc = "find"]
<1>1. IsReader(l) /\ l.pc = "caught" /\ DOMAIN l.loaded = {}
  BY DEF ReadersInv, Fallback, IsLoading
<1>2. \/ l.run = l.gen /\ l.gen > 1 /\ (l.gen - 1) \in DOMAIN segments /\ Set(r, again)
      \/ Set(r, on)
  BY Zenon DEF Fallback
<1> HIDE DEF l
<1>3. CASE l.run = l.gen /\ l.gen > 1 /\ (l.gen - 1) \in DOMAIN segments /\ Set(r, again)
  <2>1. /\ IsReader(again) /\ again.pc = "read" /\ again.since = l.since /\ again.gen = l.gen
        /\ again.run = l.gen - 1 /\ again.loaded = l.loaded
    BY <1>1, <1>3 DEF IsReader
  <2> HIDE DEF again
  <2>2. IsLoading(again)
    BY <1>1, <2>1 DEF IsLoading
  <2> QED BY <1>1, <1>3, <2>1, <2>2 DEF l
<1>4. CASE Set(r, on)
  <2>1. /\ IsReader(on) /\ on.pc = "find" /\ on.since = l.since /\ on.gen = l.gen
        /\ on.run = l.run /\ on.method = l.method /\ on.loaded = l.loaded
    BY <1>1 DEF IsReader
  <2> HIDE DEF on
  <2>2. IsLoading(on)
    BY <1>1, <2>1 DEF IsLoading
  <2> QED BY <1>1, <1>4, <2>1, <2>2 DEF l
<1> QED BY <1>2, <1>3, <1>4

(* frt_ir_open and frt_ir_close *)
LEMMA OpenIs ==
    ASSUME TypeOK, ReadersInv, NEW r \in Readers, Open(r)
    PROVE  /\ rd[r].pc \in {"closed", "open", "failed"}
           /\ \E m : /\ IsReader(m) /\ IsLoading(m) /\ m.pc = "find" /\ Set(r, m)
                     /\ m.since = committed.version /\ m.method = 0
<1> DEFINE m == [ClosedReader EXCEPT !.pc = "find", !.since = committed.version]
<1>1. rd[r].pc \in {"closed", "open", "failed"} /\ Set(r, m)
  BY DEF Open
<1>2. committed.version \in Nat /\ ClosedReader.method = 0
  BY DEF TypeOK, IsSis, ClosedReader
<1>3. /\ IsReader(m) /\ m.pc = "find" /\ m.since = committed.version /\ m.method = 0
      /\ m.loaded = ClosedReader.loaded
  BY <1>2, ClosedReaderType DEF IsReader
<1> HIDE DEF m
<1>4. IsLoading(m)
  BY <1>3, ClosedReaderType DEF IsLoading
<1> QED BY <1>1, <1>3, <1>4

LEMMA ReadersStep ==
    ASSUME TypeOK, Bounded, ReadersInv, [OpenNext]_openVars
    PROVE  ReadersInv'
<1>1. CASE Commits \/ UNCHANGED openVars
  BY <1>1 DEF Commits, openVars, ReadersInv
<1>2. ASSUME NEW r \in Readers, OpeningStep(r) PROVE ReadersInv'
  <2>1. CASE Find(r)
    <3>1. PICK m : IsReader(m) /\ m.pc \in {"failed", "found"} /\ Set(r, m) /\ m.loaded = rd[r].loaded
      BY <2>1, FindIs
    <3>2. IsLoading(m)
      BY <2>1, <3>1 DEF IsLoading, ReadersInv, Find
    <3> QED BY <3>1, <3>2, SetKeepsReaders
  <2>8. CASE Decide(r)
    <3>1. PICK m : IsReader(m) /\ m.pc \in {"failed", "read"} /\ Set(r, m) /\ m.loaded = rd[r].loaded
      BY <2>8, DecideIs
    <3>2. IsLoading(m)
      BY <2>8, <3>1 DEF IsLoading, ReadersInv, Decide
    <3> QED BY <3>1, <3>2, SetKeepsReaders
  <2>2. CASE ReadSegments(r)
    <3>1. PICK m : IsReader(m) /\ IsLoading(m) /\ Set(r, m)
      BY <2>2, ReadSegmentsIs
    <3> QED BY <3>1, SetKeepsReaders
  <2>3. CASE LoadFile(r)
    <3>1. PICK m : IsReader(m) /\ IsLoading(m) /\ Set(r, m)
      BY <2>3, LoadFileIs
    <3> QED BY <3>1, SetKeepsReaders
  <2>4. CASE EndLoad(r)
    <3>1. PICK m : IsReader(m) /\ IsLoading(m) /\ Set(r, m)
      BY <2>4, EndLoadIs
    <3> QED BY <3>1, SetKeepsReaders
  <2>5. CASE Fallback(r)
    <3>1. PICK m : IsReader(m) /\ IsLoading(m) /\ Set(r, m)
      BY <2>5, FallbackIs
    <3> QED BY <3>1, SetKeepsReaders
  <2>6. CASE Open(r)
    <3>1. PICK m : IsReader(m) /\ IsLoading(m) /\ Set(r, m)
      BY <2>6, OpenIs
    <3> QED BY <3>1, SetKeepsReaders
  <2>7. CASE Close(r)
    BY <2>7, ClosedReaderType, SetKeepsReaders DEF Close
  <2> QED BY <1>2, <2>1, <2>2, <2>3, <2>4, <2>5, <2>6, <2>7, <2>8 DEF OpeningStep
<1> QED BY <1>1, <1>2 DEF OpenNext

(* Readers change nothing in the store: the index behaves as in IndexCommit. *)
LEMMA OpenStepIsStep == [OpenNext]_openVars => [Next]_vars
BY DEF OpenNext, Commits, OpeningStep, Open, Find, Decide, ReadSegments, LoadFile, EndLoad, Fallback,
       Close, Set, openVars

LEMMA OpenInitType == OpenInit => ReadersInv /\ Bounded
<1> SUFFICES ASSUME OpenInit PROVE ReadersInv /\ Bounded
  OBVIOUS
<1>1. DOMAIN segments = {0} /\ rd = [r \in Readers |-> ClosedReader]
  BY DEF OpenInit, Init
<1>2. Bounded
  BY <1>1 DEF Bounded
<1>3. ReadersInv
  BY <1>1, ClosedReaderType DEF ReadersInv
<1> QED BY <1>2, <1>3

-----------------------------------------------------------------------------
(* Whatever the readers do, the index behaves as IndexCommit says: opening   *)
(* an index (frt_ir_open) takes no lock and changes nothing.                 *)
THEOREM ReadersDoNotInterfere == OpenSpec => Spec
<1>1. OpenInit => Init
  BY DEF OpenInit
<1> QED BY <1>1, OpenStepIsStep, PTL DEF OpenSpec, Spec

(* The inductive invariant of the readers. *)
LEMMA ReadersInvariant == OpenSpec => [](ReadersInv /\ Bounded)
<1>1. OpenSpec => [](TypeOK /\ RoleInv)
  <2>1. Init => TypeOK /\ RoleInv
    BY InitType DEF Init, RoleInv
  <2>2. TypeOK /\ RoleInv /\ [Next]_vars => (TypeOK /\ RoleInv)'
    BY StepType, RoleStep
  <2> QED BY <2>1, <2>2, ReadersDoNotInterfere, PTL DEF Spec
<1>2. TypeOK /\ RoleInv /\ ReadersInv /\ Bounded /\ [OpenNext]_openVars => (ReadersInv /\ Bounded)'
  BY ReadersStep, StaysBounded, OpenStepIsStep
<1> QED BY <1>1, <1>2, OpenInitType, PTL DEF OpenSpec

(* The local variables of sis_find_segments_file, ir_open_i and sr_open have *)
(* their types in every reader at every step, crashes included; the          *)
(* generation a reader looks for is a number although segments.gen may be    *)
(* unreadable and the directory may change.                                  *)
THEOREM OpenTypeCorrect == OpenSpec => []OpenTypeOK
<1>1. ReadersInv => OpenTypeOK
  BY DEF ReadersInv, IsReader, OpenTypeOK
<1> QED BY <1>1, ReadersInvariant, PTL

-----------------------------------------------------------------------------
(* Fresh readers *)

(* The versions grow with the generations, and, when no process dies between *)
(* writing segments_N and deleting segments_(N-1), nothing older stays.      *)
FreshStore ==
    /\ \A g \in DOMAIN segments : segments[g].version = g + 1
    /\ committed.version = committed.generation + 1
    /\ role # "none" => sis.version = sis.generation + 1
    /\ \A g \in DOMAIN segments :
         g >= committed.generation \/ (phase \in {"gen", "drop"} /\ g = committed.generation - 1)

(* A reader that is looking for a commit never goes below the generation     *)
(* that was current when it began.                                           *)
FreshReader(l) ==
    /\ l.since <= committed.version
    /\ l.pc \in {"found", "read", "load", "caught"} \/ (l.pc = "find" /\ l.method # 0)
         => l.gen >= l.since - 1
    /\ l.pc \in {"read", "load", "caught"} => l.run \in {l.gen, l.gen - 1} /\ l.run >= l.since - 1
    /\ l.pc = "caught" /\ l.run = l.since - 1 => committed.generation >= l.since
    /\ l.pc = "load" => /\ l.sis.generation = l.run /\ l.sis.version = l.run + 1
                        /\ l.run <= committed.generation
                        /\ l.run = committed.generation => l.sis = committed
    /\ l.pc = "open" => l.sis.version >= l.since

Fresh == FreshStore /\ \A r \in Readers : FreshReader(rd[r])

LEMMA KeepFresh ==
    ASSUME Inv, FreshStore, phase \notin {"gen", "drop"}, committed' = committed,
           DOMAIN segments' \subseteq DOMAIN segments,
           \A g \in DOMAIN segments' : segments'[g] = segments[g],
           role' # "none" => sis'.version = sis'.generation + 1
    PROVE  FreshStore'
<1>1. \A g \in DOMAIN segments' : g >= committed.generation /\ segments'[g].version = g + 1
  BY DEF FreshStore
<1> QED BY <1>1 DEF FreshStore

LEMMA StartCommitFresh ==
    ASSUME Inv, FreshStore, role # "none", phase \notin {"gen", "drop"},
           NEW segs, NEW c, NEW w, NEW q, NEW t, StartCommit(segs, c, w, q, t)
    PROVE  FreshStore'
<1>1. sis' = Sis(sis.generation, sis.version, c, segs) /\ segments' = segments /\ committed' = committed
  BY DEF StartCommit, store
<1>2. sis'.generation = sis.generation /\ sis'.version = sis.version
  BY <1>1, SisFields
<1>3. sis'.version = sis'.generation + 1
  BY <1>2 DEF FreshStore
<1> QED BY <1>1, <1>3, KeepFresh

LEMMA WriterStepFresh ==
    ASSUME Inv, FreshStore, WriterStep
    PROVE  FreshStore'
<1>1. CASE OpenWriter
  <2>1. PICK g \in FoundGenerations : sis' = segments[g]
    BY <1>1 DEF OpenWriter
  <2>2. sis' = committed /\ phase = "idle" /\ segments' = segments /\ committed' = committed
    BY <1>1, <2>1, OpenReadsCommitted DEF OpenWriter, store
  <2>3. sis'.version = sis'.generation + 1
    BY <2>2 DEF FreshStore
  <2> QED BY <2>2, <2>3, KeepFresh
<1>2. CASE ~OpenWriter
  <2>1. role = "writer" /\ phase = "idle"
    BY <1>2 DEF WriterStep, Flush, Optimize, CloseWriter, AddDoc, DeleteTerm, AddReaders, Idle
  <2>2. CASE Optimize \/ CloseWriter \/ \E d \in Docs : AddDoc(d)
    <3>1. /\ segments' = segments /\ committed' = committed
          /\ role' = "none" \/ (role' = role /\ sis' = sis)
      BY <2>2 DEF Optimize, CloseWriter, AddDoc, Forget, store
    <3>2. role' # "none" => sis'.version = sis'.generation + 1
      BY <2>1, <3>1 DEF FreshStore
    <3> QED BY <2>1, <3>1, <3>2, KeepFresh
  <2>3. CASE Flush
    <3>1. PICK segs, c, w, q, t : StartCommit(segs, c, w, q, t)
      BY <2>3 DEF Flush
    <3> QED BY <2>1, <3>1, StartCommitFresh
  <2>4. ASSUME NEW D \in SUBSET Docs, DeleteTerm(D) PROVE FreshStore'
    <3>1. PICK segs, c, w, q, t : StartCommit(segs, c, w, q, t)
      BY <2>4 DEF DeleteTerm
    <3> QED BY <2>1, <3>1, StartCommitFresh
  <2>5. ASSUME NEW D \in SUBSET Docs, AddReaders(D) PROVE FreshStore'
    <3>1. PICK segs, c, w, q, t : StartCommit(segs, c, w, q, t)
      BY <2>5 DEF AddReaders
    <3> QED BY <2>1, <3>1, StartCommitFresh
  <2> QED BY <1>2, <2>2, <2>3, <2>4, <2>5 DEF WriterStep
<1> QED BY <1>1, <1>2

LEMMA ReaderStepFresh ==
    ASSUME Inv, FreshStore, ReaderStep
    PROVE  FreshStore'
<1>1. CASE OpenReader
  <2>1. PICK g \in FoundGenerations : sis' = segments[g]
    BY <1>1 DEF OpenReader
  <2>2. sis' = committed /\ phase = "idle" /\ segments' = segments /\ committed' = committed
    BY <1>1, <2>1, OpenReadsCommitted DEF OpenReader, store
  <2>3. sis'.version = sis'.generation + 1
    BY <2>2 DEF FreshStore
  <2> QED BY <2>2, <2>3, KeepFresh
<1>2. CASE CommitReader
  <2>1. PICK segs, c, w, q, t : StartCommit(segs, c, w, q, t)
    BY <1>2 DEF CommitReader
  <2>2. role = "reader" /\ phase = "idle"
    BY <1>2 DEF CommitReader, Idle
  <2> QED BY <2>1, <2>2, StartCommitFresh
<1>3. CASE ~OpenReader /\ ~CommitReader
  <2>1. /\ role = "reader" /\ phase = "idle" /\ segments' = segments /\ committed' = committed
        /\ role' = "none" \/ (role' = role /\ sis' = sis)
    BY <1>3 DEF ReaderStep, UndeleteAll, CloseReader, SetNorm, DeleteDoc, ChangeReader, Forget,
                Idle, store
  <2>2. role' # "none" => sis'.version = sis'.generation + 1
    BY <2>1 DEF FreshStore
  <2> QED BY <2>1, <2>2, KeepFresh
<1> QED BY <1>1, <1>2, <1>3

LEMMA BeginSegmentsFresh ==
    ASSUME Inv, FreshStore, BeginSegments
    PROVE  FreshStore'
<1> DEFINE new == Sis(sis.generation + 1, sis.version + 1, sis.counter, sis.segs)
<1>1. /\ phase = "write" /\ sis' = new /\ segments' = Put(segments, new.generation, new)
      /\ phase' = "torn" /\ UNCHANGED <<role, committed>>
  BY DEF BeginSegments
<1>2. new.generation = sis.generation + 1 /\ new.version = sis.version + 1
  BY SisFields
<1> HIDE DEF new
<1>3. /\ role # "none" /\ sis.generation = committed.generation /\ committed.generation \in Nat
      /\ sis.version = sis.generation + 1
  BY <1>1, SisTypes DEF Inv, RoleInv, Safe, MemoryInv, FreshStore
<1>4. ASSUME NEW g \in DOMAIN segments'
      PROVE  g >= committed.generation /\ segments'[g].version = g + 1
  <2>1. CASE g = new.generation
    <3>1. segments'[g] = new
      BY <1>1, <2>1 DEF Put
    <3> QED BY <1>2, <1>3, <2>1, <3>1
  <2>2. CASE g # new.generation
    <3>1. g \in DOMAIN segments /\ segments'[g] = segments[g]
      BY <1>1, <2>2, <1>4 DEF Put
    <3> QED BY <1>1, <3>1 DEF FreshStore
  <2> QED BY <2>1, <2>2
<1> QED BY <1>1, <1>2, <1>3, <1>4 DEF FreshStore

LEMMA CommitStepFresh ==
    ASSUME Inv, FreshStore, CommitStep
    PROVE  FreshStore'
<1>1. phase # "idle" => role # "none"
  BY DEF Inv, RoleInv
<1>2. CASE MaybeMerge \/ OptimizeStep
  <2>1. phase = "merge" /\ role # "none"
    BY <1>1, <1>2 DEF MaybeMerge, OptimizeStep
  <2>2. ASSUME NEW S, MergeSegments(S) PROVE FreshStore'
    <3>1. PICK segs, c, w, q, t : StartCommit(segs, c, w, q, t)
      BY <2>2 DEF MergeSegments
    <3> QED BY <2>1, <3>1, StartCommitFresh
  <2>3. CASE UNCHANGED <<store, role, sis, committed>>
    <3>1. segments' = segments /\ sis'.version = sis'.generation + 1
      BY <2>1, <2>3 DEF store, FreshStore
    <3> QED BY <2>1, <2>3, <3>1, KeepFresh
  <2> QED BY <1>2, <2>2, <2>3 DEF MaybeMerge, OptimizeStep, EndMerges
<1>3. CASE WriteFile \/ PurgeFile \/ EndPurge
  <2>1. /\ phase \in {"write", "purge"} /\ segments' = segments
        /\ UNCHANGED <<role, sis, committed>>
    BY <1>3 DEF WriteFile, PurgeFile, EndPurge, store, memory
  <2>2. role' # "none" => sis'.version = sis'.generation + 1
    BY <2>1 DEF FreshStore
  <2> QED BY <2>1, <2>2, KeepFresh
<1>4. CASE EndSegments
  <2>1. /\ phase = "torn" /\ phase' = "gen" /\ committed' = sis /\ UNCHANGED <<segments, role, sis>>
    BY <1>4 DEF EndSegments, memory
  <2>2. /\ sis.generation = committed.generation + 1 /\ committed.generation \in Nat
        /\ DOMAIN segments \subseteq Nat /\ role # "none"
    BY <1>1, <2>1, SisTypes DEF Inv, Safe, MemoryInv, TypeOK, StoreTypeOK
  <2>3. \A g \in DOMAIN segments : g >= sis.generation \/ g = sis.generation - 1
    BY <2>1, <2>2 DEF FreshStore
  <2> QED BY <2>1, <2>2, <2>3 DEF FreshStore
<1>5. CASE WriteGen
  BY <1>5 DEF WriteGen, memory, FreshStore
<1>6. CASE DropPrevious
  <2>1. /\ phase = "drop" /\ segments' = Without(segments, {sis.generation - 1})
        /\ UNCHANGED <<role, sis, committed>>
    BY <1>6 DEF DropPrevious, memory
  <2>2. sis = committed
    BY <1>1, <2>1 DEF Inv, Safe, MemoryInv
  <2>3. /\ DOMAIN segments' = DOMAIN segments \ {committed.generation - 1}
        /\ \A g \in DOMAIN segments' : segments'[g] = segments[g]
    BY <2>1, <2>2 DEF Without
  <2> QED BY <2>1, <2>3 DEF FreshStore
<1>7. CASE DropCurrent \/ PurgeSegments
  <2>1. /\ phase \in {"dropcurr", "purge"} /\ committed' = committed
        /\ role' = "none" \/ (role' = role /\ sis' = sis)
        /\ \E g : segments' = Without(segments, {g})
    BY <1>7 DEF DropCurrent, PurgeSegments, Forget
  <2>2. DOMAIN segments' \subseteq DOMAIN segments /\ \A g \in DOMAIN segments' : segments'[g] = segments[g]
    BY <2>1 DEF Without
  <2>3. role' # "none" => sis'.version = sis'.generation + 1
    BY <2>1 DEF FreshStore
  <2> QED BY <2>1, <2>2, <2>3, KeepFresh
<1> QED BY <1>2, <1>3, <1>4, <1>5, <1>6, <1>7, BeginSegmentsFresh DEF CommitStep

LEMMA StepFresh ==
    ASSUME CrashPhases \cap {"gen", "drop"} = {}, Inv, FreshStore, [Next]_vars
    PROVE  FreshStore'
<1>1. CASE Crash
  <2>1. /\ phase \notin {"gen", "drop"} /\ segments' = segments /\ role' = "none"
        /\ committed' = committed
    BY <1>1 DEF Crash, Forget, store
  <2> QED BY <2>1, KeepFresh
<1>2. CASE UNCHANGED vars
  BY <1>2 DEF vars, store, memory, FreshStore
<1> QED BY <1>1, <1>2, WriterStepFresh, ReaderStepFresh, CommitStepFresh DEF Next

(* A step keeps the last commit, or is the one that completes the next. *)
LEMMA CommittedStep ==
    ASSUME [Next]_vars
    PROVE  committed' = committed \/ EndSegments
BY DEF Next, WriterStep, ReaderStep, CommitStep, OpenWriter, Flush, Optimize, CloseWriter,
       AddDoc, DeleteTerm, AddReaders, OpenReader, UndeleteAll, CommitReader, CloseReader,
       SetNorm, DeleteDoc, ChangeReader, MaybeMerge, OptimizeStep, MergeSegments, EndMerges,
       StartCommit, WriteFile, BeginSegments, WriteGen, DropPrevious,
       DropCurrent, PurgeFile, PurgeSegments, EndPurge, Crash, vars

LEMMA CommitsKeepFresh ==
    ASSUME Inv, FreshStore, [Next]_vars, NEW l, IsReader(l), FreshReader(l)
    PROVE  FreshReader(l)'
<1>1. /\ committed.generation \in Nat /\ committed.version = committed.generation + 1
      /\ l.gen \in Nat /\ l.since \in Nat /\ l.run \in Nat \cup {-1}
  BY SisTypes DEF Inv, FreshStore, IsReader
<1>2. CASE committed' = committed
  BY <1>2 DEF FreshReader
<1>3. CASE EndSegments
  <2>1. phase = "torn" /\ committed' = sis
    BY <1>3 DEF EndSegments
  <2>2. sis.generation = committed.generation + 1 /\ sis.version = sis.generation + 1
    BY <2>1 DEF Inv, RoleInv, Safe, MemoryInv, FreshStore
  <2> QED BY <1>1, <2>1, <2>2 DEF FreshReader
<1> QED BY <1>2, <1>3, CommittedStep

LEMMA SetKeepsFresh ==
    ASSUME ReadersInv, Fresh, NEW r \in Readers, NEW new, Set(r, new), FreshReader(new)
    PROVE  Fresh'
<1>1. rd' = [rd EXCEPT ![r] = new] /\ rd = [q \in Readers |-> rd[q]] /\ UNCHANGED vars
  BY DEF Set, ReadersInv
<1>2. \A q \in Readers : rd'[q] = IF q = r THEN new ELSE rd[q]
  BY <1>1
<1>3. FreshStore'
  BY <1>1 DEF Fresh, FreshStore, vars, store, memory
<1>4. committed' = committed
  BY <1>1 DEF vars
<1> QED BY <1>2, <1>3, <1>4 DEF Fresh, FreshReader

LEMMA OpeningStepFresh ==
    ASSUME Inv, Bounded, ReadersInv, Fresh, NEW r \in Readers, OpeningStep(r)
    PROVE  Fresh'
<1> DEFINE l == rd[r]
<1>1. /\ TypeOK /\ StoreTypeOK /\ IsReader(l) /\ IsLoading(l) /\ FreshReader(l) /\ FreshStore
      /\ committed.generation \in Nat /\ committed.version = committed.generation + 1
      /\ committed.generation \in DOMAIN segments /\ DOMAIN segments \subseteq Nat
  BY SisTypes DEF Inv, TypeOK, StoreTypeOK, Safe, StoreInv, CommitReadable, Readable, ReadersInv,
                  Fresh, FreshStore
<1>2. l.gen \in Nat /\ l.since \in Nat /\ l.run \in Nat \cup {-1}
  BY <1>1 DEF IsReader
<1>3. CASE Open(r)
  <2>1. PICK m : IsReader(m) /\ m.pc = "find" /\ Set(r, m) /\ m.since = committed.version /\ m.method = 0
    BY <1>1, <1>3, OpenIs
  <2>2. FreshReader(m)
    BY <1>1, <2>1 DEF FreshReader
  <2> QED BY <2>1, <2>2, SetKeepsFresh
<1>4. CASE Find(r)
  <2>1. PICK m : /\ IsReader(m) /\ m.pc \in {"failed", "found"} /\ Set(r, m) /\ m.since = l.since
                 /\ m.method = l.method
                 /\ m.pc = "found" /\ m.method = 0 => m.gen = CurrentGeneration
                 /\ m.pc = "found" /\ m.method # 0 => m.gen = l.gen
    BY <1>1, <1>4, FindIs
  <2>2. l.pc = "find"
    BY <1>4 DEF Find
  <2>3. CurrentGeneration >= committed.generation /\ CurrentGeneration \in Nat
    BY <1>1, CurrentIsHighest
  <2>4. l.since <= committed.generation + 1 /\ (l.method # 0 => l.gen >= l.since - 1)
    BY <1>1, <2>2 DEF FreshReader
  <2> HIDE DEF l
  <2>5. m.pc = "found" => m.gen >= l.since - 1
    BY <1>1, <1>2, <2>1, <2>3, <2>4
  <2>6. FreshReader(m)
    BY <1>1, <2>1, <2>4, <2>5 DEF FreshReader
  <2> QED BY <2>1, <2>6, SetKeepsFresh
<1>10. CASE Decide(r)
  <2>1. PICK m : /\ IsReader(m) /\ m.pc \in {"failed", "read"} /\ Set(r, m) /\ m.since = l.since
                 /\ m.gen >= l.gen
                 /\ m.pc = "read" => m.run = m.gen
    BY <1>1, <1>10, DecideIs
  <2>2. l.pc = "found"
    BY <1>10 DEF Decide
  <2>3. m.gen \in Nat
    BY <2>1 DEF IsReader
  <2>4. l.since <= committed.generation + 1 /\ l.gen >= l.since - 1
    BY <1>1, <2>2 DEF FreshReader
  <2> HIDE DEF l
  <2>5. m.gen >= l.since - 1
    BY <1>2, <2>1, <2>3, <2>4
  <2>6. FreshReader(m)
    BY <1>1, <2>1, <2>3, <2>4, <2>5 DEF FreshReader
  <2> QED BY <2>1, <2>6, SetKeepsFresh
<1>5. CASE ReadSegments(r)
  <2>1. PICK m : /\ IsReader(m) /\ m.pc \in {"load", "caught"} /\ Set(r, m)
                 /\ m.since = l.since /\ m.run = l.run /\ m.gen = l.gen
                 /\ m.pc = "load" => Readable(m.run) /\ m.sis = segments[m.run]
                 /\ m.pc = "caught" => ~Readable(m.run)
    BY <1>1, <1>5, ReadSegmentsIs
  <2>2. l.pc = "read"
    BY <1>5 DEF ReadSegments
  <2>3. /\ l.since <= committed.generation + 1 /\ l.gen >= l.since - 1
        /\ l.run \in {l.gen, l.gen - 1} /\ l.run >= l.since - 1
    BY <1>1, <2>2 DEF FreshReader
  <2>4. Readable(committed.generation) /\ segments[committed.generation] = committed
    BY DEF Inv, Safe, StoreInv, CommitReadable
  <2>5. m.pc = "load" => /\ m.sis.generation = m.run /\ m.sis.version = m.run + 1
                         /\ m.run <= committed.generation
    <3> SUFFICES ASSUME m.pc = "load" PROVE m.sis.generation = m.run /\ m.sis.version = m.run + 1
                                            /\ m.run <= committed.generation
      OBVIOUS
    <3>1. m.run \in DOMAIN segments /\ m.run \notin torn /\ m.sis = segments[m.run]
      BY <2>1 DEF Readable
    <3>2. m.sis.generation = m.run /\ m.sis.version = m.run + 1
      BY <1>1, <3>1 DEF FreshStore, StoreTypeOK
    <3>3. m.run <= committed.generation
      BY <1>1, <3>1 DEF Inv, Safe, StoreInv
    <3> QED BY <3>2, <3>3
  <2> HIDE DEF l
  <2>6. m.pc = "load" /\ m.run = committed.generation => m.sis = committed
    BY <2>1, <2>4
  <2>7. m.pc = "caught" /\ m.run = m.since - 1 => committed.generation >= m.since
    BY <1>1, <1>2, <2>1, <2>3, <2>4
  <2>8. FreshReader(m)
    BY <1>1, <2>1, <2>3, <2>5, <2>6, <2>7 DEF FreshReader
  <2> QED BY <2>1, <2>8, SetKeepsFresh
<1>6. CASE LoadFile(r)
  <2>1. PICK m, f : /\ IsReader(m) /\ m.pc \in {"load", "caught"} /\ Set(r, m)
                    /\ m.since = l.since /\ m.run = l.run /\ m.gen = l.gen /\ f \in l.toOpen
                    /\ m.pc = "load" => m.sis = l.sis
                    /\ m.pc = "caught" => f \notin DOMAIN files
    BY <1>1, <1>6, LoadFileIs
  <2>2. l.pc = "load"
    BY <1>6 DEF LoadFile
  <2>3. f \in SisFiles(l.sis.segs)
    BY <1>1, <2>1, <2>2 DEF IsLoading
  <2>4. /\ l.since <= committed.generation + 1 /\ l.gen >= l.since - 1
        /\ l.run \in {l.gen, l.gen - 1} /\ l.run >= l.since - 1
        /\ l.sis.generation = l.run /\ l.sis.version = l.run + 1
        /\ l.run <= committed.generation
        /\ l.run = committed.generation => l.sis = committed
    BY <1>1, <2>2 DEF FreshReader
  <2>5. ASSUME m.pc = "caught", m.run = m.since - 1, committed.generation < m.since PROVE FALSE
    <3>1. l.run = committed.generation
      BY <1>1, <1>2, <2>1, <2>4, <2>5
    <3>2. f \in SisFiles(committed.segs)
      BY <2>3, <2>4, <3>1
    <3>3. PICK n \in DOMAIN committed.segs : f \in SegFiles(n, committed.segs[n])
      BY <3>2 DEF SisFiles
    <3>4. f \in DOMAIN files
      BY <3>3 DEF Inv, Safe, FilesInv, CommittedIntact, Intact
    <3> QED BY <2>1, <2>5, <3>4
  <2> HIDE DEF l
  <2>6. m.pc = "caught" /\ m.run = m.since - 1 => committed.generation >= m.since
    BY <1>1, <1>2, <2>1, <2>5
  <2>7. FreshReader(m)
    BY <1>1, <2>1, <2>4, <2>6 DEF FreshReader
  <2> QED BY <2>1, <2>7, SetKeepsFresh
<1>7. CASE EndLoad(r)
  <2>1. PICK m : IsReader(m) /\ m.pc = "open" /\ Set(r, m) /\ m.since = l.since /\ m.sis = l.sis
    BY <1>1, <1>7, EndLoadIs
  <2>2. l.pc = "load"
    BY <1>7 DEF EndLoad
  <2>3. /\ l.since <= committed.generation + 1 /\ l.run >= l.since - 1 /\ l.sis.version = l.run + 1
    BY <1>1, <2>2 DEF FreshReader
  <2> HIDE DEF l
  <2>4. FreshReader(m)
    BY <1>1, <1>2, <2>1, <2>3 DEF FreshReader
  <2> QED BY <2>1, <2>4, SetKeepsFresh
<1>8. CASE Fallback(r)
  <2>1. PICK m : /\ IsReader(m) /\ m.pc \in {"read", "find"} /\ Set(r, m)
                 /\ m.since = l.since /\ m.gen = l.gen
                 /\ m.pc = "read" => l.run = l.gen /\ m.run = m.gen - 1 /\ m.run \in DOMAIN segments
    BY <1>1, <1>8, FallbackIs
  <2>2. l.pc = "caught"
    BY <1>8 DEF Fallback
  <2>3. /\ l.since <= committed.generation + 1 /\ l.gen >= l.since - 1
        /\ l.run \in {l.gen, l.gen - 1} /\ l.run >= l.since - 1
        /\ l.run = l.since - 1 => committed.generation >= l.since
    BY <1>1, <2>2 DEF FreshReader
  <2>4. \A g \in DOMAIN segments : g >= committed.generation - 1
    BY <1>1 DEF FreshStore
  <2> HIDE DEF l
  <2>5. m.pc = "read" => m.run >= m.since - 1
    BY <1>1, <1>2, <2>1, <2>3, <2>4
  <2>6. FreshReader(m)
    BY <1>1, <1>2, <2>1, <2>3, <2>5 DEF FreshReader
  <2> QED BY <2>1, <2>6, SetKeepsFresh
<1>9. CASE Close(r)
  <2>1. ClosedReader.since = 0 /\ ClosedReader.pc = "closed"
    BY DEF ClosedReader
  <2>2. FreshReader(ClosedReader)
    BY <1>1, <2>1 DEF FreshReader
  <2> QED BY <1>9, <2>2, SetKeepsFresh DEF Close
<1> QED BY <1>3, <1>4, <1>5, <1>6, <1>7, <1>8, <1>9, <1>10 DEF OpeningStep

LEMMA OpenInitFresh == OpenInit => Fresh
<1> SUFFICES ASSUME OpenInit PROVE Fresh
  OBVIOUS
<1> DEFINE empty == Sis(0, 1, 0, NoSegs)
<1>1. empty.generation = 0 /\ empty.version = 1
  BY SisFields
<1> HIDE DEF empty
<1>2. /\ segments = [g \in {0} |-> empty] /\ committed = empty /\ role = "none"
      /\ rd = [r \in Readers |-> ClosedReader]
  BY DEF OpenInit, Init, empty
<1>3. ClosedReader.since = 0 /\ ClosedReader.pc = "closed"
  BY DEF ClosedReader
<1>4. FreshStore
  BY <1>1, <1>2 DEF FreshStore
<1>5. FreshReader(ClosedReader)
  BY <1>1, <1>2, <1>3 DEF FreshReader
<1> QED BY <1>2, <1>4, <1>5 DEF Fresh

LEMMA OpenStepFresh ==
    ASSUME CrashPhases \cap {"gen", "drop"} = {}
    PROVE  Inv /\ ReadersInv /\ Bounded /\ Fresh /\ [OpenNext]_openVars => Fresh'
<1> SUFFICES ASSUME Inv, ReadersInv, Bounded, Fresh, [OpenNext]_openVars PROVE Fresh'
  OBVIOUS
<1>1. CASE Commits \/ UNCHANGED openVars
  <2>1. rd' = rd /\ [Next]_vars
    BY <1>1 DEF Commits, openVars
  <2>2. FreshStore'
    BY <2>1, StepFresh DEF Fresh
  <2>3. \A r \in Readers : FreshReader(rd[r])'
    BY <2>1, CommitsKeepFresh DEF Fresh, ReadersInv, FreshReader
  <2> QED BY <2>1, <2>2, <2>3 DEF Fresh
<1> QED BY <1>1, OpeningStepFresh DEF OpenNext

(* A reader never opens a commit older than the last one when it called      *)
(* frt_ir_open, although sis_find_segments_file falls back to the previous   *)
(* generation and believes segments.gen: the fallback finds a file only      *)
(* while the newer one is being replaced.  It fails when a process died      *)
(* after it wrote segments_N and before it deleted segments_(N-1).           *)
THEOREM OpenStaysFresh ==
    CrashPhases \cap {"torn", "gen", "drop"} = {} /\ OpenSpec => []OpenIsFresh
<1> SUFFICES ASSUME CrashPhases \cap {"torn", "gen", "drop"} = {} PROVE OpenSpec => []OpenIsFresh
  OBVIOUS
<1>1. "torn" \notin CrashPhases /\ CrashPhases \cap {"gen", "drop"} = {}
  OBVIOUS
<1>2. OpenSpec => []Inv
  BY <1>1, CommitInvariant, ReadersDoNotInterfere, PTL
<1>3. Inv /\ ReadersInv /\ Bounded /\ Fresh /\ [OpenNext]_openVars => Fresh'
  BY <1>1, OpenStepFresh
<1>4. Fresh => OpenIsFresh
  BY DEF Fresh, FreshReader, OpenIsFresh
<1> QED BY <1>2, <1>3, <1>4, OpenInitFresh, ReadersInvariant, PTL DEF OpenSpec
-----------------------------------------------------------------------------
(* Forward progress *)

(* The highest generation in the directory grows: as long as no segments_N   *)
(* is left half written, only files below the last commit are deleted.       *)
Top == IF phase = "torn" THEN committed.generation + 1 ELSE committed.generation

LEMMA CurrentIsTop ==
    ASSUME Inv, Bounded
    PROVE  CurrentGeneration = Top /\ Top \in Nat
<1>1. /\ StoreTypeOK /\ committed.generation \in Nat /\ DOMAIN segments \subseteq Nat
      /\ committed.generation \in DOMAIN segments
      /\ phase = "torn" => /\ sis.generation = committed.generation + 1
                           /\ sis.generation \in DOMAIN segments
      /\ \A g \in DOMAIN segments : g > committed.generation => phase = "torn" /\ g = sis.generation
  BY SisTypes DEF Inv, TypeOK, StoreTypeOK, Safe, StoreInv, MemoryInv, CommitReadable, Readable
<1>2. /\ CurrentGeneration \in DOMAIN segments /\ CurrentGeneration \in Nat
      /\ \A g \in DOMAIN segments : g <= CurrentGeneration
  BY <1>1, CurrentIsHighest
<1> QED BY <1>1, <1>2 DEF Top

LEMMA TopGrows ==
    ASSUME "torn" \notin CrashPhases, Inv, [Next]_vars
    PROVE  Top' >= Top /\ Top \in Nat /\ Top' \in Nat
<1>1. /\ committed.generation \in Nat
      /\ phase = "torn" => sis.generation = committed.generation + 1
  BY SisTypes DEF Inv, Safe, MemoryInv
<1>2. CASE EndSegments
  <2>1. phase = "torn" /\ phase' = "gen" /\ committed' = sis
    BY <1>2 DEF EndSegments
  <2> QED BY <1>1, <2>1 DEF Top
<1>3. CASE ~EndSegments
  <2>1. committed' = committed
    BY <1>3, CommittedStep
  <2>2. phase = "torn" => phase' = "torn"
    <3>1. phase # "idle" => role # "none"
      BY DEF Inv, RoleInv
    <3> QED
      BY <1>3, <3>1 DEF Next, WriterStep, ReaderStep, CommitStep, OpenWriter, Flush, Optimize, CloseWriter,
               AddDoc, DeleteTerm, AddReaders, OpenReader, UndeleteAll, CommitReader, CloseReader,
               SetNorm, DeleteDoc, ChangeReader, MaybeMerge, OptimizeStep, WriteFile, BeginSegments,
               WriteGen, DropPrevious, DropCurrent, PurgeFile, PurgeSegments, EndPurge, Crash, vars,
               Idle, memory
  <2> QED BY <1>1, <2>1, <2>2 DEF Top
<1> QED BY <1>2, <1>3

(* What a reader has tried, and what it will try: the generation it has in   *)
(* hand is not below the last one it tried, and comes from the directory     *)
(* until segments.gen is asked.                                              *)
Forward(l)  == l.last_gen <= l.gen /\ (l.method = 0 => l.gen <= Top)
Forwards    == \A r \in Readers : Forward(rd[r])
SameGen(l, m) == m.gen = l.gen /\ m.last_gen = l.last_gen /\ m.method = l.method

LEMMA SetKeepsForward ==
    ASSUME ReadersInv, Forwards, NEW r \in Readers, NEW new, Set(r, new), Forward(new)
    PROVE  Forwards'
<1>1. rd' = [rd EXCEPT ![r] = new] /\ rd = [q \in Readers |-> rd[q]] /\ UNCHANGED vars
  BY DEF Set, ReadersInv
<1>2. \A q \in Readers : rd'[q] = IF q = r THEN new ELSE rd[q]
  BY <1>1
<1>3. Top' = Top
  BY <1>1 DEF vars, memory, Top
<1> QED BY <1>2, <1>3 DEF Forwards, Forward

LEMMA ClosedForward == Inv => Forward(ClosedReader)
<1> SUFFICES ASSUME Inv PROVE Forward(ClosedReader)
  OBVIOUS
<1>1. committed.generation \in Nat
  BY SisTypes DEF Inv
<1> QED BY <1>1 DEF Forward, ClosedReader, Top

LEMMA OpeningStepForward ==
    ASSUME Inv, Bounded, ReadersInv, Forwards, NEW r \in Readers, OpeningStep(r)
    PROVE  Forwards'
<1> DEFINE l == rd[r]
<1>1. TypeOK /\ IsReader(l) /\ Forward(l) /\ CurrentGeneration = Top /\ Top \in Nat
  BY CurrentIsTop DEF Inv, ReadersInv, Forwards
<1>2. l.gen \in Nat /\ l.last_gen \in Nat \cup {-1}
  BY <1>1 DEF IsReader
<1>3. CASE Find(r)
  <2>1. PICK m : /\ IsReader(m) /\ m.pc \in {"failed", "found"} /\ Set(r, m)
                 /\ m.last_gen = l.last_gen /\ m.method = l.method
                 /\ m.pc = "failed" => m.gen = l.gen
                 /\ m.pc = "found" /\ m.method = 0 => m.gen = CurrentGeneration
                 /\ m.pc = "found" /\ m.method # 0 => m.gen = l.gen
    BY <1>1, <1>3, FindIs
  <2> HIDE DEF l
  <2>2. Forward(m)
    BY <1>1, <1>2, <2>1 DEF Forward
  <2> QED BY <2>1, <2>2, SetKeepsForward
<1>4. CASE Decide(r)
  <2>1. PICK m : /\ IsReader(m) /\ m.pc \in {"failed", "read"} /\ Set(r, m) /\ m.gen >= l.gen
                 /\ m.method = 0 => m.gen = l.gen /\ l.method = 0
                 /\ m.pc = "failed" => m.last_gen = l.last_gen
                 /\ m.pc = "read" => m.last_gen = m.gen
    BY <1>1, <1>4, DecideIs
  <2>2. m.gen \in Nat
    BY <2>1 DEF IsReader
  <2> HIDE DEF l
  <2>3. Forward(m)
    BY <1>1, <1>2, <2>1, <2>2 DEF Forward
  <2> QED BY <2>1, <2>3, SetKeepsForward
<1>5. CASE ReadSegments(r) \/ LoadFile(r) \/ Fallback(r)
  <2>1. \E m : Set(r, m) /\ SameGen(l, m)
    <3> HIDE DEF l
    <3>1. CASE ReadSegments(r)
      <4> DEFINE a == [l EXCEPT !.pc = "load", !.sis = segments[l.run],
                                !.toOpen = SisFiles(segments[l.run].segs)]
                 b == [l EXCEPT !.pc = "caught"]
      <4>1. Set(r, a) \/ Set(r, b)
        BY <3>1, Zenon DEF ReadSegments, l
      <4>2. SameGen(l, a) /\ SameGen(l, b)
        BY <1>1 DEF IsReader, SameGen
      <4> HIDE DEF a, b
      <4> QED BY <4>1, <4>2
    <3>2. CASE LoadFile(r)
      <4>1. PICK f : \/ Set(r, [l EXCEPT !.toOpen = @ \ {f}, !.loaded = Put(@, f, files[f])])
                     \/ Set(r, [l EXCEPT !.pc = "caught", !.sis = NoSis, !.toOpen = {},
                                         !.loaded = NoFiles])
        BY <3>2, Zenon DEF LoadFile, l
      <4> DEFINE a == [l EXCEPT !.toOpen = @ \ {f}, !.loaded = Put(@, f, files[f])]
                 b == [l EXCEPT !.pc = "caught", !.sis = NoSis, !.toOpen = {}, !.loaded = NoFiles]
      <4>2. SameGen(l, a) /\ SameGen(l, b)
        BY <1>1 DEF IsReader, SameGen
      <4>3. Set(r, a) \/ Set(r, b)
        BY <4>1
      <4> HIDE DEF a, b
      <4> QED BY <4>2, <4>3
    <3>3. CASE Fallback(r)
      <4> DEFINE a == [l EXCEPT !.pc = "read", !.run = l.gen - 1]
                 b == [l EXCEPT !.pc = "find"]
      <4>1. Set(r, a) \/ Set(r, b)
        BY <3>3, Zenon DEF Fallback, l
      <4>2. SameGen(l, a) /\ SameGen(l, b)
        BY <1>1 DEF IsReader, SameGen
      <4> HIDE DEF a, b
      <4> QED BY <4>1, <4>2
    <3> QED BY <1>5, <3>1, <3>2, <3>3
  <2>2. PICK m : Set(r, m) /\ SameGen(l, m)
    BY <2>1
  <2>3. Forward(m)
    BY <1>1, <2>2 DEF Forward, SameGen
  <2> QED BY <2>2, <2>3, SetKeepsForward
<1>6. CASE Open(r) \/ EndLoad(r) \/ Close(r)
  <2> DEFINE a == [ClosedReader EXCEPT !.pc = "find", !.since = committed.version]
             b == [ClosedReader EXCEPT !.pc = "open", !.sis = rd[r].sis, !.since = rd[r].since,
                                       !.docs = LoadedDocs(rd[r])]
  <2>1. Set(r, a) \/ Set(r, b) \/ Set(r, ClosedReader)
    BY <1>6, Zenon DEF Open, EndLoad, Close
  <2>2. SameGen(ClosedReader, a) /\ SameGen(ClosedReader, b) /\ SameGen(ClosedReader, ClosedReader)
    BY ClosedReaderType DEF IsReader, SameGen
  <2> HIDE DEF a, b
  <2>3. PICK m : Set(r, m) /\ SameGen(ClosedReader, m)
    BY <2>1, <2>2
  <2>4. Forward(m)
    BY <2>3, ClosedForward DEF Forward, SameGen
  <2> QED BY <2>3, <2>4, SetKeepsForward
<1> QED BY <1>3, <1>4, <1>5, <1>6 DEF OpeningStep

LEMMA OpenStepForward ==
    ASSUME "torn" \notin CrashPhases
    PROVE  Inv /\ ReadersInv /\ Bounded /\ Forwards /\ [OpenNext]_openVars => Forwards'
<1> SUFFICES ASSUME Inv, ReadersInv, Bounded, Forwards, [OpenNext]_openVars PROVE Forwards'
  OBVIOUS
<1>1. CASE Commits \/ UNCHANGED openVars
  <2>1. rd' = rd /\ [Next]_vars
    BY <1>1 DEF Commits, openVars
  <2>2. Top' >= Top /\ Top \in Nat /\ Top' \in Nat
    BY <2>1, TopGrows
  <2>3. ASSUME NEW r \in Readers PROVE Forward(rd[r])'
    <3>1. Forward(rd[r]) /\ rd[r].gen \in Nat /\ rd'[r] = rd[r]
      BY <2>1 DEF Forwards, ReadersInv, IsReader
    <3> QED BY <2>2, <3>1 DEF Forward
  <2> QED BY <2>3 DEF Forwards
<1> QED BY <1>1, OpeningStepForward DEF OpenNext

(* Every turn of the loop of sis_find_segments_file tries a higher           *)
(* generation than the turn before or the same one a second and last time,   *)
(* for any number of commits and readers and any GEN_LOOK_AHEAD_COUNT: the   *)
(* "forward progress" its comment asks for.  It needs that no process dies   *)
(* while its segments_N is half written: such a file is deleted later, and   *)
(* the highest generation goes back.                                         *)
THEOREM OpenGoesForward ==
    "torn" \notin CrashPhases /\ OpenSpec => ForwardProgress
<1> SUFFICES ASSUME "torn" \notin CrashPhases PROVE OpenSpec => ForwardProgress
  OBVIOUS
<1> DEFINE Turn == \A r \in Readers : rd[r].pc = "found" /\ rd'[r].pc = "read" =>
                      \/ rd'[r].gen > rd[r].last_gen
                      \/ rd'[r].gen = rd[r].last_gen /\ ~rd[r].retry /\ rd'[r].retry
<1>1. OpenSpec => []Inv
  BY CommitInvariant, ReadersDoNotInterfere, PTL
<1>2. Inv /\ ReadersInv /\ Bounded /\ Forwards /\ [OpenNext]_openVars => Forwards'
  BY OpenStepForward
<1>3. OpenInit => Forwards
  <2> SUFFICES ASSUME OpenInit PROVE Forwards
    OBVIOUS
  <2>1. rd = [r \in Readers |-> ClosedReader] /\ committed.generation = 0 /\ phase = "idle"
    BY SisFields DEF OpenInit, Init
  <2> QED BY <2>1 DEF Forwards, Forward, ClosedReader, Top
<1>4. ReadersInv /\ Forwards /\ TypeOK /\ [OpenNext]_openVars => [Turn]_openVars
  <2> SUFFICES ASSUME ReadersInv, Forwards, TypeOK, OpenNext, NEW r \in Readers,
                      rd[r].pc = "found", rd'[r].pc = "read"
               PROVE  \/ rd'[r].gen > rd[r].last_gen
                      \/ rd'[r].gen = rd[r].last_gen /\ ~rd[r].retry /\ rd'[r].retry
    OBVIOUS
  <2>1. \E q \in Readers : OpeningStep(q)
    BY DEF OpenNext, Commits
  <2>2. ASSUME NEW q \in Readers, OpeningStep(q), q # r PROVE FALSE
    <3>1. \E m : Set(q, m)
      BY <2>2, Zenon DEF OpeningStep, Open, Find, Decide, ReadSegments, LoadFile, EndLoad, Fallback, Close
    <3>2. rd'[r] = rd[r]
      BY <2>2, <3>1 DEF Set, ReadersInv
    <3> QED BY <3>2
  <2>3. OpeningStep(r)
    BY <2>1, <2>2
  <2>4. Decide(r)
    BY <2>3 DEF OpeningStep, Open, Find, ReadSegments, LoadFile, EndLoad, Fallback, Close
  <2>5. PICK m : /\ IsReader(m) /\ m.pc \in {"failed", "read"} /\ Set(r, m) /\ m.gen >= rd[r].gen
                 /\ m.pc = "read" => /\ m.last_gen = m.gen
                                     /\ rd[r].last_gen = m.gen => m.retry /\ ~rd[r].retry
    BY <2>4, DecideIs
  <2>6. rd'[r] = m
    BY <2>5 DEF Set, ReadersInv
  <2>7. /\ rd[r].last_gen <= rd[r].gen /\ rd[r].gen \in Nat /\ rd[r].last_gen \in Nat \cup {-1}
        /\ m.gen \in Nat
    BY <2>5 DEF Forwards, Forward, ReadersInv, IsReader
  <2> QED BY <2>5, <2>6, <2>7
<1>5. OpenSpec => [](ReadersInv /\ Bounded /\ Forwards /\ TypeOK)
  <2>1. Inv => TypeOK
    BY DEF Inv
  <2> QED BY <1>1, <1>2, <1>3, <2>1, ReadersInvariant, PTL DEF OpenSpec
<1>6. OpenSpec => [][Turn]_openVars
  <2> HIDE DEF Turn
  <2> QED BY <1>4, <1>5, PTL DEF OpenSpec
<1> QED BY <1>6 DEF ForwardProgress
=============================================================================
