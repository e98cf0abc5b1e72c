-------------------------- MODULE IndexCommitSafety --------------------------
(* The safety of commits, for every set of documents, every configuration    *)
(* and any number of commits, merges and crashes, as long as no process dies *)
(* while its segments_N is half written.                                     *)
EXTENDS IndexCommitProofs

(* What the process knows of the last commit in each phase. *)
MemoryInv ==
    /\ role # "none" /\ phase \notin {"write", "torn"} => sis = committed
    /\ phase = "write" => sis.generation = committed.generation
    /\ phase = "torn"  => sis.generation = committed.generation + 1
    /\ \A n \in DOMAIN sis.segs : n < sis.counter
    /\ \A n \in DOMAIN committed.segs : n < committed.counter
    /\ role = "reader" => sr.dirty \cap sr.undelete = {}

(* The segments files: only the one being written is above the last commit.  *)
StoreInv ==
    /\ CommitReadable
    /\ \A g \in DOMAIN segments : g > committed.generation => phase = "torn" /\ g = sis.generation
    /\ torn = IF phase = "torn" THEN {sis.generation} ELSE {}
    /\ phase = "torn" => segments[sis.generation] = sis

(* The data files: nothing that is written is in use, and every file of the  *)
(* next commit is either in the store or still to be written.                *)
Prepared(n, si) ==
    \A f \in SegFiles(n, si) :
        IF f \in DOMAIN todo THEN todo[f] = Content(si, f)
                             ELSE f \in DOMAIN files /\ files[f] = Content(si, f)
FilesInv ==
    /\ CommittedIntact
    /\ phase = "write" => /\ DOMAIN todo \cap SisFiles(committed.segs) = {}
                          /\ \A n \in DOMAIN sis.segs : Prepared(n, sis.segs[n])
    /\ phase = "torn" => Intact(sis.segs)

(* The deleter: a queued file is of a segment that has been named, so no new *)
(* segment takes it up, and a queued .del file is older than the current one.*)
Outdated(f, s) ==
    /\ f.seg < s.counter
    /\ f.kind = "del" /\ f.seg \in DOMAIN s.segs => f.gen < s.segs[f.seg].del_gen
QueueInv ==
    /\ QueueSafe
    /\ role = "writer" /\ phase # "purge" => \A f \in pending : Outdated(f, sis)
    /\ old_segs # {} => phase = "purge"
    /\ committed.generation \notin old_segs
    /\ role = "reader" /\ phase \in {"write", "torn"} => curr_seg = committed.generation
    /\ role = "reader" /\ phase \in {"gen", "drop", "dropcurr"} => curr_seg < committed.generation

Safe == MemoryInv /\ StoreInv /\ FilesInv /\ QueueInv
Inv  == TypeOK /\ RoleInv /\ Safe

-----------------------------------------------------------------------------
(* Lemmas *)

LEMMA SisFilesAre ==
    ASSUME NEW segs, IsMap(segs, Nat, SegInfo), NEW f \in SisFiles(segs)
    PROVE  f.seg \in DOMAIN segs /\ f \in SegFiles(f.seg, segs[f.seg])
<1>1. PICK n \in DOMAIN segs : f \in SegFiles(n, segs[n])
  BY DEF SisFiles
<1>2. n \in Nat /\ segs[n] \in SegInfo
  BY DEF IsMap
<1> QED BY <1>1, <1>2, SegFilesAre

LEMMA InSisFiles ==
    ASSUME NEW segs, NEW n \in DOMAIN segs, NEW f \in SegFiles(n, segs[n])
    PROVE  f \in SisFiles(segs)
BY DEF SisFiles

(* frt_deleter_find_deletable_files_i finds no file that is in use. *)
LEMMA InUseIsNotDeletable ==
    ASSUME NEW segs, IsMap(segs, Nat, SegInfo), NEW f \in SisFiles(segs)
    PROVE  ~IsDeletable(f, segs)
<1>1. f.seg \in DOMAIN segs /\ f \in SegFiles(f.seg, segs[f.seg])
  BY SisFilesAre
<1>2. f.seg \in Nat /\ segs[f.seg] \in SegInfo
  BY <1>1 DEF IsMap
<1>3. LET si == segs[f.seg]
      IN /\ f.kind = "core" => ~IsCompound(si)
         /\ f.kind = "cfs"  => IsCompound(si)
         /\ f.kind = "del"  => f.gen = si.del_gen
         /\ f.kind = "norm" => f.gen = si.norm_gen /\ (IsCompound(si) => f.gen > 0)
  BY <1>1, <1>2, SegFilesAre
<1> QED BY <1>1, <1>3 DEF IsDeletable, IsCfsFile

LEMMA SisTypes ==
    ASSUME TypeOK
    PROVE  /\ IsMap(sis.segs, Nat, SegInfo) /\ IsMap(committed.segs, Nat, SegInfo)
           /\ sis.counter \in Nat /\ committed.counter \in Nat /\ committed.generation \in Nat
           /\ sis.generation \in Nat \cup {-1}
BY DEF TypeOK, IsSis

(* Between two commits everybody finds the last one. *)
LEMMA FoundIsCommitted ==
    ASSUME TypeOK, StoreInv, phase # "torn"
    PROVE  /\ CurrentGeneration = committed.generation
           /\ FoundGenerations = {committed.generation}
<1>1. /\ committed.generation \in DOMAIN segments /\ DOMAIN segments \subseteq Nat
      /\ \A g \in DOMAIN segments : g <= committed.generation
      /\ committed.generation \notin torn
  BY SisTypes DEF StoreInv, CommitReadable, Readable, TypeOK, StoreTypeOK
<1>2. CurrentGeneration = committed.generation
  <2>1. CurrentGeneration = CHOOSE g \in DOMAIN segments : \A h \in DOMAIN segments : h <= g
    BY <1>1 DEF CurrentGeneration
  <2>2. \E g \in DOMAIN segments : \A h \in DOMAIN segments : h <= g
    BY <1>1
  <2>3. /\ CurrentGeneration \in DOMAIN segments
        /\ \A h \in DOMAIN segments : h <= CurrentGeneration
    BY <2>1, <2>2
  <2> QED BY <1>1, <2>3
<1> QED BY <1>1, <1>2 DEF FoundGenerations, Readable

-----------------------------------------------------------------------------
(* The operations *)

(* Entering a commit is safe if no file in use is written, every file of the *)
(* new segments is there or will be written, and no file of theirs is queued.*)
LEMMA StartCommitSafe ==
    ASSUME Inv, role # "none", phase \in {"idle", "merge"},
           NEW segs, NEW c \in Nat, NEW w, NEW q, NEW t, StartCommit(segs, c, w, q, t),
           \A n \in DOMAIN segs : n < c,
           DOMAIN w \cap SisFiles(sis.segs) = {},
           \A n \in DOMAIN segs : \A f \in SegFiles(n, segs[n]) :
               IF f \in DOMAIN w THEN w[f] = Content(segs[n], f)
                                 ELSE f \in DOMAIN files /\ files[f] = Content(segs[n], f),
           role = "writer" =>
               \A f \in pending \cup q :
                   /\ f \notin SisFiles(segs)
                   /\ f.seg < c
                   /\ f.kind = "del" /\ f.seg \in DOMAIN segs => f.gen < segs[f.seg].del_gen,
           UNCHANGED sr, role = "reader" => curr_seg' = committed.generation
    PROVE  Safe'
<1>1. sis = committed
  BY DEF Inv, Safe, MemoryInv
<1>2. sis' = Sis(sis.generation, sis.version, c, segs)
  BY DEF StartCommit
<1>3. /\ sis'.generation = committed.generation /\ sis'.counter = c /\ sis'.segs = segs
      /\ phase' = "write" /\ role' = role /\ committed' = committed /\ todo' = w
      /\ pending' = pending \cup q /\ old_segs' = old_segs
      /\ files' = files /\ segments' = segments /\ torn' = torn
  BY <1>1, <1>2, SisFields DEF StartCommit, store
<1>4. MemoryInv'
  BY <1>3 DEF Inv, Safe, MemoryInv
<1>5. StoreInv'
  BY <1>3 DEF Inv, Safe, StoreInv, CommitReadable, Readable
<1>6. FilesInv'
  <2>1. CommittedIntact'
    BY <1>3 DEF Inv, Safe, FilesInv, CommittedIntact, Intact
  <2>2. DOMAIN todo' \cap SisFiles(committed'.segs) = {}
    BY <1>1, <1>3
  <2>3. (\A n \in DOMAIN sis.segs : Prepared(n, sis.segs[n]))'
    BY <1>3 DEF Prepared
  <2> QED BY <1>3, <2>1, <2>2, <2>3 DEF FilesInv
<1>7. QueueInv'
  <2>1. QueueSafe'
    BY <1>3 DEF QueueSafe
  <2>2. ASSUME role = "writer", NEW f \in pending' PROVE Outdated(f, sis')
    <3>1. /\ f.seg < c
          /\ f.kind = "del" /\ f.seg \in DOMAIN segs => f.gen < segs[f.seg].del_gen
      BY <1>3, <2>2
    <3>2. sis'.counter = c /\ sis'.segs = segs
      BY <1>3
    <3> QED BY <3>1, <3>2 DEF Outdated
  <2>3. old_segs' = {}
    BY <1>3 DEF Inv, Safe, QueueInv
  <2>4. role' = "writer" => \A f \in pending' : Outdated(f, sis)'
    BY <1>3, <2>2 DEF Outdated
  <2>5. role' = "reader" => curr_seg' = committed'.generation
    BY <1>3
  <2> QED BY <1>3, <2>1, <2>3, <2>4, <2>5 DEF QueueInv
<1> QED BY <1>4, <1>5, <1>6, <1>7 DEF Safe

(* A new segment, in the place of the segments in old. *)
LEMMA NewSegmentSafe ==
    ASSUME Inv, role = "writer", phase \in {"idle", "merge"},
           NEW old \in SUBSET DOMAIN sis.segs, NEW D \in SUBSET Docs,
           NEW F \in {"plain", "compound"}, NEW segs, NEW q, NEW t,
           NEW k, k = sis.counter, NEW si, si = NewSegInfo(D, F),
           DOMAIN segs = (DOMAIN sis.segs \ old) \cup {k}, segs[k] = si,
           \A n \in DOMAIN sis.segs \ old : segs[n] = sis.segs[n],
           \A f \in q : f \in CopiedFiles(k, si) \/ f.seg \in old,
           StartCommit(segs, k + 1, NewSegFiles(k, si), q, t), UNCHANGED sr
    PROVE  Safe'
<1> DEFINE w == NewSegFiles(k, si)
<1>1. sis = committed /\ TypeOK /\ CommittedIntact
  BY DEF Inv, Safe, MemoryInv, FilesInv
<1>2. /\ k \in Nat /\ IsMap(sis.segs, Nat, SegInfo)
      /\ \A n \in DOMAIN sis.segs : n \in Nat /\ sis.segs[n] \in SegInfo /\ n < k
  BY <1>1, SisTypes, SegsType DEF Inv, Safe, MemoryInv
<1>3. /\ \A f \in DOMAIN w : f.seg = k
      /\ \A f \in SegFiles(k, si) : f \in DOMAIN w /\ w[f] = Content(si, f)
      /\ \A f \in CopiedFiles(k, si) : f.seg = k /\ f.kind # "del" /\ f \notin SegFiles(k, si)
  BY <1>2, NewSegFilesAre
<1>4. si \in SegInfo
  BY NewSegInfoType
<1> HIDE DEF w
<1>6. \A n \in DOMAIN segs : n \in Nat /\ n < k + 1 /\ segs[n] \in SegInfo
  BY <1>2, <1>4
<1>7. DOMAIN w \cap SisFiles(sis.segs) = {}
  <2> SUFFICES ASSUME NEW f \in DOMAIN w, f \in SisFiles(sis.segs) PROVE FALSE
    OBVIOUS
  <2>1. f.seg \in DOMAIN sis.segs
    BY <1>2, SisFilesAre
  <2> QED BY <1>2, <1>3, <2>1
<1>8. ASSUME NEW n \in DOMAIN segs, NEW f \in SegFiles(n, segs[n])
      PROVE  IF f \in DOMAIN w THEN w[f] = Content(segs[n], f)
                               ELSE f \in DOMAIN files /\ files[f] = Content(segs[n], f)
  <2>1. CASE n = k
    BY <1>3, <1>8, <2>1
  <2>2. CASE n # k
    <3>1. n \in DOMAIN sis.segs /\ segs[n] = sis.segs[n]
      BY <2>2
    <3>2. f.seg = n
      BY <1>2, <1>8, <3>1, SegFilesAre
    <3>3. f \notin DOMAIN w
      BY <1>3, <2>2, <3>2
    <3> QED BY <1>1, <1>8, <3>1, <3>3 DEF CommittedIntact, Intact
  <2> QED BY <2>1, <2>2
<1>9. ASSUME NEW f \in pending \cup q
      PROVE  /\ f \notin SisFiles(segs)
             /\ f.seg < k + 1
             /\ f.kind = "del" /\ f.seg \in DOMAIN segs => f.gen < segs[f.seg].del_gen
  <2>1. ASSUME f \in SisFiles(segs) PROVE f.seg \in DOMAIN segs /\ f \in SegFiles(f.seg, segs[f.seg])
    <3>1. PICK n \in DOMAIN segs : f \in SegFiles(n, segs[n])
      BY <2>1 DEF SisFiles
    <3>2. f.seg = n
      BY <1>6, <3>1, SegFilesAre
    <3> QED BY <3>1, <3>2
  <2>2. CASE f \in q /\ f.seg \in old
    <3>1. f.seg < k /\ f.seg \notin DOMAIN segs /\ f.seg \in Nat
      BY <1>2, <2>2
    <3> QED BY <1>2, <2>1, <3>1
  <2>3. CASE f \in CopiedFiles(k, si)
    <3>1. f.seg = k /\ f.kind # "del" /\ f \notin SegFiles(k, si)
      BY <1>3, <2>3
    <3> QED BY <1>2, <2>1, <3>1
  <2>4. CASE f \in pending
    <3>1. f.seg < k /\ f \notin SisFiles(sis.segs) /\ f \in DataFile
          /\ (f.kind = "del" /\ f.seg \in DOMAIN sis.segs => f.gen < sis.segs[f.seg].del_gen)
      BY <1>1, <2>4 DEF Inv, Safe, QueueInv, QueueSafe, Outdated, TypeOK
    <3>2. f.seg \in Nat /\ f.seg < k + 1 /\ f.seg # k
      BY <1>2, <3>1 DEF DataFile
    <3>3. f.seg \in DOMAIN segs => f.seg \in DOMAIN sis.segs /\ segs[f.seg] = sis.segs[f.seg]
      BY <3>2
    <3> QED BY <2>1, <3>1, <3>2, <3>3, InSisFiles
  <2> QED BY <2>2, <2>3, <2>4
<1>10. k + 1 \in Nat /\ StartCommit(segs, k + 1, w, q, t)
  BY <1>2 DEF w
<1> QED BY <1>6, <1>7, <1>8, <1>9, <1>10, StartCommitSafe

LEMMA FlushSafe ==
    ASSUME Inv, Flush
    PROVE  Safe'
<1> DEFINE n == sis.counter
           si == NewSegInfo(buffer, Format)
           segs == Put(sis.segs, n, si)
           Q == CopiedFiles(n, si)
           none == {}
<1>1. /\ buffer \in SUBSET Docs /\ Format \in {"plain", "compound"}
      /\ role = "writer" /\ phase = "idle"
  BY CommitConstants DEF Inv, TypeOK, Flush, Idle
<1>2. /\ StartCommit(segs, n + 1, NewSegFiles(n, si), Q, "purge")
      /\ UNCHANGED sr
  BY DEF Flush
<1>3. \A m \in DOMAIN sis.segs : m # n
  BY SegsType, SisTypes DEF Inv, Safe, MemoryInv
<1> HIDE DEF n, si
<1>4. /\ DOMAIN segs = (DOMAIN sis.segs \ none) \cup {n} /\ segs[n] = si
      /\ \A m \in DOMAIN sis.segs \ none : segs[m] = sis.segs[m]
  <2>1. /\ DOMAIN segs = DOMAIN sis.segs \cup {n} /\ segs[n] = si
        /\ \A m \in DOMAIN sis.segs : m # n => segs[m] = sis.segs[m]
    BY DEF Put
  <2> QED BY <1>3, <2>1
<1>5. /\ none \in SUBSET DOMAIN sis.segs
      /\ \A f \in Q : f \in CopiedFiles(n, si) \/ f.seg \in none
  OBVIOUS
<1> HIDE DEF segs, Q, none
<1>6. n = sis.counter /\ si = NewSegInfo(buffer, Format) /\ phase \in {"idle", "merge"}
  BY <1>1 DEF n, si
<1> QED BY <1>1, <1>2, <1>4, <1>5, <1>6, NewSegmentSafe

LEMMA AddReadersSafe ==
    ASSUME Inv, NEW D \in SUBSET Docs, AddReaders(D)
    PROVE  Safe'
<1> DEFINE n == sis.counter
           si == NewSegInfo(D, "plain")
           segs == Put(sis.segs, n, si)
           none == {}
           Q == {}
           F == "plain"
<1>1. /\ role = "writer" /\ phase = "idle"
      /\ StartCommit(segs, n + 1, NewSegFiles(n, si), {}, "return")
      /\ UNCHANGED sr
  BY DEF AddReaders, Idle
<1>2. \A m \in DOMAIN sis.segs : m # n
  BY SegsType, SisTypes DEF Inv, Safe, MemoryInv
<1> HIDE DEF n, si
<1>3. /\ DOMAIN segs = (DOMAIN sis.segs \ none) \cup {n} /\ segs[n] = si
      /\ \A m \in DOMAIN sis.segs \ none : segs[m] = sis.segs[m]
  <2>1. /\ DOMAIN segs = DOMAIN sis.segs \cup {n} /\ segs[n] = si
        /\ \A m \in DOMAIN sis.segs : m # n => segs[m] = sis.segs[m]
    BY DEF Put
  <2> QED BY <1>2, <2>1
<1>4. /\ none \in SUBSET DOMAIN sis.segs
      /\ \A f \in Q : f \in CopiedFiles(n, si) \/ f.seg \in none
  OBVIOUS
<1>5. n = sis.counter /\ si = NewSegInfo(D, F) /\ phase \in {"idle", "merge"}
  BY <1>1 DEF n, si
<1>6. F \in {"plain", "compound"} /\ StartCommit(segs, n + 1, NewSegFiles(n, si), Q, "return")
  BY <1>1
<1> HIDE DEF segs, none, Q, F
<1> QED BY <1>1, <1>3, <1>4, <1>5, <1>6, NewSegmentSafe

LEMMA MergeSegmentsSafe ==
    ASSUME Inv, role = "writer", phase = "merge",
           NEW S \in SUBSET DOMAIN sis.segs, MergeSegments(S)
    PROVE  Safe'
<1> DEFINE n == sis.counter
           D == UNION {sis.segs[m].docs \ sis.segs[m].dels : m \in S}
           si == NewSegInfo(D, Format)
           segs == Put(Without(sis.segs, S), n, si)
           Q == CopiedFiles(n, si) \cup UNION {SiDeleteFiles(m, sis.segs[m]) : m \in S}
<1>1. D \in SUBSET Docs /\ Format \in {"plain", "compound"}
  BY DocsOfSegs, CommitConstants DEF Inv
<1>2. StartCommit(segs, n + 1, NewSegFiles(n, si), Q, "purge") /\ UNCHANGED sr
  BY DEF MergeSegments
<1>3. \A m \in DOMAIN sis.segs : m # n
  BY SegsType, SisTypes DEF Inv, Safe, MemoryInv
<1>4. /\ DOMAIN Without(sis.segs, S) = DOMAIN sis.segs \ S
      /\ \A m \in DOMAIN sis.segs \ S : Without(sis.segs, S)[m] = sis.segs[m]
  BY WithoutValues
<1> HIDE DEF n, si
<1>5. /\ DOMAIN segs = (DOMAIN sis.segs \ S) \cup {n} /\ segs[n] = si
      /\ \A m \in DOMAIN sis.segs \ S : segs[m] = sis.segs[m]
  <2> DEFINE W == Without(sis.segs, S)
  <2> HIDE DEF W
  <2>1. /\ DOMAIN segs = DOMAIN W \cup {n} /\ segs[n] = si
        /\ \A m \in DOMAIN W : m # n => segs[m] = W[m]
    BY DEF W, Put
  <2> QED BY <1>3, <1>4, <2>1 DEF W
<1>6. \A m \in S : \A f \in SiDeleteFiles(m, sis.segs[m]) : f.seg \in S
  BY SegsType, SiDeleteFilesAre DEF Inv
<1>7. \A f \in Q : f \in CopiedFiles(n, si) \/ f.seg \in S
  BY <1>6
<1> HIDE DEF segs, D, Q
<1>8. n = sis.counter /\ si = NewSegInfo(D, Format) /\ phase \in {"idle", "merge"}
  BY DEF n, si
<1> QED BY <1>1, <1>2, <1>5, <1>7, <1>8, NewSegmentSafe

(* A file of a changed segment info that the change did not touch. *)
LEMMA SameFile ==
    ASSUME NEW n \in Nat, NEW old \in SegInfo, NEW new \in SegInfo, NEW f \in SegFiles(n, new),
           new.docs = old.docs, new.format = old.format,
           f.kind = "norm" => new.norm_gen = old.norm_gen,
           f.kind = "del" => new.del_gen = old.del_gen /\ new.dels = old.dels
    PROVE  f \in SegFiles(n, old) /\ Content(new, f) = Content(old, f)
<1>1. /\ f.kind = "del"  => f \in DelFiles(n, new)
      /\ f.kind = "norm" => f \in NormFiles(n, new)
  BY SegFilesAre
<1>2. f.kind = "del" => f \in SegFiles(n, old)
  BY <1>1 DEF DelFiles, SegFiles, HasDeletions
<1>3. ASSUME f.kind = "norm" PROVE f \in SegFiles(n, old)
  <2>1. f \in NormFiles(n, old)
    BY <1>1, <1>3 DEF NormFiles
  <2>2. IsCompound(new) => HasSeparateNorms(old)
    <3>1. IsCompound(new) => f.gen > 0 /\ f.gen = new.norm_gen
      BY <1>3, SegFilesAre
    <3> QED BY <1>3, <3>1 DEF HasSeparateNorms, IsCompound
  <2> QED BY <2>1, <2>2 DEF SegFiles, IsCompound
<1>4. ASSUME f.kind \notin {"del", "norm"} PROVE f \in SegFiles(n, old)
  <2>1. f \notin DelFiles(n, new) /\ f \notin NormFiles(n, new)
    BY <1>4, DelFilesAre, NormFilesAre
  <2> QED BY <2>1 DEF SegFiles, IsCompound
<1>5. Content(new, f) = Content(old, f)
  BY DEF Content
<1> QED BY <1>2, <1>3, <1>4, <1>5

(* The names of the .del and norms files of a segment. *)
LEMMA TheDelFile ==
    ASSUME NEW n \in Nat, NEW si \in SegInfo, NEW f \in SegFiles(n, si)
    PROVE  /\ f.kind = "del" => f = DelFile(n, si.del_gen) /\ si.del_gen >= 0
           /\ f.kind = "norm" => f = NormFile(n, si.norm_gen)
<1>1. /\ f.kind = "del"  => f \in DelFiles(n, si)
      /\ f.kind = "norm" => f \in NormFiles(n, si)
  BY SegFilesAre
<1> QED BY <1>1 DEF DelFiles, NormFiles, HasDeletions

(* The segment infos and the files of a commit of deletions. *)
Deleted(old, hit, deleted, segs, new) ==
    /\ IsMap(segs, Nat, SegInfo) /\ DOMAIN segs = DOMAIN old
    /\ \A n \in DOMAIN old \ hit : segs[n] = old[n]
    /\ \A n \in hit : /\ segs[n].docs = old[n].docs /\ segs[n].dels = deleted[n]
                      /\ segs[n].del_gen = old[n].del_gen + 1
                      /\ segs[n].norm_gen = old[n].norm_gen
                      /\ segs[n].format = old[n].format
    /\ \A f \in DOMAIN new : /\ f.seg \in hit /\ f.kind = "del"
                             /\ f.gen = old[f.seg].del_gen + 1
                             /\ new[f] = deleted[f.seg]
    /\ \A n \in hit : DelFile(n, old[n].del_gen + 1) \in DOMAIN new

LEMMA DeletedSegs ==
    ASSUME NEW old, IsMap(old, Nat, SegInfo), NEW hit \in SUBSET DOMAIN old, NEW deleted,
           \A n \in hit : deleted[n] \subseteq Docs,
           NEW segs, segs = WithDeletions(old, hit, deleted),
           NEW new, new = NewDelFiles(old, hit, deleted)
    PROVE  Deleted(old, hit, deleted, segs, new)
<1>1. IsMap(segs, Nat, SegInfo) /\ DOMAIN segs = DOMAIN old
  BY WithDeletionsType
<1>2. \A n \in DOMAIN old \ hit : segs[n] = old[n]
  BY DEF WithDeletions
<1>3. \A n \in hit : /\ segs[n].docs = old[n].docs /\ segs[n].dels = deleted[n]
                     /\ segs[n].del_gen = old[n].del_gen + 1
                     /\ segs[n].norm_gen = old[n].norm_gen
                     /\ segs[n].format = old[n].format
  BY WithDeletionsType
<1>4. \A f \in DOMAIN new : new[f] = deleted[f.seg]
  BY DEF NewDelFiles
<1>5. ASSUME NEW f \in DOMAIN new
      PROVE  f.seg \in hit /\ f.kind = "del" /\ f.gen = old[f.seg].del_gen + 1
  <2>1. PICK n \in hit : f = DelFile(n, old[n].del_gen + 1)
    BY DEF NewDelFiles
  <2>2. n \in Nat /\ old[n].del_gen + 1 \in Nat
    BY DEF IsMap, SegInfo
  <2> QED BY <2>1, <2>2, FileNames
<1>6. \A n \in hit : DelFile(n, old[n].del_gen + 1) \in DOMAIN new
  BY NewDelFilesAre
<1> QED BY <1>1, <1>2, <1>3, <1>4, <1>5, <1>6 DEF Deleted

LEMMA DeleteTermSafe ==
    ASSUME Inv, NEW D \in SUBSET Docs, DeleteTerm(D)
    PROVE  Safe'
<1> DEFINE hit == {n \in DOMAIN sis.segs : D \cap (sis.segs[n].docs \ sis.segs[n].dels) # {}}
           deleted == [n \in DOMAIN sis.segs |-> sis.segs[n].dels \cup (D \cap sis.segs[n].docs)]
           segs == WithDeletions(sis.segs, hit, deleted)
           new == NewDelFiles(sis.segs, hit, deleted)
           Q == UNION {DelFiles(n, sis.segs[n]) : n \in hit}
<1>1. /\ StartCommit(segs, sis.counter, new, Q, "return") /\ role = "writer" /\ phase = "idle"
      /\ UNCHANGED sr
  BY DEF DeleteTerm, Idle
<1>2. TypeOK /\ sis = committed /\ CommittedIntact
  BY <1>1 DEF Inv, Safe, MemoryInv, FilesInv
<1>3. /\ IsMap(sis.segs, Nat, SegInfo) /\ sis.counter \in Nat
      /\ \A n \in DOMAIN sis.segs : n \in Nat /\ sis.segs[n] \in SegInfo /\ n < sis.counter
                                    /\ sis.segs[n].del_gen \in Nat \cup {-1}
  BY <1>2, SisTypes, SegsType DEF Inv, Safe, MemoryInv, SegInfo
<1>4. (\A n \in hit : deleted[n] \subseteq Docs) /\ hit \in SUBSET DOMAIN sis.segs
  BY <1>3 DEF SegInfo
<1> HIDE DEF hit, deleted
<1>d. Deleted(sis.segs, hit, deleted, segs, new)
  BY <1>3, <1>4, DeletedSegs
<1> HIDE DEF segs, new
<1>5. /\ IsMap(segs, Nat, SegInfo) /\ DOMAIN segs = DOMAIN sis.segs
      /\ \A n \in DOMAIN sis.segs \ hit : segs[n] = sis.segs[n]
      /\ \A n \in hit : /\ segs[n].docs = sis.segs[n].docs /\ segs[n].dels = deleted[n]
                        /\ segs[n].del_gen = sis.segs[n].del_gen + 1
                        /\ segs[n].norm_gen = sis.segs[n].norm_gen
                        /\ segs[n].format = sis.segs[n].format
  BY <1>d DEF Deleted
<1>6. /\ \A f \in DOMAIN new : /\ f.seg \in hit /\ f.kind = "del"
                               /\ f.gen = sis.segs[f.seg].del_gen + 1
                               /\ new[f] = deleted[f.seg]
      /\ \A n \in hit : DelFile(n, sis.segs[n].del_gen + 1) \in DOMAIN new
  BY <1>d DEF Deleted
<1>7. \A f \in Q : f.seg \in hit /\ f.kind = "del" /\ f.gen = sis.segs[f.seg].del_gen
  BY <1>3, <1>4, DelFilesAre
<1> HIDE DEF Q
<1>8. \A n \in DOMAIN segs : n \in Nat /\ segs[n] \in SegInfo
  BY <1>5 DEF IsMap
<1>9. DOMAIN new \cap SisFiles(sis.segs) = {}
  <2> SUFFICES ASSUME NEW f \in DOMAIN new, f \in SisFiles(sis.segs) PROVE FALSE
    OBVIOUS
  <2>1. f.seg \in DOMAIN sis.segs /\ f \in SegFiles(f.seg, sis.segs[f.seg])
    BY <1>3, SisFilesAre
  <2>2. f.gen = sis.segs[f.seg].del_gen
    BY <1>3, <1>6, <2>1, SegFilesAre
  <2> QED BY <1>3, <1>6, <2>1, <2>2
\* a file of the new segment infos is a file of the old ones, or a new .del file
<1>10. ASSUME NEW n \in DOMAIN segs, NEW f \in SegFiles(n, segs[n])
       PROVE  /\ f.seg = n
              /\ \/ /\ f.kind = "del" /\ n \in hit /\ f = DelFile(n, sis.segs[n].del_gen + 1)
                    /\ f.gen = sis.segs[n].del_gen + 1
                 \/ /\ f \in SegFiles(n, sis.segs[n]) /\ Content(segs[n], f) = Content(sis.segs[n], f)
                    /\ f.kind = "del" => n \notin hit
  <2>1. n \in Nat /\ segs[n] \in SegInfo /\ sis.segs[n] \in SegInfo /\ n \in DOMAIN sis.segs
    BY <1>3, <1>5, <1>8
  <2>2. f.seg = n
    BY <2>1, SegFilesAre
  <2>3. CASE n \notin hit
    BY <1>5, <2>1, <2>2, <2>3
  <2>4. CASE n \in hit /\ f.kind = "del"
    <3>1. f = DelFile(n, segs[n].del_gen) /\ f.gen = segs[n].del_gen
      BY <2>1, <2>4, TheDelFile, SegFilesAre
    <3> QED BY <1>5, <2>2, <2>4, <3>1
  <2>5. CASE n \in hit /\ f.kind # "del"
    <3>1. f \in SegFiles(n, sis.segs[n]) /\ Content(segs[n], f) = Content(sis.segs[n], f)
      BY <1>5, <2>1, <2>5, SameFile
    <3> QED BY <2>2, <2>5, <3>1
  <2> QED BY <2>3, <2>4, <2>5
<1>11. ASSUME NEW n \in DOMAIN segs, NEW f \in SegFiles(n, segs[n])
       PROVE  IF f \in DOMAIN new THEN new[f] = Content(segs[n], f)
                                  ELSE f \in DOMAIN files /\ files[f] = Content(segs[n], f)
  <2>1. CASE f.kind = "del" /\ n \in hit
    BY <1>5, <1>6, <1>10, <2>1 DEF Content
  <2>2. CASE ~(f.kind = "del" /\ n \in hit)
    <3>1. f \notin DOMAIN new
      BY <1>6, <1>10, <2>2
    <3>2. n \in DOMAIN sis.segs /\ f \in SegFiles(n, sis.segs[n])
          /\ Content(segs[n], f) = Content(sis.segs[n], f)
      BY <1>5, <1>10, <2>2
    <3> QED BY <1>2, <3>1, <3>2 DEF CommittedIntact, Intact
  <2> QED BY <2>1, <2>2
<1>12. ASSUME NEW f \in pending \cup Q
       PROVE  /\ f \notin SisFiles(segs)
              /\ f.seg < sis.counter
              /\ f.kind = "del" /\ f.seg \in DOMAIN segs => f.gen < segs[f.seg].del_gen
  <2>1. ASSUME f \in SisFiles(segs)
        PROVE  /\ f.seg \in DOMAIN sis.segs
               /\ \/ f.kind = "del" /\ f.seg \in hit /\ f.gen = sis.segs[f.seg].del_gen + 1
                  \/ f \in SegFiles(f.seg, sis.segs[f.seg]) /\ (f.kind = "del" => f.seg \notin hit)
    <3>1. f.seg \in DOMAIN segs /\ f \in SegFiles(f.seg, segs[f.seg])
      BY <1>5, <2>1, SisFilesAre
    <3> QED BY <1>5, <1>10, <3>1
  <2>2. CASE f \in Q
    BY <1>3, <1>4, <1>5, <1>7, <2>1, <2>2
  <2>3. CASE f \in pending
    <3>1. f.seg < sis.counter /\ f \notin SisFiles(sis.segs) /\ f \in DataFile
          /\ (f.kind = "del" /\ f.seg \in DOMAIN sis.segs => f.gen < sis.segs[f.seg].del_gen)
      BY <1>1, <2>3 DEF Inv, Safe, QueueInv, QueueSafe, Outdated, TypeOK
    <3>2. f.gen \in Nat
      BY <3>1 DEF DataFile
    <3>3. f \notin SisFiles(segs)
      BY <1>3, <2>1, <3>1, <3>2, InSisFiles
    <3>4. f.kind = "del" /\ f.seg \in DOMAIN segs => f.gen < segs[f.seg].del_gen
      BY <1>3, <1>5, <3>1, <3>2
    <3> QED BY <3>1, <3>3, <3>4
  <2> QED BY <2>2, <2>3
<1> QED BY <1>1, <1>3, <1>5, <1>9, <1>11, <1>12, StartCommitSafe

LEMMA CommitReaderSafe ==
    ASSUME Inv, CommitReader
    PROVE  Safe'
<1> DEFINE Q == (UNION {DelFiles(n, sis.segs[n]) : n \in sr.undelete \cup sr.dirty})
                  \cup (UNION {NormFiles(n, sis.segs[n]) : n \in sr.norms})
           segs == ReaderSegs
           new == ReaderFiles(segs)
<1>1. /\ StartCommit(segs, sis.counter, new, Q, "return") /\ role = "reader" /\ phase = "idle"
      /\ curr_seg' = CurrentGeneration /\ UNCHANGED sr
  BY DEF CommitReader, Idle
<1>2. /\ TypeOK /\ sis = committed /\ CommittedIntact /\ StoreInv
      /\ sr.dirty \cap sr.undelete = {} /\ sr.dirty \cup sr.norms \subseteq DOMAIN sis.segs
  BY <1>1 DEF Inv, Safe, MemoryInv, FilesInv, TypeOK, ReaderTypeOK
<1>3. curr_seg' = committed.generation
  BY <1>1, <1>2, FoundIsCommitted
<1>4. /\ IsMap(sis.segs, Nat, SegInfo) /\ sis.counter \in Nat
      /\ \A n \in DOMAIN sis.segs : n \in Nat /\ sis.segs[n] \in SegInfo /\ n < sis.counter
                                    /\ sis.segs[n].del_gen \in Nat \cup {-1}
                                    /\ sis.segs[n].norm_gen \in Nat \cup {-1}
  BY <1>2, SisTypes, SegsType DEF Inv, Safe, MemoryInv, SegInfo
<1>5. /\ IsMap(segs, Nat, SegInfo) /\ DOMAIN segs = DOMAIN sis.segs
      /\ \A n \in DOMAIN sis.segs :
            LET old == sis.segs[n]
            IN /\ segs[n].docs = old.docs /\ segs[n].format = old.format
               /\ segs[n].norm_gen = IF n \in sr.norms THEN old.norm_gen + 1 ELSE old.norm_gen
               /\ n \notin sr.undelete /\ n \notin sr.dirty
                    => segs[n].del_gen = old.del_gen /\ segs[n].dels = old.dels
               /\ n \in sr.dirty => segs[n].del_gen = old.del_gen + 1
               /\ n \in sr.undelete => segs[n].del_gen = -1
  BY <1>1, <1>2, ReaderSegsAre
<1>6. /\ \A f \in DOMAIN new :
            /\ f.seg \in DOMAIN sis.segs /\ new[f] = Content(segs[f.seg], f)
            /\ \/ f.kind = "del" /\ f.seg \in sr.dirty /\ f.gen = segs[f.seg].del_gen
               \/ f.kind = "norm" /\ f.seg \in sr.norms /\ f.gen = segs[f.seg].norm_gen
      /\ \A n \in sr.dirty : DelFile(n, segs[n].del_gen) \in DOMAIN new
      /\ \A n \in sr.norms : NormFile(n, segs[n].norm_gen) \in DOMAIN new
  BY <1>1, <1>2, ReaderFilesAre
<1> HIDE DEF segs, new, Q
<1>7. \A n \in DOMAIN segs : n \in Nat /\ segs[n] \in SegInfo
  BY <1>5 DEF IsMap
<1>8. DOMAIN new \cap SisFiles(sis.segs) = {}
  <2> SUFFICES ASSUME NEW f \in DOMAIN new, f \in SisFiles(sis.segs) PROVE FALSE
    OBVIOUS
  <2>1. f.seg \in DOMAIN sis.segs /\ f \in SegFiles(f.seg, sis.segs[f.seg])
    BY <1>4, SisFilesAre
  <2>2. /\ f.kind = "del" => f.gen = sis.segs[f.seg].del_gen
        /\ f.kind = "norm" => f.gen = sis.segs[f.seg].norm_gen
    BY <1>4, <2>1, SegFilesAre
  <2> QED BY <1>4, <1>5, <1>6, <2>1, <2>2
<1>9. ASSUME NEW n \in DOMAIN segs, NEW f \in SegFiles(n, segs[n])
      PROVE  IF f \in DOMAIN new THEN new[f] = Content(segs[n], f)
                                 ELSE f \in DOMAIN files /\ files[f] = Content(segs[n], f)
  <2>1. n \in Nat /\ segs[n] \in SegInfo /\ sis.segs[n] \in SegInfo /\ n \in DOMAIN sis.segs
    BY <1>4, <1>5, <1>7
  <2>2. f.seg = n /\ (f.kind = "del" => f = DelFile(n, segs[n].del_gen) /\ segs[n].del_gen >= 0)
        /\ (f.kind = "norm" => f = NormFile(n, segs[n].norm_gen))
    BY <2>1, SegFilesAre, TheDelFile
  <2>3. CASE f \in DOMAIN new
    BY <1>6, <2>2, <2>3
  <2>4. CASE f \notin DOMAIN new
    <3>1. f.kind = "del" => n \notin sr.dirty /\ n \notin sr.undelete
      BY <1>5, <1>6, <2>1, <2>2, <2>4
    <3>2. f.kind = "norm" => n \notin sr.norms
      BY <1>6, <2>2, <2>4
    <3>3. f \in SegFiles(n, sis.segs[n]) /\ Content(segs[n], f) = Content(sis.segs[n], f)
      BY <1>5, <2>1, <3>1, <3>2, SameFile
    <3> QED BY <1>2, <2>1, <2>4, <3>3 DEF CommittedIntact, Intact
  <2> QED BY <2>3, <2>4
<1> QED BY <1>1, <1>3, <1>4, <1>5, <1>8, <1>9, StartCommitSafe

-----------------------------------------------------------------------------
(* The other steps *)

LEMMA StoreKept ==
    ASSUME Inv, UNCHANGED <<store, committed>>, phase # "torn", phase' \notin {"write", "torn"}
    PROVE  StoreInv' /\ FilesInv'
<1>1. files' = files /\ segments' = segments /\ torn' = torn
  BY DEF store
<1>2. StoreInv'
  BY <1>1 DEF Inv, Safe, StoreInv, CommitReadable, Readable
<1>3. FilesInv'
  BY <1>1 DEF Inv, Safe, FilesInv, CommittedIntact, Intact
<1> QED BY <1>2, <1>3

LEMMA ForgetSafe ==
    ASSUME Inv, Forget, UNCHANGED committed, StoreInv', FilesInv'
    PROVE  Safe'
<1>1. DOMAIN sis'.segs = {}
  <2>1. sis' = Sis(-1, 0, 0, NoSegs)
    BY DEF Forget, NoSis
  <2> QED BY <2>1, SisFields DEF NoSegs
<1>2. MemoryInv'
  BY <1>1 DEF Inv, Safe, MemoryInv, Forget
<1>3. QueueInv'
  BY DEF QueueInv, QueueSafe, Forget
<1> QED BY <1>2, <1>3 DEF Safe

(* The steps of a writer between two commits that leave the store alone. *)
LEMMA QuietSafe ==
    ASSUME Inv, role = "writer", phase \in {"idle", "merge"}, phase' \in {"idle", "merge"},
           UNCHANGED <<store, role, sis, pending, old_segs, sr, committed>>
    PROVE  Safe'
<1>1. StoreInv' /\ FilesInv'
  BY StoreKept
<1>2. MemoryInv'
  BY DEF Inv, Safe, MemoryInv
<1>3. QueueInv'
  BY DEF Inv, Safe, QueueInv, QueueSafe, Outdated
<1> QED BY <1>1, <1>2, <1>3 DEF Safe

(* Whoever opens the index reads the last commit. *)
LEMMA OpenReadsCommitted ==
    ASSUME Inv, role = "none", NEW g \in FoundGenerations
    PROVE  /\ phase = "idle" /\ g = committed.generation /\ segments[g] = committed
           /\ CurrentGeneration = committed.generation
<1>1. phase = "idle" /\ TypeOK /\ StoreInv
  BY DEF Inv, Safe, RoleInv
<1>2. g = committed.generation /\ CurrentGeneration = committed.generation
  BY <1>1, FoundIsCommitted
<1> QED BY <1>1, <1>2 DEF StoreInv, CommitReadable

LEMMA OpenWriterSafe ==
    ASSUME Inv, OpenWriter
    PROVE  Safe'
<1>1. PICK g \in FoundGenerations :
         /\ sis' = segments[g]
         /\ pending' = {f \in DOMAIN files : IsDeletable(f, segments[g].segs)}
  BY DEF OpenWriter
<1>2. /\ role = "none" /\ role' = "writer" /\ phase' = "purge"
      /\ old_segs' = DOMAIN segments \ {CurrentGeneration}
      /\ UNCHANGED <<store, committed>>
  BY DEF OpenWriter
<1>3. phase = "idle" /\ segments[g] = committed /\ CurrentGeneration = committed.generation
  BY <1>2, OpenReadsCommitted
<1>4. StoreInv' /\ FilesInv'
  BY <1>2, <1>3, StoreKept
<1>5. MemoryInv'
  BY <1>1, <1>2, <1>3 DEF Inv, Safe, MemoryInv
<1>6. QueueInv'
  <2>1. pending' \cap SisFiles(committed.segs) = {}
    BY <1>1, <1>3, InUseIsNotDeletable, SisTypes DEF Inv
  <2>2. QueueSafe'
    BY <1>1, <1>3, <2>1 DEF QueueSafe
  <2> QED BY <1>2, <1>3, <2>2 DEF QueueInv
<1> QED BY <1>4, <1>5, <1>6 DEF Safe

LEMMA OpenReaderSafe ==
    ASSUME Inv, OpenReader
    PROVE  Safe'
<1>1. PICK g \in FoundGenerations : sis' = segments[g] /\ sr' = CleanReader(segments[g].segs)
  BY DEF OpenReader
<1>2. /\ role = "none" /\ role' = "reader" /\ UNCHANGED <<store, phase, old_segs, committed>>
  BY DEF OpenReader
<1>3. phase = "idle" /\ segments[g] = committed
  BY <1>2, OpenReadsCommitted
<1>4. StoreInv' /\ FilesInv'
  BY <1>2, <1>3, StoreKept
<1>5. sr'.dirty = {}
  BY <1>1, ReaderFields DEF CleanReader
<1>6. MemoryInv'
  BY <1>1, <1>2, <1>3, <1>5 DEF Inv, Safe, MemoryInv
<1>7. QueueInv'
  BY <1>2, <1>3 DEF Inv, Safe, QueueInv, QueueSafe
<1> QED BY <1>4, <1>6, <1>7 DEF Safe

LEMMA AddDocSafe ==
    ASSUME Inv, NEW d \in Docs, AddDoc(d)
    PROVE  Safe'
<1>1. /\ role = "writer" /\ phase = "idle"
      /\ files' = Put(files, CoreFile(sis.counter), buffer')
      /\ UNCHANGED <<segments, torn, role, phase, sis, pending, old_segs, sr, committed>>
  BY DEF AddDoc, Idle
<1>2. CoreFile(sis.counter) \notin SisFiles(committed.segs)
  <2>1. sis.counter \in Nat /\ IsMap(committed.segs, Nat, SegInfo) /\ sis = committed
        /\ \A n \in DOMAIN committed.segs : n \in Nat /\ n < sis.counter
    BY <1>1, SisTypes DEF Inv, Safe, MemoryInv, IsMap
  <2>2. CoreFile(sis.counter).seg = sis.counter
    BY <2>1, FileNames
  <2> QED BY <2>1, <2>2, SisFilesAre
<1>3. CommittedIntact'
  BY <1>1, <1>2, InSisFiles DEF Inv, Safe, FilesInv, CommittedIntact, Intact, Put
<1>4. FilesInv'
  BY <1>1, <1>3 DEF FilesInv
<1>5. StoreInv'
  BY <1>1 DEF Inv, Safe, StoreInv, CommitReadable, Readable
<1>6. MemoryInv'
  BY <1>1 DEF Inv, Safe, MemoryInv
<1>7. QueueInv'
  BY <1>1 DEF Inv, Safe, QueueInv, QueueSafe, Outdated
<1> QED BY <1>4, <1>5, <1>6, <1>7 DEF Safe

LEMMA ChangeReaderSafe ==
    ASSUME Inv, NEW d, NEW u, NEW m, NEW n, ChangeReader(d, u, m, n), m \cap u = {}
    PROVE  Safe'
<1>1. /\ role = "reader" /\ phase = "idle" /\ sr' = Reader(d, u, m, n, "yes")
      /\ UNCHANGED <<store, role, phase, sis, pending, old_segs, curr_seg, committed>>
  BY DEF ChangeReader, Idle
<1>2. StoreInv' /\ FilesInv'
  BY <1>1, StoreKept
<1>3. MemoryInv'
  BY <1>1, ReaderFields DEF Inv, Safe, MemoryInv
<1>4. QueueInv'
  BY <1>1 DEF Inv, Safe, QueueInv, QueueSafe
<1> QED BY <1>2, <1>3, <1>4 DEF Safe

LEMMA WriteFileSafe ==
    ASSUME Inv, WriteFile
    PROVE  Safe'
<1>1. PICK f \in DOMAIN todo : files' = Put(files, f, todo[f]) /\ todo' = Without(todo, {f})
  BY DEF WriteFile
<1>2. /\ phase = "write"
      /\ UNCHANGED <<segments, torn, role, phase, sis, pending, old_segs, sr, curr_seg, committed>>
  BY DEF WriteFile
<1>3. /\ DOMAIN todo' = DOMAIN todo \ {f} /\ DOMAIN files' = DOMAIN files \cup {f}
      /\ files'[f] = todo[f]
      /\ \A x \in DOMAIN files : x # f => files'[x] = files[x]
      /\ \A x \in DOMAIN todo : x # f => todo'[x] = todo[x]
  BY <1>1 DEF Put, Without
<1>4. f \notin SisFiles(committed.segs)
  BY <1>2 DEF Inv, Safe, FilesInv
<1>5. CommittedIntact'
  BY <1>2, <1>3, <1>4, InSisFiles DEF Inv, Safe, FilesInv, CommittedIntact, Intact
<1>6. (\A n \in DOMAIN sis.segs : Prepared(n, sis.segs[n]))'
  <2>1. \A n \in DOMAIN sis.segs : Prepared(n, sis.segs[n])
    BY <1>2 DEF Inv, Safe, FilesInv
  <2> QED BY <1>2, <1>3, <2>1 DEF Prepared
<1>7. FilesInv'
  BY <1>2, <1>3, <1>5, <1>6 DEF Inv, Safe, FilesInv
<1>8. StoreInv'
  BY <1>2 DEF Inv, Safe, StoreInv, CommitReadable, Readable
<1>9. MemoryInv'
  BY <1>2 DEF Inv, Safe, MemoryInv
<1>10. QueueInv'
  BY <1>2 DEF Inv, Safe, QueueInv, QueueSafe, Outdated
<1> QED BY <1>7, <1>8, <1>9, <1>10 DEF Safe

LEMMA BeginSegmentsSafe ==
    ASSUME Inv, BeginSegments
    PROVE  Safe'
<1> DEFINE g == sis.generation + 1
           new == Sis(g, sis.version + 1, sis.counter, sis.segs)
<1>1. /\ phase = "write" /\ DOMAIN todo = {} /\ phase' = "torn" /\ sis' = new
      /\ segments' = Put(segments, new.generation, new)
      /\ torn' = torn \cup {new.generation}
      /\ UNCHANGED <<files, role, pending, old_segs, sr, curr_seg, committed>>
  BY DEF BeginSegments
<1>2. new.generation = g /\ new.counter = sis.counter /\ new.segs = sis.segs
  BY SisFields
<1>3. /\ sis.generation = committed.generation /\ committed.generation \in Nat
      /\ g = committed.generation + 1
  BY <1>1, SisTypes DEF Inv, Safe, MemoryInv
<1> HIDE DEF new, g
<1>4. MemoryInv'
  BY <1>1, <1>2, <1>3 DEF Inv, Safe, MemoryInv
<1>5. StoreInv'
  <2>1. torn' = {g} /\ sis'.generation = g
    BY <1>1, <1>2 DEF Inv, Safe, StoreInv
  <2>2. /\ DOMAIN segments' = DOMAIN segments \cup {g} /\ segments'[g] = new
        /\ \A h \in DOMAIN segments : h # g => segments'[h] = segments[h]
    BY <1>1, <1>2 DEF Put
  <2>3. CommitReadable'
    BY <1>1, <1>3, <2>1, <2>2 DEF Inv, Safe, StoreInv, CommitReadable, Readable
  <2>4. \A h \in DOMAIN segments' : h > committed.generation => h = g
    BY <1>1, <2>2 DEF Inv, Safe, StoreInv
  <2> QED BY <1>1, <2>1, <2>2, <2>3, <2>4 DEF StoreInv
<1>6. FilesInv'
  <2>1. CommittedIntact'
    BY <1>1 DEF Inv, Safe, FilesInv, CommittedIntact, Intact
  <2>2. \A n \in DOMAIN sis.segs : Prepared(n, sis.segs[n])
    BY <1>1 DEF Inv, Safe, FilesInv
  <2>3. Intact(sis.segs)'
    BY <1>1, <1>2, <2>2 DEF Prepared, Intact
  <2> QED BY <1>1, <2>1, <2>3 DEF FilesInv
<1>7. QueueInv'
  <2>1. QueueSafe'
    BY <1>1, <1>2 DEF Inv, Safe, QueueInv, QueueSafe
  <2>2. role = "writer" => (\A f \in pending : Outdated(f, sis))'
    BY <1>1, <1>2 DEF Inv, Safe, QueueInv, Outdated
  <2>3. old_segs' = {} /\ (role = "reader" => curr_seg' = committed.generation)
    BY <1>1 DEF Inv, Safe, QueueInv
  <2> QED BY <1>1, <2>1, <2>2, <2>3 DEF QueueInv
<1> QED BY <1>4, <1>5, <1>6, <1>7 DEF Safe

LEMMA EndSegmentsSafe ==
    ASSUME Inv, EndSegments
    PROVE  Safe'
<1>1. /\ phase = "torn" /\ phase' = "gen" /\ committed' = sis /\ torn' = torn \ {sis.generation}
      /\ UNCHANGED <<files, segments, role, sis, pending, old_segs, sr, curr_seg>>
  BY DEF EndSegments, memory
<1>2. /\ sis.generation = committed.generation + 1 /\ committed.generation \in Nat
      /\ torn = {sis.generation} /\ segments[sis.generation] = sis
      /\ sis.generation \in DOMAIN segments /\ DOMAIN segments \subseteq Nat
      /\ \A g \in DOMAIN segments : g <= sis.generation
  <2>1. /\ torn = {sis.generation} /\ segments[sis.generation] = sis
        /\ \A g \in DOMAIN segments : g > committed.generation => g = sis.generation
        /\ sis.generation = committed.generation + 1
    BY <1>1 DEF Inv, Safe, StoreInv, MemoryInv
  <2>2. /\ committed.generation \in Nat /\ torn \subseteq DOMAIN segments
        /\ DOMAIN segments \subseteq Nat
    BY SisTypes DEF Inv, TypeOK, StoreTypeOK
  <2> QED BY <2>1, <2>2
<1>3. MemoryInv'
  BY <1>1 DEF Inv, Safe, MemoryInv
<1>4. StoreInv'
  BY <1>1, <1>2 DEF StoreInv, CommitReadable, Readable
<1>5. FilesInv'
  BY <1>1 DEF Inv, Safe, FilesInv, CommittedIntact, Intact
<1>6. QueueInv'
  <2>1. old_segs' = {} /\ (role = "reader" => curr_seg' < committed'.generation)
    BY <1>1, <1>2 DEF Inv, Safe, QueueInv
  <2>2. QueueSafe'
    BY <1>1 DEF Inv, Safe, QueueInv, QueueSafe
  <2>3. role = "writer" => (\A f \in pending : Outdated(f, sis))'
    BY <1>1 DEF Inv, Safe, QueueInv, Outdated
  <2> QED BY <1>1, <2>1, <2>2, <2>3 DEF QueueInv
<1> QED BY <1>3, <1>4, <1>5, <1>6 DEF Safe

LEMMA WriteGenSafe ==
    ASSUME Inv, WriteGen
    PROVE  Safe'
<1>1. /\ phase = "gen" /\ phase' = "drop"
      /\ UNCHANGED <<files, segments, torn, role, sis, pending, old_segs, sr, curr_seg, committed>>
  BY DEF WriteGen, memory
<1>2. MemoryInv'
  BY <1>1 DEF Inv, Safe, MemoryInv
<1>3. StoreInv'
  BY <1>1 DEF Inv, Safe, StoreInv, CommitReadable, Readable
<1>4. FilesInv'
  BY <1>1 DEF Inv, Safe, FilesInv, CommittedIntact, Intact
<1>5. QueueInv'
  BY <1>1 DEF Inv, Safe, QueueInv, QueueSafe, Outdated
<1> QED BY <1>2, <1>3, <1>4, <1>5 DEF Safe

(* Removing another segments file leaves the last commit alone. *)
LEMMA DropSafe ==
    ASSUME Inv, phase \notin {"write", "torn"}, phase' \notin {"write", "torn"},
           NEW g, g # committed.generation,
           segments' = Without(segments, {g}), torn' = torn \ {g}, UNCHANGED <<files, committed>>
    PROVE  StoreInv' /\ FilesInv'
<1>1. /\ DOMAIN segments' = DOMAIN segments \ {g}
      /\ \A h \in DOMAIN segments : h # g => segments'[h] = segments[h]
  BY DEF Without
<1>2. StoreInv'
  BY <1>1 DEF Inv, Safe, StoreInv, CommitReadable, Readable
<1>3. FilesInv'
  BY DEF Inv, Safe, FilesInv, CommittedIntact, Intact
<1> QED BY <1>2, <1>3

LEMMA DropPreviousSafe ==
    ASSUME Inv, DropPrevious
    PROVE  Safe'
<1>1. /\ phase = "drop" /\ role \in {"writer", "reader"}
      /\ segments' = Without(segments, {sis.generation - 1}) /\ torn' = torn \ {sis.generation - 1}
      /\ UNCHANGED <<files, role, sis, pending, old_segs, sr, curr_seg, committed>>
  BY DEF DropPrevious, memory, Inv, RoleInv, TypeOK
<1>2. /\ role = "reader" => phase' = "dropcurr"
      /\ role = "writer" => phase' \in {"purge", "idle", "merge"}
  BY <1>1 DEF DropPrevious, AfterCommit
<1>3. sis = committed /\ sis.generation \in Nat
  BY <1>1, SisTypes DEF Inv, Safe, MemoryInv
<1>4. StoreInv' /\ FilesInv'
  BY <1>1, <1>2, <1>3, DropSafe
<1>5. MemoryInv'
  BY <1>1, <1>2, <1>3 DEF Inv, Safe, MemoryInv
<1>6. QueueInv'
  BY <1>1, <1>2 DEF Inv, Safe, QueueInv, QueueSafe, Outdated
<1> QED BY <1>4, <1>5, <1>6 DEF Safe

LEMMA DropCurrentSafe ==
    ASSUME Inv, DropCurrent
    PROVE  Safe'
<1>1. /\ phase = "dropcurr" /\ role = "reader" /\ Forget /\ phase' = "idle"
      /\ segments' = Without(segments, {curr_seg}) /\ torn' = torn \ {curr_seg}
      /\ UNCHANGED <<files, committed>>
  BY DEF DropCurrent, Forget, Inv, RoleInv, TypeOK
<1>2. curr_seg # committed.generation
  BY <1>1, SisTypes DEF Inv, Safe, QueueInv
<1>3. StoreInv' /\ FilesInv'
  BY <1>1, <1>2, DropSafe
<1> QED BY <1>1, <1>3, ForgetSafe

LEMMA PurgeFileSafe ==
    ASSUME Inv, PurgeFile
    PROVE  Safe'
<1>1. PICK f \in pending : files' = Without(files, {f}) /\ pending' = pending \ {f}
  BY DEF PurgeFile
<1>2. /\ phase = "purge" /\ role = "writer"
      /\ UNCHANGED <<segments, torn, role, phase, sis, old_segs, sr, curr_seg, committed>>
  BY DEF PurgeFile, Inv, RoleInv, TypeOK
<1>3. f \notin SisFiles(committed.segs)
  BY <1>2 DEF Inv, Safe, MemoryInv, QueueInv, QueueSafe
<1>4. CommittedIntact'
  BY <1>1, <1>2, <1>3, InSisFiles DEF Inv, Safe, FilesInv, CommittedIntact, Intact, Without
<1>5. FilesInv'
  BY <1>2, <1>4 DEF FilesInv
<1>6. StoreInv'
  BY <1>2 DEF Inv, Safe, StoreInv, CommitReadable, Readable
<1>7. MemoryInv'
  BY <1>2 DEF Inv, Safe, MemoryInv
<1>8. QueueInv'
  BY <1>1, <1>2 DEF Inv, Safe, QueueInv, QueueSafe, Outdated
<1> QED BY <1>5, <1>6, <1>7, <1>8 DEF Safe

LEMMA PurgeSegmentsSafe ==
    ASSUME Inv, PurgeSegments
    PROVE  Safe'
<1>1. PICK g \in old_segs : /\ segments' = Without(segments, {g}) /\ torn' = torn \ {g}
                           /\ old_segs' = old_segs \ {g}
  BY DEF PurgeSegments
<1>2. /\ phase = "purge" /\ role = "writer"
      /\ UNCHANGED <<files, role, phase, sis, pending, sr, curr_seg, committed>>
  BY DEF PurgeSegments, Inv, RoleInv, TypeOK
<1>3. StoreInv' /\ FilesInv'
  <2>1. g # committed.generation
    BY <1>1 DEF Inv, Safe, QueueInv
  <2> QED BY <1>1, <1>2, <2>1, DropSafe
<1>4. MemoryInv'
  BY <1>2 DEF Inv, Safe, MemoryInv
<1>5. QueueInv'
  BY <1>1, <1>2 DEF Inv, Safe, QueueInv, QueueSafe, Outdated
<1> QED BY <1>3, <1>4, <1>5 DEF Safe

LEMMA EndPurgeSafe ==
    ASSUME Inv, EndPurge
    PROVE  Safe'
<1>1. /\ phase = "purge" /\ role = "writer" /\ pending = {} /\ old_segs = {}
      /\ phase' \in {"idle", "merge"}
      /\ UNCHANGED <<store, role, sis, pending, old_segs, sr, curr_seg, committed>>
  BY DEF EndPurge, AfterCommit, memory, Inv, RoleInv, TypeOK
<1>2. StoreInv' /\ FilesInv'
  BY <1>1, StoreKept
<1>3. MemoryInv'
  BY <1>1 DEF Inv, Safe, MemoryInv
<1>4. QueueInv'
  BY <1>1 DEF Inv, Safe, QueueInv, QueueSafe
<1> QED BY <1>2, <1>3, <1>4 DEF Safe

LEMMA WriterStepSafe == Inv /\ WriterStep => Safe'
<1> SUFFICES ASSUME Inv, WriterStep PROVE Safe'
  OBVIOUS
<1>1. CASE OpenWriter \/ Flush
  BY <1>1, OpenWriterSafe, FlushSafe
<1>2. CASE Optimize
  BY <1>2, QuietSafe DEF Optimize, Idle
<1>3. CASE CloseWriter
  <2>1. StoreInv' /\ FilesInv'
    BY <1>3, StoreKept DEF CloseWriter, Idle, Forget
  <2> QED BY <1>3, <2>1, ForgetSafe DEF CloseWriter
<1>4. ASSUME NEW d \in Docs, AddDoc(d) PROVE Safe'
  BY <1>4, AddDocSafe
<1>5. ASSUME NEW D \in SUBSET Docs, DeleteTerm(D) \/ AddReaders(D) PROVE Safe'
  BY <1>5, DeleteTermSafe, AddReadersSafe
<1> QED BY <1>1, <1>2, <1>3, <1>4, <1>5 DEF WriterStep

LEMMA ReaderStepSafe == Inv /\ ReaderStep => Safe'
<1> SUFFICES ASSUME Inv, ReaderStep PROVE Safe'
  OBVIOUS
<1>1. CASE OpenReader \/ CommitReader
  BY <1>1, OpenReaderSafe, CommitReaderSafe
<1>2. CASE CloseReader
  <2>1. StoreInv' /\ FilesInv'
    BY <1>2, StoreKept DEF CloseReader, Idle, Forget
  <2> QED BY <1>2, <2>1, ForgetSafe DEF CloseReader
<1>3. role = "reader" => sr.dirty \cap sr.undelete = {}
  BY DEF Inv, Safe, MemoryInv
<1>4. CASE UndeleteAll
  BY <1>4, ChangeReaderSafe DEF UndeleteAll
<1>5. ASSUME NEW n \in DOMAIN sis.segs, SetNorm(n) PROVE Safe'
  BY <1>3, <1>5, ChangeReaderSafe DEF SetNorm, ChangeReader, Idle
<1>6. ASSUME NEW n \in DOMAIN sis.segs, NEW d \in Docs, DeleteDoc(n, d) PROVE Safe'
  <2>1. role = "reader" /\ ChangeReader(Put(sr.deleted, n, sr.deleted[n] \cup {d}),
                                        sr.undelete \ {n}, sr.dirty \cup {n}, sr.norms)
    BY <1>6 DEF DeleteDoc, ChangeReader, Idle
  <2>2. (sr.dirty \cup {n}) \cap (sr.undelete \ {n}) = {}
    BY <1>3, <2>1
  <2> QED BY <2>1, <2>2, ChangeReaderSafe
<1> QED BY <1>1, <1>2, <1>4, <1>5, <1>6 DEF ReaderStep

LEMMA CommitStepSafe == Inv /\ CommitStep => Safe'
<1> SUFFICES ASSUME Inv, CommitStep PROVE Safe'
  OBVIOUS
<1>1. phase = "merge" => role = "writer"
  BY DEF Inv, RoleInv, TypeOK
<1>2. CASE MaybeMerge
  <2>1. phase = "merge" /\ role = "writer"
    BY <1>1, <1>2 DEF MaybeMerge
  <2>2. CASE MergeSegments(SmallSegments)
    BY <2>1, <2>2, MergeSegmentsSafe DEF SmallSegments
  <2>3. CASE ~MergeSegments(SmallSegments)
    BY <1>2, <2>1, <2>3, QuietSafe DEF MaybeMerge, EndMerges
  <2> QED BY <2>2, <2>3
<1>3. CASE OptimizeStep
  <2>1. phase = "merge" /\ role = "writer"
    BY <1>1, <1>3 DEF OptimizeStep
  <2>2. CASE MergeSegments(LastSegments)
    BY <2>1, <2>2, MergeSegmentsSafe DEF LastSegments
  <2>3. CASE EndMerges
    BY <2>1, <2>3, QuietSafe DEF EndMerges
  <2> QED BY <1>3, <2>2, <2>3 DEF OptimizeStep
<1> QED BY <1>2, <1>3, WriteFileSafe, BeginSegmentsSafe, EndSegmentsSafe, WriteGenSafe,
           DropPreviousSafe, DropCurrentSafe, PurgeFileSafe, PurgeSegmentsSafe, EndPurgeSafe
        DEF CommitStep

LEMMA InitSafe == Init => Inv
<1> SUFFICES ASSUME Init PROVE Inv
  OBVIOUS
<1> DEFINE empty == Sis(0, 1, 0, NoSegs)
<1>1. /\ empty.generation = 0 /\ DOMAIN empty.segs = {} /\ DOMAIN sis.segs = {}
  BY SisFields DEF Init, NoSis, NoSegs
<1> HIDE DEF empty
<1>2. /\ segments = [g \in {0} |-> empty] /\ torn = {} /\ role = "none" /\ phase = "idle"
      /\ old_segs = {} /\ committed = empty
  BY DEF Init, empty
<1>3. MemoryInv
  BY <1>1, <1>2 DEF MemoryInv
<1>4. StoreInv
  BY <1>1, <1>2 DEF StoreInv, CommitReadable, Readable
<1>5. FilesInv /\ QueueInv
  BY <1>1, <1>2 DEF FilesInv, CommittedIntact, Intact, QueueInv, QueueSafe
<1>6. RoleInv
  BY <1>2 DEF RoleInv
<1> QED BY <1>3, <1>4, <1>5, <1>6, InitType DEF Inv, Safe

LEMMA StepSafe ==
    ASSUME "torn" \notin CrashPhases
    PROVE  Inv /\ [Next]_vars => Inv'
<1> SUFFICES ASSUME Inv, [Next]_vars PROVE Inv'
  OBVIOUS
<1>1. TypeOK' /\ RoleInv'
  BY StepType, RoleStep DEF Inv
<1>2. CASE Crash
  <2>1. StoreInv' /\ FilesInv'
    BY <1>2, StoreKept DEF Crash, Forget
  <2> QED BY <1>1, <1>2, <2>1, ForgetSafe DEF Crash, Inv
<1>3. CASE UNCHANGED vars
  <2>1. MemoryInv'
    BY <1>3 DEF Inv, Safe, MemoryInv, vars, memory
  <2>2. StoreInv'
    BY <1>3 DEF Inv, Safe, StoreInv, CommitReadable, Readable, vars, memory, store
  <2>3. FilesInv'
    BY <1>3 DEF Inv, Safe, FilesInv, CommittedIntact, Intact, Prepared, vars, memory, store
  <2>4. QueueInv'
    BY <1>3 DEF Inv, Safe, QueueInv, QueueSafe, Outdated, vars, memory
  <2> QED BY <1>1, <2>1, <2>2, <2>3, <2>4 DEF Inv, Safe
<1> QED BY <1>1, <1>2, <1>3, WriterStepSafe, ReaderStepSafe, CommitStepSafe DEF Next, Inv

-----------------------------------------------------------------------------
(* The inductive invariant. *)
THEOREM CommitInvariant == "torn" \notin CrashPhases /\ Spec => []Inv
<1> SUFFICES ASSUME "torn" \notin CrashPhases PROVE Spec => []Inv
  OBVIOUS
<1>1. Inv /\ [Next]_vars => Inv'
  BY StepSafe
<1> QED BY <1>1, InitSafe, PTL DEF Spec

(* No flush, merge, deletion, purge or crash of iw_flush_ram_segment,        *)
(* iw_merge_segments, sr_commit_i or the deleter removes or rewrites a file  *)
(* the last commit refers to.                                                *)
THEOREM CommittedStaysIntact == "torn" \notin CrashPhases /\ Spec => []CommittedIntact
<1>1. Inv => CommittedIntact
  BY DEF Inv, Safe, FilesInv
<1> QED BY <1>1, CommitInvariant, PTL

(* The segments_N of the last commit is in the store and complete at every   *)
(* step of frt_sis_write and of the deleter.                                 *)
THEOREM CommitStaysReadable == "torn" \notin CrashPhases /\ Spec => []CommitReadable
<1>1. Inv => CommitReadable
  BY DEF Inv, Safe, StoreInv
<1> QED BY <1>1, CommitInvariant, PTL

(* Whoever opens the index while no segments_N is half written, also after a *)
(* crash, finds the last commit (sis_find_segments_file).                    *)
THEOREM AlwaysRecoverable == "torn" \notin CrashPhases /\ Spec => []Recoverable
<1>1. Inv => Recoverable
  BY FoundIsCommitted DEF Inv, Safe, Recoverable
<1> QED BY <1>1, CommitInvariant, PTL

(* No file in the queue of a writer's deleter is needed by the segments the  *)
(* writer holds (frt_deleter_find_deletable_files_i, si_delete_files).       *)
THEOREM QueueIsSafe == "torn" \notin CrashPhases /\ Spec => []QueueSafe
<1>1. Inv => QueueSafe
  BY DEF Inv, Safe, QueueInv
<1> QED BY <1>1, CommitInvariant, PTL

(* The commit of a reader is in the store when ir_commit_i has deleted the   *)
(* segments file that was current when it began: with no segments_N left     *)
(* half written by a dead process, that file is never the new one.           *)
THEOREM ReaderCommitIsKept == "torn" \notin CrashPhases /\ Spec => ReaderCommitStays
<1> DEFINE Kept == phase = "dropcurr" /\ role' = "none" /\ segments' # segments
                     => committed.generation \in DOMAIN segments'
<1>1. Inv /\ Inv' /\ [Next]_vars => [Kept]_vars
  <2> SUFFICES ASSUME Inv', [Next]_vars, phase = "dropcurr"
               PROVE  committed.generation \in DOMAIN segments'
    OBVIOUS
  <2>1. committed' = committed
    BY DEF Next, WriterStep, ReaderStep, CommitStep, OpenWriter, Flush, Optimize, CloseWriter,
           AddDoc, DeleteTerm, AddReaders, OpenReader, UndeleteAll, CommitReader, CloseReader,
           SetNorm, DeleteDoc, ChangeReader, MaybeMerge, OptimizeStep, MergeSegments, EndMerges,
           StartCommit, WriteFile, BeginSegments, EndSegments, WriteGen, DropPrevious,
           DropCurrent, PurgeFile, PurgeSegments, EndPurge, Crash, vars
  <2> QED BY <2>1 DEF Inv, Safe, StoreInv, CommitReadable, Readable
<1> HIDE DEF Kept
<1>2. "torn" \notin CrashPhases /\ Spec => [][Kept]_vars
  BY <1>1, CommitInvariant, PTL DEF Spec
<1> QED BY <1>2 DEF ReaderCommitStays, Kept
=============================================================================
