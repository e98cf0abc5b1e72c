-------------------------- MODULE IndexCommitProofs --------------------------
(* The commit protocol, for every set of documents, every configuration and  *)
(* any number of commits.                                                    *)
EXTENDS IndexCommit, TLAPS

-----------------------------------------------------------------------------
(* Lemmas about the operators the model is built from. *)

(* A map stays a map when an entry is put in or taken out. *)
LEMMA PutMap ==
    ASSUME NEW K, NEW V, NEW f, IsMap(f, K, V), NEW k \in K, NEW v \in V
    PROVE  IsMap(Put(f, k, v), K, V)
BY DEF IsMap, Put

LEMMA WithoutMap ==
    ASSUME NEW K, NEW V, NEW f, IsMap(f, K, V), NEW S
    PROVE  IsMap(Without(f, S), K, V)
BY DEF IsMap, Without

LEMMA WithoutValues ==
    ASSUME NEW f, NEW S
    PROVE  /\ DOMAIN Without(f, S) = DOMAIN f \ S
           /\ \A x \in DOMAIN f \ S : Without(f, S)[x] = f[x]
           /\ Without(f, S) = [x \in DOMAIN Without(f, S) |-> Without(f, S)[x]]
BY DEF Without

LEMMA NoFilesMap == \A K, V : IsMap(NoFiles, K, V)
BY DEF IsMap, NoFiles

LEMMA SisFields ==
    ASSUME NEW g, NEW v, NEW c, NEW segs
    PROVE  /\ Sis(g, v, c, segs).generation = g /\ Sis(g, v, c, segs).version = v
           /\ Sis(g, v, c, segs).counter = c /\ Sis(g, v, c, segs).segs = segs
BY DEF Sis

LEMMA SisType ==
    ASSUME NEW g \in Nat \cup {-1}, NEW v \in Nat, NEW c \in Nat, NEW segs,
           IsMap(segs, Nat, SegInfo)
    PROVE  IsSis(Sis(g, v, c, segs))
BY DEF IsSis, Sis

LEMMA NoSisType == IsSis(NoSis)
<1>1. IsMap(NoSegs, Nat, SegInfo)
  BY DEF IsMap, NoSegs
<1> QED BY <1>1, SisType DEF NoSis

LEMMA ReaderFields ==
    ASSUME NEW d, NEW u, NEW m, NEW n, NEW c
    PROVE  /\ Reader(d, u, m, n, c).deleted = d /\ Reader(d, u, m, n, c).undelete = u
           /\ Reader(d, u, m, n, c).dirty = m /\ Reader(d, u, m, n, c).norms = n
           /\ Reader(d, u, m, n, c).has_changes = c
BY DEF Reader

(* The names of the files of a segment are names of files of that segment. *)
LEMMA FileNames ==
    ASSUME NEW n \in Nat
    PROVE  /\ CoreFile(n) \in DataFile /\ CfsFile(n) \in DataFile
           /\ CoreFile(n).seg = n /\ CfsFile(n).seg = n
           /\ CoreFile(n).kind = "core" /\ CfsFile(n).kind = "cfs"
           /\ \A g \in Nat : /\ DelFile(n, g) \in DataFile /\ NormFile(n, g) \in DataFile
                             /\ DelFile(n, g).seg = n /\ NormFile(n, g).seg = n
                             /\ DelFile(n, g).kind = "del" /\ NormFile(n, g).kind = "norm"
                             /\ DelFile(n, g).gen = g /\ NormFile(n, g).gen = g
BY DEF CoreFile, CfsFile, DelFile, NormFile, DataFile

LEMMA NewSegInfoType ==
    ASSUME NEW D \in SUBSET Docs, NEW F \in {"plain", "compound"}
    PROVE  NewSegInfo(D, F) \in SegInfo
BY DEF NewSegInfo, SegInfo

(* The files of a segment, and of what is queued for it. *)
LEMMA DelFilesAre ==
    ASSUME NEW n \in Nat, NEW si \in SegInfo
    PROVE  \A f \in DelFiles(n, si) :
              f \in DataFile /\ f.seg = n /\ f.kind = "del" /\ f.gen = si.del_gen
<1>1. CASE HasDeletions(si)
  <2>1. si.del_gen \in Nat
    BY <1>1 DEF HasDeletions, SegInfo
  <2> QED BY <1>1, <2>1, FileNames DEF DelFiles
<1> QED BY <1>1 DEF DelFiles

LEMMA NormFilesAre ==
    ASSUME NEW n \in Nat, NEW si \in SegInfo
    PROVE  \A f \in NormFiles(n, si) :
              f \in DataFile /\ f.seg = n /\ f.kind = "norm" /\ f.gen = si.norm_gen
<1>1. CASE si.norm_gen >= 0
  <2>1. si.norm_gen \in Nat
    BY <1>1 DEF SegInfo
  <2> QED BY <1>1, <2>1, FileNames DEF NormFiles
<1> QED BY <1>1 DEF NormFiles

LEMMA SegFilesAre ==
    ASSUME NEW n \in Nat, NEW si \in SegInfo, NEW f \in SegFiles(n, si)
    PROVE  /\ f \in DataFile /\ f.seg = n
           /\ f.kind = "core" => ~IsCompound(si)
           /\ f.kind = "cfs"  => IsCompound(si)
           /\ f.kind = "del"  => f \in DelFiles(n, si) /\ f.gen = si.del_gen
           /\ f.kind = "norm" => /\ f \in NormFiles(n, si) /\ f.gen = si.norm_gen
                                 /\ IsCompound(si) => f.gen > 0
<1>1. CASE IsCompound(si)
  <2>1. \/ f = CfsFile(n)
        \/ HasSeparateNorms(si) /\ f \in NormFiles(n, si)
        \/ f \in DelFiles(n, si)
    BY <1>1 DEF SegFiles
  <2> QED BY <1>1, <2>1, FileNames, NormFilesAre, DelFilesAre DEF HasSeparateNorms
<1>2. CASE ~IsCompound(si)
  <2>1. f = CoreFile(n) \/ f \in NormFiles(n, si) \/ f \in DelFiles(n, si)
    BY <1>2 DEF SegFiles
  <2> QED BY <1>2, <2>1, FileNames, NormFilesAre, DelFilesAre
<1> QED BY <1>1, <1>2

LEMMA SiDeleteFilesAre ==
    ASSUME NEW n \in Nat, NEW si \in SegInfo
    PROVE  \A f \in SiDeleteFiles(n, si) : f \in DataFile /\ f.seg = n
BY FileNames, NormFilesAre, DelFilesAre DEF SiDeleteFiles

(* The files written for a new segment are the files it needs, with their    *)
(* content, and those queued after they were copied are not among them.      *)
LEMMA NewSegFilesAre ==
    ASSUME NEW n \in Nat, NEW D \in SUBSET Docs, NEW F \in {"plain", "compound"}
    PROVE  LET si == NewSegInfo(D, F)
               new == NewSegFiles(n, si)
           IN /\ IsMap(new, DataFile, SUBSET Docs)
              /\ \A f \in DOMAIN new : f.seg = n
              /\ \A f \in SegFiles(n, si) : f \in DOMAIN new /\ new[f] = Content(si, f)
              /\ \A f \in CopiedFiles(n, si) :
                    f \in DataFile /\ f.seg = n /\ f.kind # "del" /\ f \notin SegFiles(n, si)
<1> DEFINE si == NewSegInfo(D, F)
           new == NewSegFiles(n, si)
<1>1. /\ si.docs = D /\ si.del_gen = -1 /\ si.norm_gen = 0 /\ si.format = F
      /\ si \in SegInfo
  BY NewSegInfoType DEF NewSegInfo
<1> HIDE DEF si
<1>2. /\ DOMAIN new = {CoreFile(n), NormFile(n, 0)} \cup (IF IsCompound(si) THEN {CfsFile(n)} ELSE {})
      /\ \A f \in DOMAIN new : new[f] = D
      /\ new = [f \in DOMAIN new |-> new[f]]
  BY <1>1 DEF NewSegFiles
<1> HIDE DEF new
<1>3. \A f \in DOMAIN new : f \in DataFile /\ f.seg = n
  BY <1>2, FileNames
<1>4. IsMap(new, DataFile, SUBSET Docs)
  BY <1>2, <1>3 DEF IsMap
<1>5. \A f \in SegFiles(n, si) : f.kind # "del" /\ f \in DOMAIN new
  BY <1>1, <1>2, FileNames DEF SegFiles, DelFiles, HasDeletions, HasSeparateNorms, NormFiles, IsCompound
<1>6. \A f \in SegFiles(n, si) : new[f] = Content(si, f)
  BY <1>1, <1>2, <1>5 DEF Content
<1>7. \A f \in CopiedFiles(n, si) :
         f \in DataFile /\ f.seg = n /\ f.kind # "del" /\ f \notin SegFiles(n, si)
  <2>1. CASE IsCompound(si)
    <3>1. CopiedFiles(n, si) = {CoreFile(n), NormFile(n, 0)}
      BY <2>1 DEF CopiedFiles
    <3>2. CoreFile(n) \notin SegFiles(n, si)
      BY <1>1, <2>1, FileNames, SegFilesAre
    <3>3. NormFile(n, 0) \notin SegFiles(n, si)
      BY <1>1, <2>1, FileNames, SegFilesAre
    <3> QED BY <3>1, <3>2, <3>3, FileNames
  <2> QED BY <2>1 DEF CopiedFiles
<1> QED BY <1>3, <1>4, <1>5, <1>6, <1>7 DEF si, new

-----------------------------------------------------------------------------
(* Type correctness *)

(* Which phases each role goes through: only a writer merges and purges,     *)
(* only a reader deletes the segments file its commit began with.            *)
RoleInv ==
    /\ role = "none" => phase = "idle"
    /\ role = "reader" => phase \notin {"purge", "merge"}
    /\ role = "writer" => phase # "dropcurr"

LEMMA RoleStep == TypeOK /\ RoleInv /\ [Next]_vars => RoleInv'
<1> SUFFICES ASSUME TypeOK, RoleInv, [Next]_vars PROVE RoleInv'
  OBVIOUS
<1>1. role \in {"none", "writer", "reader"}
  BY DEF TypeOK
<1>2. CASE WriterStep
  BY <1>2 DEF RoleInv, WriterStep, OpenWriter, Flush, Optimize, CloseWriter, AddDoc, DeleteTerm,
              AddReaders, StartCommit, Forget, Idle
<1>3. CASE ReaderStep
  BY <1>3 DEF RoleInv, ReaderStep, OpenReader, UndeleteAll, CommitReader, CloseReader, SetNorm,
              DeleteDoc, ChangeReader, StartCommit, Forget, Idle
<1>4. CASE CommitStep
  <2>1. CASE MaybeMerge \/ OptimizeStep
    BY <2>1 DEF RoleInv, MaybeMerge, OptimizeStep, MergeSegments, EndMerges, StartCommit
  <2>2. CASE WriteFile \/ BeginSegments \/ EndSegments \/ WriteGen \/ PurgeFile \/ PurgeSegments
    BY <2>2 DEF RoleInv, WriteFile, BeginSegments, EndSegments, WriteGen, PurgeFile, PurgeSegments
  <2>3. CASE DropPrevious
    BY <1>1, <2>3 DEF RoleInv, DropPrevious, AfterCommit
  <2>4. CASE DropCurrent \/ EndPurge
    BY <2>4 DEF RoleInv, DropCurrent, EndPurge, AfterCommit, Forget
  <2> QED BY <1>4, <2>1, <2>2, <2>3, <2>4 DEF CommitStep
<1>5. CASE Crash \/ UNCHANGED vars
  BY <1>5 DEF RoleInv, Crash, Forget, vars
<1> QED BY <1>2, <1>3, <1>4, <1>5 DEF Next

LEMMA SegsType ==
    ASSUME TypeOK
    PROVE  \A n \in DOMAIN sis.segs : n \in Nat /\ sis.segs[n] \in SegInfo
BY DEF TypeOK, IsSis, IsMap

LEMMA StoreSame ==
    ASSUME StoreTypeOK, UNCHANGED store
    PROVE  StoreTypeOK'
BY DEF StoreTypeOK, store, IsMap

LEMMA ForgetType ==
    ASSUME TypeOK, StoreTypeOK', Forget, UNCHANGED committed
    PROVE  TypeOK'
<1>1. IsSis(sis')
  BY NoSisType DEF Forget
<1>2. IsMap(todo', DataFile, SUBSET Docs)
  BY NoFilesMap DEF Forget
<1> QED BY <1>1, <1>2 DEF TypeOK, Forget, Phases

LEMMA StartCommitType ==
    ASSUME TypeOK, role \in {"writer", "reader"},
           NEW segs, IsMap(segs, Nat, SegInfo), NEW c \in Nat,
           NEW w, IsMap(w, DataFile, SUBSET Docs), NEW q \in SUBSET DataFile,
           NEW t \in {"purge", "return"}, StartCommit(segs, c, w, q, t),
           role = "reader" => DOMAIN segs = DOMAIN sis.segs,
           buffer' \subseteq Docs, target' \in Nat \cup {-1}, UNCHANGED sr
    PROVE  TypeOK'
<1>1. StoreTypeOK'
  BY StoreSame DEF TypeOK, StartCommit
<1>2. IsSis(sis') /\ sis'.generation = sis.generation /\ sis'.segs = segs
  <2>1. sis.generation \in Nat \cup {-1} /\ sis.version \in Nat
    BY DEF TypeOK, IsSis
  <2>2. sis' = Sis(sis.generation, sis.version, c, segs)
    BY DEF StartCommit
  <2> QED BY <2>1, <2>2, SisType, SisFields
<1>3. IsMap(todo', DataFile, SUBSET Docs)
  BY DEF StartCommit
<1>4. role = "reader" => ReaderTypeOK'
  BY <1>2 DEF TypeOK, ReaderTypeOK, IsMap
<1>5. /\ role' \in {"none", "writer", "reader"} /\ phase' \in Phases
      /\ pending' \subseteq DataFile /\ old_segs' \subseteq Nat
      /\ after' \in {"purge", "return"} /\ role' = role
      /\ committed' = committed
  BY DEF TypeOK, StartCommit, Phases
<1> QED BY <1>1, <1>2, <1>3, <1>4, <1>5 DEF TypeOK

(* The documents of a set of segments are documents. *)
LEMMA DocsOfSegs ==
    ASSUME TypeOK, NEW S \in SUBSET DOMAIN sis.segs
    PROVE  UNION {sis.segs[m].docs \ sis.segs[m].dels : m \in S} \in SUBSET Docs
<1>1. \A m \in S : sis.segs[m].docs \subseteq Docs
  BY SegsType DEF SegInfo
<1> QED BY <1>1

LEMMA FlushType == TypeOK /\ Flush => TypeOK'
<1> SUFFICES ASSUME TypeOK, Flush PROVE TypeOK'
  OBVIOUS
<1> DEFINE n == sis.counter
           si == NewSegInfo(buffer, Format)
<1>1. /\ n \in Nat /\ buffer \in SUBSET Docs /\ IsMap(sis.segs, Nat, SegInfo)
      /\ Format \in {"plain", "compound"}
  BY CommitConstants DEF TypeOK, IsSis
<1>2. si \in SegInfo
  BY <1>1, NewSegInfoType
<1>3. IsMap(Put(sis.segs, n, si), Nat, SegInfo)
  BY <1>1, <1>2, PutMap
<1>4. IsMap(NewSegFiles(n, si), DataFile, SUBSET Docs) /\ CopiedFiles(n, si) \in SUBSET DataFile
  BY <1>1, NewSegFilesAre
<1>5. /\ StartCommit(Put(sis.segs, n, si), n + 1, NewSegFiles(n, si), CopiedFiles(n, si), "purge")
      /\ role = "writer" /\ buffer' = {} /\ target' = MergeFactor
      /\ UNCHANGED <<sr, curr_seg>>
  BY DEF Flush, Idle
<1>6. target' \in Nat \cup {-1} /\ n + 1 \in Nat
  BY <1>1, <1>5, CommitConstants DEF TypeOK
<1> HIDE DEF n, si
<1> QED BY <1>3, <1>4, <1>5, <1>6, StartCommitType

LEMMA MergeSegmentsType ==
    ASSUME TypeOK, role = "writer", NEW S \in SUBSET DOMAIN sis.segs, MergeSegments(S),
           target' \in Nat \cup {-1}
    PROVE  TypeOK'
<1> DEFINE n == sis.counter
           D == UNION {sis.segs[m].docs \ sis.segs[m].dels : m \in S}
           si == NewSegInfo(D, Format)
           Q == CopiedFiles(n, si) \cup UNION {SiDeleteFiles(m, sis.segs[m]) : m \in S}
<1>1. /\ n \in Nat /\ D \in SUBSET Docs /\ IsMap(sis.segs, Nat, SegInfo)
      /\ Format \in {"plain", "compound"}
  BY DocsOfSegs, CommitConstants DEF TypeOK, IsSis
<1>2. si \in SegInfo
  BY <1>1, NewSegInfoType
<1>3. IsMap(Put(Without(sis.segs, S), n, si), Nat, SegInfo)
  BY <1>1, <1>2, PutMap, WithoutMap
<1>4. IsMap(NewSegFiles(n, si), DataFile, SUBSET Docs) /\ CopiedFiles(n, si) \in SUBSET DataFile
  BY <1>1, NewSegFilesAre
<1>5. Q \in SUBSET DataFile
  <2>1. \A m \in S : SiDeleteFiles(m, sis.segs[m]) \subseteq DataFile
    BY SegsType, SiDeleteFilesAre
  <2> QED BY <2>1, <1>4
<1>6. /\ StartCommit(Put(Without(sis.segs, S), n, si), n + 1, NewSegFiles(n, si), Q, "purge")
      /\ UNCHANGED <<buffer, sr, curr_seg>>
  BY DEF MergeSegments
<1>7. /\ buffer' \subseteq Docs /\ n + 1 \in Nat
  BY <1>1, <1>6 DEF TypeOK
<1> HIDE DEF n, si, D, Q
<1> QED BY <1>3, <1>4, <1>5, <1>6, <1>7, StartCommitType

(* What sr_commit_i does to a segment info. *)
LEMMA WithDeletionsType ==
    ASSUME NEW segs, IsMap(segs, Nat, SegInfo), NEW hit \in SUBSET DOMAIN segs,
           NEW deleted, \A n \in hit : deleted[n] \subseteq Docs
    PROVE  /\ IsMap(WithDeletions(segs, hit, deleted), Nat, SegInfo)
           /\ DOMAIN WithDeletions(segs, hit, deleted) = DOMAIN segs
           /\ \A n \in DOMAIN segs \ hit : WithDeletions(segs, hit, deleted)[n] = segs[n]
           /\ \A n \in hit : LET new == WithDeletions(segs, hit, deleted)[n]
                              IN /\ new.docs = segs[n].docs /\ new.dels = deleted[n]
                                 /\ new.del_gen = segs[n].del_gen + 1
                                 /\ new.norm_gen = segs[n].norm_gen
                                 /\ new.format = segs[n].format
<1> DEFINE W == WithDeletions(segs, hit, deleted)
<1>1. /\ DOMAIN W = DOMAIN segs /\ W = [n \in DOMAIN W |-> W[n]]
      /\ \A n \in DOMAIN segs \ hit : W[n] = segs[n]
      /\ \A n \in hit : W[n] = [segs[n] EXCEPT !.dels = deleted[n], !.del_gen = @ + 1]
  BY DEF WithDeletions
<1> HIDE DEF W
<1>2. ASSUME NEW n \in hit
      PROVE  /\ W[n].docs = segs[n].docs /\ W[n].dels = deleted[n]
             /\ W[n].del_gen = segs[n].del_gen + 1 /\ W[n].norm_gen = segs[n].norm_gen
             /\ W[n].format = segs[n].format
             /\ W[n] \in SegInfo
  <2>1. segs[n] \in SegInfo /\ deleted[n] \subseteq Docs
    BY DEF IsMap
  <2>2. W[n] = [segs[n] EXCEPT !.dels = deleted[n], !.del_gen = @ + 1]
    BY <1>1
  <2>3. /\ W[n].docs = segs[n].docs /\ W[n].dels = deleted[n]
        /\ W[n].norm_gen = segs[n].norm_gen /\ W[n].format = segs[n].format
    BY <2>1, <2>2 DEF SegInfo
  <2>4. W[n].del_gen = segs[n].del_gen + 1
    BY <2>1, <2>2 DEF SegInfo
  <2>5. segs[n].del_gen + 1 \in Nat \cup {-1}
    BY <2>1 DEF SegInfo
  <2>6. W[n] \in SegInfo
    BY <2>1, <2>2, <2>5 DEF SegInfo
  <2> QED BY <2>3, <2>4, <2>6
<1>3. IsMap(W, Nat, SegInfo)
  BY <1>1, <1>2 DEF IsMap
<1> QED BY <1>1, <1>2, <1>3 DEF W

LEMMA NewDelFilesAre ==
    ASSUME NEW segs, IsMap(segs, Nat, SegInfo), NEW hit \in SUBSET DOMAIN segs,
           NEW deleted, \A n \in hit : deleted[n] \subseteq Docs
    PROVE  LET new == NewDelFiles(segs, hit, deleted)
           IN /\ IsMap(new, DataFile, SUBSET Docs)
              /\ \A f \in DOMAIN new : /\ f.seg \in hit /\ f.kind = "del"
                                        /\ f.gen = segs[f.seg].del_gen + 1
                                        /\ new[f] = deleted[f.seg]
              /\ \A n \in hit : DelFile(n, segs[n].del_gen + 1) \in DOMAIN new
<1> DEFINE new == NewDelFiles(segs, hit, deleted)
<1>1. /\ DOMAIN new = {DelFile(n, segs[n].del_gen + 1) : n \in hit}
      /\ new = [f \in DOMAIN new |-> new[f]]
      /\ \A f \in DOMAIN new : new[f] = deleted[f.seg]
  BY DEF NewDelFiles
<1>2. \A n \in hit : n \in Nat /\ segs[n].del_gen + 1 \in Nat
  BY DEF IsMap, SegInfo
<1>3. \A n \in hit : LET f == DelFile(n, segs[n].del_gen + 1)
                     IN f \in DataFile /\ f.seg = n /\ f.kind = "del" /\ f.gen = segs[n].del_gen + 1
  BY <1>2, FileNames
<1> HIDE DEF new
<1>4. \A f \in DOMAIN new : /\ f \in DataFile /\ f.seg \in hit /\ f.kind = "del"
                            /\ f.gen = segs[f.seg].del_gen + 1
  BY <1>1, <1>3
<1>5. IsMap(new, DataFile, SUBSET Docs)
  BY <1>1, <1>4 DEF IsMap
<1> QED BY <1>1, <1>4, <1>5 DEF new

LEMMA DeleteTermType ==
    ASSUME TypeOK, NEW D \in SUBSET Docs, DeleteTerm(D)
    PROVE  TypeOK'
<1> DEFINE hit == {n \in DOMAIN sis.segs : D \cap (sis.segs[n].docs \ sis.segs[n].dels) # {}}
           deleted == [n \in DOMAIN sis.segs |-> sis.segs[n].dels \cup (D \cap sis.segs[n].docs)]
           segs == WithDeletions(sis.segs, hit, deleted)
           new == NewDelFiles(sis.segs, hit, deleted)
           Q == UNION {DelFiles(n, sis.segs[n]) : n \in hit}
<1>1. /\ StartCommit(segs, sis.counter, new, Q, "return") /\ role = "writer"
      /\ UNCHANGED <<target, buffer, sr, curr_seg>>
  BY DEF DeleteTerm, Idle
<1>2. /\ IsMap(sis.segs, Nat, SegInfo) /\ sis.counter \in Nat /\ buffer \subseteq Docs
      /\ target \in Nat \cup {-1}
  BY DEF TypeOK, IsSis
<1>3. \A n \in hit : deleted[n] \subseteq Docs
  BY SegsType DEF SegInfo
<1>4. Q \in SUBSET DataFile
  BY SegsType, DelFilesAre
<1>5. hit \in SUBSET DOMAIN sis.segs
  OBVIOUS
<1> HIDE DEF hit, deleted
<1>6. IsMap(segs, Nat, SegInfo)
  BY <1>2, <1>3, <1>5, WithDeletionsType
<1>7. IsMap(new, DataFile, SUBSET Docs)
  BY <1>2, <1>3, <1>5, NewDelFilesAre
<1> HIDE DEF segs, new, Q
<1> QED BY <1>1, <1>2, <1>4, <1>6, <1>7, StartCommitType

LEMMA AddReadersType ==
    ASSUME TypeOK, NEW D \in SUBSET Docs, AddReaders(D)
    PROVE  TypeOK'
<1> DEFINE n == sis.counter
           si == NewSegInfo(D, "plain")
<1>1. n \in Nat /\ IsMap(sis.segs, Nat, SegInfo)
  BY DEF TypeOK, IsSis
<1>2. si \in SegInfo
  BY NewSegInfoType
<1>3. IsMap(Put(sis.segs, n, si), Nat, SegInfo)
  BY <1>1, <1>2, PutMap
<1>4. IsMap(NewSegFiles(n, si), DataFile, SUBSET Docs)
  BY <1>1, NewSegFilesAre
<1>5. /\ StartCommit(Put(sis.segs, n, si), n + 1, NewSegFiles(n, si), {}, "return")
      /\ role = "writer" /\ target' = -1 /\ UNCHANGED <<buffer, sr, curr_seg>>
  BY DEF AddReaders, Idle
<1>6. /\ buffer' \subseteq Docs /\ n + 1 \in Nat
      /\ target' \in Nat \cup {-1} /\ {} \in SUBSET DataFile
  BY <1>1, <1>5 DEF TypeOK
<1> HIDE DEF n, si
<1> QED BY <1>3, <1>4, <1>5, <1>6, StartCommitType

(* The segment infos after the commit of a reader, segment by segment. *)
LEMMA ReaderSegsAre ==
    ASSUME TypeOK, role = "reader"
    PROVE  /\ IsMap(ReaderSegs, Nat, SegInfo)
           /\ DOMAIN ReaderSegs = DOMAIN sis.segs
           /\ \A n \in DOMAIN sis.segs :
                LET old == sis.segs[n]
                    new == ReaderSegs[n]
                IN /\ new.docs = old.docs /\ new.format = old.format
                   /\ new.norm_gen = IF n \in sr.norms THEN old.norm_gen + 1 ELSE old.norm_gen
                   /\ n \notin sr.undelete /\ n \notin sr.dirty
                        => new.del_gen = old.del_gen /\ new.dels = old.dels
                   /\ n \notin sr.undelete /\ n \in sr.dirty => new.del_gen = old.del_gen + 1
                   /\ n \in sr.undelete /\ n \notin sr.dirty => new.del_gen = -1
                   /\ n \in sr.dirty => new.del_gen \in Nat /\ new.dels = sr.deleted[n]
                   /\ n \in sr.undelete /\ n \notin sr.dirty => new.dels = {}
<1> DEFINE U == [n \in DOMAIN sis.segs |->
                   IF n \in sr.undelete THEN [sis.segs[n] EXCEPT !.dels = {}, !.del_gen = -1]
                                        ELSE sis.segs[n]]
           W == WithDeletions(U, sr.dirty, sr.deleted)
<1>1. /\ DOMAIN U = DOMAIN sis.segs /\ U = [n \in DOMAIN U |-> U[n]]
      /\ \A n \in DOMAIN sis.segs \ sr.undelete : U[n] = sis.segs[n]
      /\ \A n \in DOMAIN sis.segs : n \in sr.undelete =>
            U[n] = [sis.segs[n] EXCEPT !.dels = {}, !.del_gen = -1]
  OBVIOUS
<1>2. /\ DOMAIN ReaderSegs = DOMAIN sis.segs /\ ReaderSegs = [n \in DOMAIN ReaderSegs |-> ReaderSegs[n]]
      /\ \A n \in DOMAIN sis.segs \ sr.norms : ReaderSegs[n] = W[n]
      /\ \A n \in DOMAIN sis.segs : n \in sr.norms =>
            ReaderSegs[n] = [W[n] EXCEPT !.norm_gen = @ + 1]
  BY DEF ReaderSegs
<1> HIDE DEF U
<1>3. ASSUME NEW n \in DOMAIN sis.segs
      PROVE  /\ U[n] \in SegInfo
             /\ U[n].docs = sis.segs[n].docs /\ U[n].format = sis.segs[n].format
             /\ U[n].norm_gen = sis.segs[n].norm_gen
             /\ n \in sr.undelete => U[n].del_gen = -1 /\ U[n].dels = {}
             /\ n \notin sr.undelete => U[n] = sis.segs[n]
  <2>1. sis.segs[n] \in SegInfo
    BY SegsType
  <2>2. CASE n \in sr.undelete
    <3>1. U[n] = [sis.segs[n] EXCEPT !.dels = {}, !.del_gen = -1]
      BY <1>1, <2>2
    <3>2. U[n] \in SegInfo
      BY <2>1, <3>1 DEF SegInfo
    <3> QED BY <2>1, <2>2, <3>1, <3>2 DEF SegInfo
  <2>3. CASE n \notin sr.undelete
    BY <1>1, <2>1, <2>3
  <2> QED BY <2>2, <2>3
<1>4. IsMap(U, Nat, SegInfo)
  BY <1>1, <1>3, SegsType DEF IsMap
<1>5. sr.dirty \in SUBSET DOMAIN U /\ \A n \in sr.dirty : sr.deleted[n] \subseteq Docs
  BY <1>1 DEF TypeOK, ReaderTypeOK
<1>6. /\ IsMap(W, Nat, SegInfo) /\ DOMAIN W = DOMAIN sis.segs
      /\ \A n \in DOMAIN sis.segs : n \notin sr.dirty => W[n] = U[n]
      /\ \A n \in DOMAIN sis.segs : n \in sr.dirty =>
            /\ W[n].docs = U[n].docs /\ W[n].format = U[n].format
            /\ W[n].norm_gen = U[n].norm_gen /\ W[n].del_gen = U[n].del_gen + 1
            /\ W[n].dels = sr.deleted[n]
  <2>1. /\ IsMap(W, Nat, SegInfo) /\ DOMAIN W = DOMAIN U
        /\ \A n \in DOMAIN U \ sr.dirty : W[n] = U[n]
        /\ \A n \in sr.dirty : /\ W[n].docs = U[n].docs /\ W[n].format = U[n].format
                               /\ W[n].norm_gen = U[n].norm_gen
                               /\ W[n].del_gen = U[n].del_gen + 1
                               /\ W[n].dels = sr.deleted[n]
    <3>1. IsMap(W, Nat, SegInfo)
      BY <1>4, <1>5, WithDeletionsType
    <3>2. DOMAIN W = DOMAIN U
      BY DEF WithDeletions
    <3>3. \A n \in DOMAIN U \ sr.dirty : W[n] = U[n]
      BY DEF WithDeletions
    <3>4. ASSUME NEW n \in sr.dirty
          PROVE  /\ W[n].docs = U[n].docs /\ W[n].format = U[n].format
                 /\ W[n].norm_gen = U[n].norm_gen /\ W[n].del_gen = U[n].del_gen + 1
                 /\ W[n].dels = sr.deleted[n]
      <4>1. W[n] = [U[n] EXCEPT !.dels = sr.deleted[n], !.del_gen = @ + 1]
        BY <1>5 DEF WithDeletions
      <4>2. U[n] \in SegInfo
        BY <1>4, <1>5 DEF IsMap
      <4>3. /\ W[n].docs = U[n].docs /\ W[n].format = U[n].format
            /\ W[n].norm_gen = U[n].norm_gen /\ W[n].dels = sr.deleted[n]
        BY <4>1, <4>2 DEF SegInfo
      <4>4. W[n].del_gen = U[n].del_gen + 1
        BY <4>1, <4>2 DEF SegInfo
      <4> QED BY <4>3, <4>4
    <3> QED BY <3>1, <3>2, <3>3, <3>4
  <2> QED BY <1>1, <2>1
<1> HIDE DEF W
<1>7. ASSUME NEW n \in DOMAIN sis.segs
      PROVE  /\ ReaderSegs[n] \in SegInfo
             /\ ReaderSegs[n].docs = W[n].docs /\ ReaderSegs[n].format = W[n].format
             /\ ReaderSegs[n].dels = W[n].dels /\ ReaderSegs[n].del_gen = W[n].del_gen
             /\ ReaderSegs[n].norm_gen = IF n \in sr.norms THEN W[n].norm_gen + 1 ELSE W[n].norm_gen
  <2>1. W[n] \in SegInfo
    BY <1>6 DEF IsMap
  <2>2. CASE n \in sr.norms
    <3>1. ReaderSegs[n] = [W[n] EXCEPT !.norm_gen = @ + 1]
      BY <1>2, <2>2
    <3>2. W[n].norm_gen + 1 \in Nat \cup {-1}
      BY <2>1 DEF SegInfo
    <3>3. ReaderSegs[n] \in SegInfo
      BY <2>1, <3>1, <3>2 DEF SegInfo
    <3>4. /\ ReaderSegs[n].docs = W[n].docs /\ ReaderSegs[n].format = W[n].format
          /\ ReaderSegs[n].dels = W[n].dels /\ ReaderSegs[n].del_gen = W[n].del_gen
      BY <2>1, <3>1 DEF SegInfo
    <3>5. ReaderSegs[n].norm_gen = W[n].norm_gen + 1
      BY <2>1, <3>1 DEF SegInfo
    <3> QED BY <2>2, <3>3, <3>4, <3>5
  <2>3. CASE n \notin sr.norms
    BY <1>2, <2>1, <2>3
  <2> QED BY <2>2, <2>3
<1>8. IsMap(ReaderSegs, Nat, SegInfo)
  BY <1>2, <1>7, SegsType DEF IsMap
<1>9. ASSUME NEW n \in DOMAIN sis.segs, n \in sr.dirty PROVE ReaderSegs[n].del_gen \in Nat
  <2>1. U[n].del_gen \in Nat \cup {-1}
    BY <1>3 DEF SegInfo
  <2> QED BY <1>6, <1>7, <1>9, <2>1
<1> QED BY <1>2, <1>3, <1>6, <1>7, <1>8, <1>9

(* The files a reader writes in its commit. *)
LEMMA ReaderFilesAre ==
    ASSUME TypeOK, role = "reader"
    PROVE  LET new == ReaderFiles(ReaderSegs)
           IN /\ IsMap(new, DataFile, SUBSET Docs)
              /\ \A f \in DOMAIN new :
                    /\ f.seg \in DOMAIN sis.segs /\ new[f] = Content(ReaderSegs[f.seg], f)
                    /\ \/ f.kind = "del" /\ f.seg \in sr.dirty
                          /\ f.gen = ReaderSegs[f.seg].del_gen
                       \/ f.kind = "norm" /\ f.seg \in sr.norms
                          /\ f.gen = ReaderSegs[f.seg].norm_gen
              /\ \A n \in sr.dirty : DelFile(n, ReaderSegs[n].del_gen) \in DOMAIN new
              /\ \A n \in sr.norms : NormFile(n, ReaderSegs[n].norm_gen) \in DOMAIN new
<1> DEFINE new == ReaderFiles(ReaderSegs)
<1>1. /\ DOMAIN new = {DelFile(n, ReaderSegs[n].del_gen) : n \in sr.dirty}
                        \cup {NormFile(n, ReaderSegs[n].norm_gen) : n \in sr.norms}
      /\ new = [f \in DOMAIN new |-> new[f]]
      /\ \A f \in DOMAIN new : new[f] = Content(ReaderSegs[f.seg], f)
  BY DEF ReaderFiles
<1> HIDE DEF new
<1>2. ASSUME NEW n \in sr.dirty
      PROVE  LET f == DelFile(n, ReaderSegs[n].del_gen)
             IN /\ n \in DOMAIN sis.segs /\ f \in DataFile /\ f.seg = n /\ f.kind = "del"
                /\ f.gen = ReaderSegs[n].del_gen
  <2>1. n \in DOMAIN sis.segs /\ n \in Nat
    BY SegsType DEF TypeOK, ReaderTypeOK
  <2>2. ReaderSegs[n].del_gen \in Nat
    BY <2>1, ReaderSegsAre
  <2> QED BY <2>1, <2>2, FileNames
<1>3. ASSUME NEW n \in sr.norms
      PROVE  LET f == NormFile(n, ReaderSegs[n].norm_gen)
             IN /\ n \in DOMAIN sis.segs /\ f \in DataFile /\ f.seg = n /\ f.kind = "norm"
                /\ f.gen = ReaderSegs[n].norm_gen
  <2>1. n \in DOMAIN sis.segs /\ n \in Nat /\ sis.segs[n] \in SegInfo
    BY SegsType DEF TypeOK, ReaderTypeOK
  <2>2. ReaderSegs[n].norm_gen = sis.segs[n].norm_gen + 1
    BY <2>1, ReaderSegsAre
  <2>3. ReaderSegs[n].norm_gen \in Nat
    BY <2>1, <2>2 DEF SegInfo
  <2> QED BY <2>1, <2>3, FileNames
<1>4. \A f \in DOMAIN new :
         /\ f.seg \in DOMAIN sis.segs /\ f \in DataFile
         /\ \/ f.kind = "del" /\ f.seg \in sr.dirty /\ f.gen = ReaderSegs[f.seg].del_gen
            \/ f.kind = "norm" /\ f.seg \in sr.norms /\ f.gen = ReaderSegs[f.seg].norm_gen
  BY <1>1, <1>2, <1>3
<1>5. \A f \in DOMAIN new : new[f] \subseteq Docs
  <2>1. \A n \in DOMAIN sis.segs : ReaderSegs[n] \in SegInfo
    BY ReaderSegsAre DEF IsMap
  <2> QED BY <1>1, <1>4, <2>1 DEF Content, SegInfo
<1>6. IsMap(new, DataFile, SUBSET Docs)
  BY <1>1, <1>4, <1>5 DEF IsMap
<1> QED BY <1>1, <1>4, <1>6 DEF new

LEMMA CommitReaderType == TypeOK /\ CommitReader => TypeOK'
<1> SUFFICES ASSUME TypeOK, CommitReader PROVE TypeOK'
  OBVIOUS
<1> DEFINE Q == (UNION {DelFiles(n, sis.segs[n]) : n \in sr.undelete \cup sr.dirty})
                  \cup (UNION {NormFiles(n, sis.segs[n]) : n \in sr.norms})
<1>1. /\ StartCommit(ReaderSegs, sis.counter, ReaderFiles(ReaderSegs), Q, "return")
      /\ role = "reader" /\ UNCHANGED <<target, buffer, sr>>
  BY DEF CommitReader, Idle
<1>2. \A n \in sr.undelete \cup sr.dirty \cup sr.norms : n \in Nat /\ sis.segs[n] \in SegInfo
  BY <1>1, SegsType DEF TypeOK, ReaderTypeOK
<1>3. Q \in SUBSET DataFile
  <2> DEFINE Q1 == UNION {DelFiles(n, sis.segs[n]) : n \in sr.undelete \cup sr.dirty}
             Q2 == UNION {NormFiles(n, sis.segs[n]) : n \in sr.norms}
  <2>1. \A n \in sr.undelete \cup sr.dirty : DelFiles(n, sis.segs[n]) \subseteq DataFile
    BY <1>2, DelFilesAre
  <2>2. \A n \in sr.norms : NormFiles(n, sis.segs[n]) \subseteq DataFile
    BY <1>2, NormFilesAre
  <2>3. Q1 \subseteq DataFile
    BY <2>1
  <2>4. Q2 \subseteq DataFile
    BY <2>2
  <2>5. Q = Q1 \cup Q2
    OBVIOUS
  <2> HIDE DEF Q, Q1, Q2
  <2> QED BY <2>3, <2>4, <2>5
<1>4. /\ IsMap(ReaderSegs, Nat, SegInfo) /\ DOMAIN ReaderSegs = DOMAIN sis.segs
      /\ IsMap(ReaderFiles(ReaderSegs), DataFile, SUBSET Docs)
  BY <1>1, ReaderSegsAre, ReaderFilesAre
<1>5. sis.counter \in Nat /\ buffer' \subseteq Docs /\ target' \in Nat \cup {-1}
  BY <1>1 DEF TypeOK, IsSis
<1> HIDE DEF Q
<1> QED BY <1>1, <1>3, <1>4, <1>5, StartCommitType

LEMMA OpenWriterType == TypeOK /\ OpenWriter => TypeOK'
<1> SUFFICES ASSUME TypeOK, OpenWriter PROVE TypeOK'
  OBVIOUS
<1>1. PICK g \in FoundGenerations :
         /\ sis' = segments[g]
         /\ pending' = {f \in DOMAIN files : IsDeletable(f, segments[g].segs)}
  BY DEF OpenWriter
<1>2. g \in DOMAIN segments
  BY <1>1 DEF FoundGenerations, Readable
<1>3. IsSis(sis') /\ sis'.generation >= 0
  BY <1>1, <1>2 DEF TypeOK, StoreTypeOK
<1>4. pending' \subseteq DataFile /\ old_segs' \subseteq Nat
  <2>1. DOMAIN files \subseteq DataFile /\ DOMAIN segments \subseteq Nat
    BY DEF TypeOK, StoreTypeOK, IsMap
  <2>2. old_segs' = DOMAIN segments \ {CurrentGeneration}
    BY DEF OpenWriter
  <2> QED BY <1>1, <2>1, <2>2
<1>5. StoreTypeOK' /\ IsMap(todo', DataFile, SUBSET Docs)
  BY StoreSame DEF TypeOK, OpenWriter
<1> QED BY <1>3, <1>4, <1>5 DEF TypeOK, OpenWriter, Phases

LEMMA OpenReaderType == TypeOK /\ OpenReader => TypeOK'
<1> SUFFICES ASSUME TypeOK, OpenReader PROVE TypeOK'
  OBVIOUS
<1>1. PICK g \in FoundGenerations :
         sis' = segments[g] /\ sr' = CleanReader(segments[g].segs)
  BY DEF OpenReader
<1>2. g \in DOMAIN segments
  BY <1>1 DEF FoundGenerations, Readable
<1>3. IsSis(sis') /\ sis'.generation >= 0
  BY <1>1, <1>2 DEF TypeOK, StoreTypeOK
<1>4. ReaderTypeOK'
  <2>1. \A n \in DOMAIN sis'.segs : sis'.segs[n].dels \subseteq Docs
    BY <1>3 DEF IsSis, IsMap, SegInfo
  <2>2. sr' = Reader([n \in DOMAIN sis'.segs |-> sis'.segs[n].dels], {}, {}, {}, "no")
    BY <1>1 DEF CleanReader
  <2>3. /\ sr'.deleted = [n \in DOMAIN sis'.segs |-> sis'.segs[n].dels]
        /\ sr'.undelete = {} /\ sr'.dirty = {} /\ sr'.norms = {} /\ sr'.has_changes = "no"
    BY <2>2, ReaderFields
  <2> QED BY <2>1, <2>2, <2>3 DEF ReaderTypeOK
<1>5. StoreTypeOK' /\ IsMap(todo', DataFile, SUBSET Docs)
  BY StoreSame DEF TypeOK, OpenReader
<1> QED BY <1>3, <1>4, <1>5 DEF TypeOK, OpenReader

LEMMA ChangeReaderType ==
    ASSUME TypeOK, NEW d \in [DOMAIN sis.segs -> SUBSET Docs],
           NEW u \in SUBSET DOMAIN sis.segs, NEW m \in SUBSET DOMAIN sis.segs,
           NEW n \in SUBSET DOMAIN sis.segs, ChangeReader(d, u, m, n)
    PROVE  TypeOK'
<1>1. ReaderTypeOK'
  <2>1. sr' = Reader(d, u, m, n, "yes") /\ sis' = sis
    BY DEF ChangeReader
  <2> QED BY <2>1, ReaderFields DEF ReaderTypeOK
<1>2. StoreTypeOK' /\ IsMap(todo', DataFile, SUBSET Docs)
  BY StoreSame DEF TypeOK, ChangeReader
<1> QED BY <1>1, <1>2 DEF TypeOK, ChangeReader

LEMMA ReaderStepType == TypeOK /\ ReaderStep => TypeOK'
<1> SUFFICES ASSUME TypeOK, ReaderStep PROVE TypeOK'
  OBVIOUS
<1>1. CASE OpenReader \/ CommitReader
  BY <1>1, OpenReaderType, CommitReaderType
<1>2. CASE CloseReader
  BY <1>2, StoreSame, ForgetType DEF CloseReader, TypeOK
<1>3. role = "reader" => ReaderTypeOK
  BY DEF TypeOK
<1>4. CASE UndeleteAll
  BY <1>3, <1>4, ChangeReaderType DEF UndeleteAll, ChangeReader, Idle, ReaderTypeOK
<1>5. ASSUME NEW n \in DOMAIN sis.segs, SetNorm(n) PROVE TypeOK'
  <2>1. role = "reader" /\ ChangeReader(sr.deleted, sr.undelete, sr.dirty, sr.norms \cup {n})
    BY <1>5 DEF SetNorm, ChangeReader, Idle
  <2> QED BY <1>3, <2>1, ChangeReaderType DEF ReaderTypeOK
<1>6. ASSUME NEW n \in DOMAIN sis.segs, NEW d \in Docs, DeleteDoc(n, d) PROVE TypeOK'
  <2>1. role = "reader" /\ ChangeReader(Put(sr.deleted, n, sr.deleted[n] \cup {d}),
                                        sr.undelete \ {n}, sr.dirty \cup {n}, sr.norms)
    BY <1>6 DEF DeleteDoc, ChangeReader, Idle
  <2>2. Put(sr.deleted, n, sr.deleted[n] \cup {d}) \in [DOMAIN sis.segs -> SUBSET Docs]
    BY <1>3, <2>1 DEF ReaderTypeOK, Put
  <2>3. /\ sr.undelete \ {n} \in SUBSET DOMAIN sis.segs
        /\ sr.dirty \cup {n} \in SUBSET DOMAIN sis.segs
        /\ sr.norms \in SUBSET DOMAIN sis.segs
    BY <1>3, <2>1 DEF ReaderTypeOK
  <2> QED BY <2>1, <2>2, <2>3, ChangeReaderType
<1> QED BY <1>1, <1>2, <1>4, <1>5, <1>6 DEF ReaderStep

LEMMA WriterStepType == TypeOK /\ WriterStep => TypeOK'
<1> SUFFICES ASSUME TypeOK, WriterStep PROVE TypeOK'
  OBVIOUS
<1>1. CASE OpenWriter \/ Flush
  BY <1>1, OpenWriterType, FlushType
<1>2. CASE CloseWriter
  BY <1>2, StoreSame, ForgetType DEF CloseWriter, TypeOK
<1>3. CASE Optimize
  <2>1. StoreTypeOK' /\ IsMap(todo', DataFile, SUBSET Docs)
    BY <1>3, StoreSame DEF TypeOK, Optimize
  <2> QED BY <1>3, <2>1 DEF TypeOK, Optimize, Idle, Phases
<1>4. ASSUME NEW d \in Docs, AddDoc(d) PROVE TypeOK'
  <2>1. buffer' = buffer \cup {d} /\ files' = Put(files, CoreFile(sis.counter), buffer')
    BY <1>4 DEF AddDoc
  <2>2. sis.counter \in Nat /\ buffer \subseteq Docs
    BY DEF TypeOK, IsSis
  <2>3. IsMap(files', DataFile, SUBSET Docs)
    BY <2>1, <2>2, FileNames, PutMap DEF TypeOK, StoreTypeOK
  <2>4. StoreTypeOK'
    BY <1>4, <2>3 DEF TypeOK, StoreTypeOK, AddDoc
  <2> QED BY <1>4, <2>1, <2>2, <2>4 DEF TypeOK, AddDoc, Idle
<1>5. ASSUME NEW D \in SUBSET Docs, DeleteTerm(D) \/ AddReaders(D) PROVE TypeOK'
  BY <1>5, DeleteTermType, AddReadersType
<1> QED BY <1>1, <1>2, <1>3, <1>4, <1>5 DEF WriterStep

LEMMA CommitStepType == TypeOK /\ RoleInv /\ CommitStep => TypeOK'
<1> SUFFICES ASSUME TypeOK, RoleInv, CommitStep PROVE TypeOK'
  OBVIOUS
<1>1. CASE EndMerges
  <2>1. StoreTypeOK' /\ IsMap(todo', DataFile, SUBSET Docs)
    BY <1>1, StoreSame DEF TypeOK, EndMerges
  <2> QED BY <1>1, <2>1 DEF TypeOK, EndMerges, Phases, ReaderTypeOK
<1>2. CASE MaybeMerge
  <2>1. target * MergeFactor \in Nat \cup {-1}
    <3>1. target \in Nat
      BY <1>2 DEF MaybeMerge, TypeOK
    <3> QED BY <3>1, CommitConstants
  <2>2. CASE MergeSegments(SmallSegments) /\ target' = target * MergeFactor
    <3>1. role = "writer"
      BY <1>2 DEF RoleInv, MaybeMerge, TypeOK
    <3>2. SmallSegments \in SUBSET DOMAIN sis.segs
      BY DEF SmallSegments
    <3> QED BY <2>1, <2>2, <3>1, <3>2, MergeSegmentsType
  <2>3. CASE /\ target' = target * MergeFactor
             /\ UNCHANGED <<store, role, phase, sis, pending, old_segs, todo, after, buffer, sr,
                            curr_seg, committed>>
    <3>1. StoreTypeOK' /\ IsMap(todo', DataFile, SUBSET Docs)
      BY <2>3, StoreSame DEF TypeOK
    <3> QED BY <2>1, <2>3, <3>1 DEF TypeOK, ReaderTypeOK
  <2> QED BY <1>1, <1>2, <2>2, <2>3 DEF MaybeMerge
<1>3. CASE OptimizeStep
  <2>1. CASE MergeSegments(LastSegments) /\ UNCHANGED target
    BY <1>3, <2>1, MergeSegmentsType DEF LastSegments, TypeOK, RoleInv, OptimizeStep
  <2> QED BY <1>1, <1>3, <2>1 DEF OptimizeStep
<1>4. CASE WriteFile
  <2>1. PICK f \in DOMAIN todo : /\ files' = Put(files, f, todo[f])
                                /\ todo' = Without(todo, {f})
    BY <1>4 DEF WriteFile
  <2>2. f \in DataFile /\ todo[f] \in SUBSET Docs
    BY <2>1 DEF TypeOK, IsMap
  <2>3. IsMap(files', DataFile, SUBSET Docs) /\ IsMap(todo', DataFile, SUBSET Docs)
    BY <2>1, <2>2, PutMap, WithoutMap DEF TypeOK, StoreTypeOK
  <2>4. StoreTypeOK'
    BY <1>4, <2>3 DEF TypeOK, StoreTypeOK, WriteFile
  <2> QED BY <1>4, <2>3, <2>4 DEF TypeOK, ReaderTypeOK, WriteFile
<1>5. CASE BeginSegments
  <2> DEFINE new == Sis(sis.generation + 1, sis.version + 1, sis.counter, sis.segs)
  <2>1. /\ sis' = new /\ segments' = Put(segments, new.generation, new)
        /\ torn' = torn \cup {new.generation} /\ phase' = "torn"
        /\ UNCHANGED <<files, segments_gen, role, pending, old_segs, todo, after, target,
                       buffer, sr, curr_seg, committed>>
    BY <1>5 DEF BeginSegments
  <2>2. /\ sis.generation + 1 \in Nat /\ sis.version + 1 \in Nat /\ sis.counter \in Nat
        /\ IsMap(sis.segs, Nat, SegInfo)
    BY DEF TypeOK, IsSis
  <2>3. /\ IsSis(new) /\ new.generation \in Nat /\ new.segs = sis.segs
    BY <2>2, SisType, SisFields
  <2> HIDE DEF new
  <2>4. StoreTypeOK'
    <3>1. IsMap(files', DataFile, SUBSET Docs) /\ segments_gen' \in Nat \cup {-1}
      BY <2>1 DEF TypeOK, StoreTypeOK
    <3>2. /\ DOMAIN segments' = DOMAIN segments \cup {new.generation}
          /\ segments' = [g \in DOMAIN segments' |-> segments'[g]]
          /\ segments'[new.generation] = new
          /\ \A g \in DOMAIN segments : g # new.generation => segments'[g] = segments[g]
      BY <2>1 DEF Put
    <3>3. /\ DOMAIN segments' \subseteq Nat /\ torn' \subseteq DOMAIN segments'
          /\ \A g \in DOMAIN segments' : IsSis(segments'[g]) /\ segments'[g].generation = g
      BY <2>1, <2>3, <3>2 DEF TypeOK, StoreTypeOK
    <3> QED BY <3>1, <3>2, <3>3 DEF StoreTypeOK
  <2>5. role = "reader" => ReaderTypeOK'
    BY <2>1, <2>3 DEF TypeOK, ReaderTypeOK
  <2>6. IsMap(todo', DataFile, SUBSET Docs)
    BY <2>1 DEF TypeOK
  <2> QED BY <2>1, <2>3, <2>4, <2>5, <2>6 DEF TypeOK, Phases
<1>6. ASSUME NEW S, segments' = Without(segments, S), torn' = torn \ S,
             UNCHANGED segments_gen, IsMap(files', DataFile, SUBSET Docs)
      PROVE  StoreTypeOK'
  <2>1. /\ DOMAIN segments' = DOMAIN segments \ S
        /\ segments' = [g \in DOMAIN segments' |-> segments'[g]]
        /\ \A g \in DOMAIN segments \ S : segments'[g] = segments[g]
    BY <1>6 DEF Without
  <2> QED BY <1>6, <2>1 DEF TypeOK, StoreTypeOK
<1>7. files' = files => IsMap(files', DataFile, SUBSET Docs)
  BY DEF TypeOK, StoreTypeOK
<1>8. todo' = todo => IsMap(todo', DataFile, SUBSET Docs)
  BY DEF TypeOK
<1>9. CASE EndSegments
  <2>1. StoreTypeOK'
    BY <1>7, <1>9 DEF TypeOK, StoreTypeOK, EndSegments
  <2>2. committed'.generation >= 0
    BY <1>9 DEF TypeOK, EndSegments, RoleInv
  <2> QED BY <1>8, <1>9, <2>1, <2>2 DEF TypeOK, EndSegments, Phases, memory, ReaderTypeOK
<1>10. CASE WriteGen
  <2>1. StoreTypeOK'
    BY <1>7, <1>10 DEF TypeOK, StoreTypeOK, WriteGen, memory, IsSis
  <2> QED BY <1>8, <1>10, <2>1 DEF TypeOK, WriteGen, Phases, memory, ReaderTypeOK
<1>11. CASE DropPrevious
  <2>1. StoreTypeOK'
    BY <1>6, <1>7, <1>11 DEF DropPrevious
  <2>2. phase' \in Phases
    BY <1>11 DEF DropPrevious, AfterCommit, Phases
  <2> QED BY <1>8, <1>11, <2>1, <2>2 DEF TypeOK, DropPrevious, memory, ReaderTypeOK
<1>12. CASE DropCurrent
  <2>1. StoreTypeOK'
    BY <1>6, <1>7, <1>12 DEF DropCurrent
  <2> QED BY <1>12, <2>1, ForgetType DEF DropCurrent
<1>13. CASE PurgeFile
  <2>1. PICK f \in pending : files' = Without(files, {f}) /\ pending' = pending \ {f}
    BY <1>13 DEF PurgeFile
  <2>2. IsMap(files', DataFile, SUBSET Docs)
    BY <2>1, WithoutMap DEF TypeOK, StoreTypeOK
  <2>3. StoreTypeOK'
    BY <1>13, <2>2 DEF TypeOK, StoreTypeOK, PurgeFile
  <2> QED BY <1>8, <1>13, <2>1, <2>3 DEF TypeOK, PurgeFile, ReaderTypeOK
<1>14. CASE PurgeSegments
  <2>1. PICK g \in old_segs : /\ segments' = Without(segments, {g})
                             /\ torn' = torn \ {g} /\ old_segs' = old_segs \ {g}
    BY <1>14 DEF PurgeSegments
  <2>2. StoreTypeOK'
    BY <1>6, <1>7, <1>14, <2>1 DEF PurgeSegments
  <2> QED BY <1>8, <1>14, <2>1, <2>2 DEF TypeOK, PurgeSegments, ReaderTypeOK
<1>15. CASE EndPurge
  <2>1. StoreTypeOK' /\ phase' \in Phases
    BY <1>15, StoreSame DEF TypeOK, EndPurge, AfterCommit, Phases
  <2> QED BY <1>8, <1>15, <2>1 DEF TypeOK, EndPurge, memory, ReaderTypeOK
<1> QED BY <1>2, <1>3, <1>4, <1>5, <1>9, <1>10, <1>11, <1>12, <1>13, <1>14, <1>15
        DEF CommitStep

LEMMA InitType == Init => TypeOK
<1> SUFFICES ASSUME Init PROVE TypeOK
  OBVIOUS
<1> DEFINE empty == Sis(0, 1, 0, NoSegs)
<1>1. IsMap(NoSegs, Nat, SegInfo)
  BY DEF IsMap, NoSegs
<1>2. IsSis(empty) /\ empty.generation = 0
  BY <1>1, SisType, SisFields
<1> HIDE DEF empty
<1>3. StoreTypeOK
  <2>1. segments = [g \in {0} |-> empty] /\ files = NoFiles /\ torn = {} /\ segments_gen = 0
    BY DEF Init, empty
  <2> QED BY <1>2, <2>1, NoFilesMap DEF StoreTypeOK
<1>4. IsSis(sis) /\ committed = empty /\ IsMap(todo, DataFile, SUBSET Docs)
  BY NoSisType, NoFilesMap DEF Init, empty
<1> QED BY <1>2, <1>3, <1>4 DEF Init, TypeOK, Phases

LEMMA StepType == TypeOK /\ RoleInv /\ [Next]_vars => TypeOK'
<1> SUFFICES ASSUME TypeOK, RoleInv, [Next]_vars PROVE TypeOK'
  OBVIOUS
<1>1. CASE Crash
  BY <1>1, StoreSame, ForgetType DEF Crash, TypeOK
<1>2. CASE UNCHANGED vars
  <2>1. StoreTypeOK' /\ IsMap(todo', DataFile, SUBSET Docs)
    BY <1>2, StoreSame DEF TypeOK, vars, memory
  <2> QED BY <1>2, <2>1 DEF TypeOK, vars, memory, ReaderTypeOK
<1> QED BY <1>1, <1>2, WriterStepType, ReaderStepType, CommitStepType DEF Next

(* The commit protocol keeps its types: a fact about every constant, and the *)
(* ground the safety proofs stand on.                                        *)
THEOREM CommitTypeCorrect == Spec => []TypeOK
<1>1. Init => RoleInv
  BY DEF Init, RoleInv
<1> QED BY <1>1, InitType, StepType, RoleStep, PTL DEF Spec
=============================================================================
