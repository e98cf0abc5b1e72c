-------------------------- MODULE IndexCommitHistory --------------------------
(* How a commit is related to the one before it: which documents come and go,*)
(* and that no file a former commit refers to is written again with another  *)
(* content.  IndexOpenRefinement builds on this: a reader may still be       *)
(* opening the files of a former commit.  And what commits leave behind in   *)
(* the directory.                                                            *)
EXTENDS IndexCommitSafety

AllDocs(segs) == UNION {segs[n].docs : n \in DOMAIN segs}
AllDels(segs) == UNION {segs[n].dels : n \in DOMAIN segs}

(* Every document is in one segment only and deleted where it is, in a .del  *)
(* file.                                                                     *)
Apart(segs) ==
    \A n \in DOMAIN segs :
        /\ segs[n].dels \subseteq segs[n].docs
        /\ HasDeletions(segs[n]) \/ segs[n].dels = {}
        /\ \A m \in DOMAIN segs : m # n => segs[m].docs \cap segs[n].docs = {}

DocsInv ==
    /\ Apart(committed.segs) /\ Apart(sis.segs)
    /\ buffer \cap AllDocs(sis.segs) = {} /\ (role = "none" => buffer = {})
    /\ role = "reader" => \A n \in DOMAIN sis.segs : sr.deleted[n] \subseteq sis.segs[n].docs

(* What a commit does to the documents: a flush or a copy adds some, deleting*)
(* and undeleting leave them in their segments, a merge expunges deleted ones*)
Added(old, new) ==
    \E D \in SUBSET Docs : /\ D # {} /\ D \cap AllDocs(old) = {}
                           /\ AllDocs(new) = AllDocs(old) \cup D /\ AllDels(new) = AllDels(old)
Marked(old, new) == AllDocs(new) = AllDocs(old)
Merged(old, new) == LiveDocs(new) = LiveDocs(old) /\ AllDels(new) \subseteq AllDels(old)
Change(old, new) == Added(old, new) \/ Marked(old, new) \/ Merged(old, new)

ChangeInv ==
    /\ phase = "write" => sis.version = committed.version
    /\ phase = "torn"  => sis.version = committed.version + 1
    /\ phase \in {"write", "torn"} => Change(committed.segs, sis.segs)

(* The segments of old that are in new as well have the same documents and   *)
(* no older deletions; the others have new names.                            *)
Continues(old, new) ==
    /\ old.counter <= new.counter
    /\ \A n \in DOMAIN new.segs :
         \/ n >= old.counter
         \/ /\ n \in DOMAIN old.segs /\ new.segs[n].docs = old.segs[n].docs
            /\ new.segs[n].del_gen >= old.segs[n].del_gen

(* A file that is being written with the content c is of a new segment, is a *)
(* new .del file, or says nothing new.                                       *)
NeverRead(f, c) ==
    \/ f.seg >= committed.counter
    \/ f.seg \in DOMAIN committed.segs /\ f.kind = "del" /\ f.gen > committed.segs[f.seg].del_gen
    \/ f.seg \in DOMAIN committed.segs /\ f.kind # "del" /\ c = committed.segs[f.seg].docs
NoneRead(w) == \A f \in DOMAIN w : NeverRead(f, w[f])

NamesInv ==
    /\ role = "reader" => sr.undelete = {}
    /\ phase \in {"write", "torn"} => Continues(committed, sis)
    /\ phase = "write" => NoneRead(todo)

History == DocsInv /\ ChangeInv /\ NamesInv

-----------------------------------------------------------------------------
(* Lemmas *)

LEMMA LiveIsRest ==
    ASSUME NEW segs, Apart(segs)
    PROVE  LiveDocs(segs) = AllDocs(segs) \ AllDels(segs) /\ AllDels(segs) \subseteq AllDocs(segs)
<1>1. \A n \in DOMAIN segs : segs[n].dels \subseteq segs[n].docs
  BY DEF Apart
<1>2. AllDels(segs) \subseteq AllDocs(segs)
  BY <1>1 DEF AllDels, AllDocs
<1>3. ASSUME NEW n \in DOMAIN segs, NEW d \in segs[n].docs \ segs[n].dels PROVE d \notin AllDels(segs)
  <2> SUFFICES ASSUME NEW m \in DOMAIN segs, d \in segs[m].dels PROVE FALSE
    BY DEF AllDels
  <2>1. d \in segs[m].docs /\ d \in segs[n].docs /\ m # n
    BY <1>1, <1>3
  <2> QED BY <2>1 DEF Apart
<1>4. LiveDocs(segs) \subseteq AllDocs(segs) \ AllDels(segs)
  BY <1>3 DEF LiveDocs, AllDocs
<1>5. AllDocs(segs) \ AllDels(segs) \subseteq LiveDocs(segs)
  BY DEF LiveDocs, AllDocs, AllDels
<1> QED BY <1>2, <1>4, <1>5

(* Entering a commit. *)
LEMMA StartCommitHistory ==
    ASSUME Inv, History, role # "none", phase \in {"idle", "merge"},
           NEW segs, NEW c, NEW w, NEW q, NEW t, StartCommit(segs, c, w, q, t),
           Apart(segs), Change(sis.segs, segs), buffer' \cap AllDocs(segs) = {}, UNCHANGED sr,
           role = "reader" => \A n \in DOMAIN segs : sr.deleted[n] \subseteq segs[n].docs,
           Continues(sis, Sis(sis.generation, sis.version, c, segs)),
           NoneRead(w)
    PROVE  History'
<1>1. sis = committed
  BY DEF Inv, Safe, MemoryInv
<1>2. /\ sis' = Sis(sis.generation, sis.version, c, segs) /\ phase' = "write" /\ todo' = w
      /\ role' = role /\ committed' = committed
  BY DEF StartCommit
<1>3. sis'.version = committed.version /\ sis'.segs = segs
  BY <1>1, <1>2, SisFields
<1>4. DocsInv'
  BY <1>2, <1>3 DEF History, DocsInv
<1>5. ChangeInv'
  BY <1>1, <1>2, <1>3 DEF ChangeInv
<1>6. NamesInv'
  <2>1. Continues(committed', sis')
    BY <1>1, <1>2
  <2>2. NoneRead(todo)'
    BY <1>2 DEF NoneRead, NeverRead
  <2> QED BY <1>2, <2>1, <2>2 DEF History, NamesInv
<1> QED BY <1>4, <1>5, <1>6 DEF History

(* A new segment k with the documents D in the place of the segments in old. *)
Replaced(segs, old, k, D, F) ==
    /\ DOMAIN segs = (DOMAIN sis.segs \ old) \cup {k} /\ segs[k] = NewSegInfo(D, F)
    /\ \A n \in DOMAIN sis.segs \ old : segs[n] = sis.segs[n]

LEMMA ReplacedIs ==
    ASSUME Inv, NEW old \in SUBSET DOMAIN sis.segs, NEW D, NEW F,
           NEW W, DOMAIN W = DOMAIN sis.segs \ old,
           \A n \in DOMAIN sis.segs \ old : W[n] = sis.segs[n]
    PROVE  Replaced(Put(W, sis.counter, NewSegInfo(D, F)), old, sis.counter, D, F)
<1> DEFINE k == sis.counter
           si == NewSegInfo(D, F)
           segs == Put(W, k, si)
<1>1. \A m \in DOMAIN sis.segs : m # k
  BY SegsType, SisTypes DEF Inv, Safe, MemoryInv
<1> HIDE DEF si, k
<1>2. /\ DOMAIN segs = DOMAIN W \cup {k} /\ segs[k] = si
      /\ \A m \in DOMAIN W : m # k => segs[m] = W[m]
  BY DEF Put
<1> HIDE DEF segs
<1>3. /\ DOMAIN segs = (DOMAIN sis.segs \ old) \cup {k} /\ segs[k] = si
      /\ \A n \in DOMAIN sis.segs \ old : segs[n] = sis.segs[n]
  BY <1>1, <1>2
<1> QED BY <1>3 DEF Replaced, segs, si, k

LEMMA NewSegmentHistory ==
    ASSUME Inv, DocsInv, role = "writer", phase \in {"idle", "merge"},
           NEW old \in SUBSET DOMAIN sis.segs, NEW D \in SUBSET Docs, NEW F \in {"plain", "compound"},
           NEW k, k = sis.counter, NEW segs, Replaced(segs, old, k, D, F),
           \A n \in DOMAIN sis.segs \ old : D \cap sis.segs[n].docs = {}
    PROVE  /\ Apart(segs)
           /\ Continues(sis, Sis(sis.generation, sis.version, k + 1, segs))
           /\ NoneRead(NewSegFiles(k, NewSegInfo(D, F)))
           /\ k \notin DOMAIN sis.segs
<1> DEFINE si == NewSegInfo(D, F)
<1>1. /\ sis = committed /\ k \in Nat
      /\ \A n \in DOMAIN sis.segs : n \in Nat /\ n < k /\ sis.segs[n].del_gen \in Int
  BY SisTypes, SegsType DEF Inv, Safe, MemoryInv, SegInfo
<1>2. /\ DOMAIN segs = (DOMAIN sis.segs \ old) \cup {k} /\ segs[k] = si
      /\ \A n \in DOMAIN sis.segs \ old : segs[n] = sis.segs[n]
  BY DEF Replaced
<1>3. si.docs = D /\ si.dels = {}
  BY DEF NewSegInfo
<1> HIDE DEF si
<1>4. Apart(segs)
  BY <1>1, <1>2, <1>3 DEF DocsInv, Apart
<1>5. Continues(sis, Sis(sis.generation, sis.version, k + 1, segs))
  <2> DEFINE new == Sis(sis.generation, sis.version, k + 1, segs)
  <2>1. new.counter = k + 1 /\ new.segs = segs
    BY SisFields
  <2> HIDE DEF new
  <2>2. Continues(sis, new)
    BY <1>1, <1>2, <2>1 DEF Continues
  <2> QED BY <2>2 DEF new
<1>6. \A f \in DOMAIN NewSegFiles(k, si) : f.seg = k
  BY <1>1, NewSegFilesAre DEF si
<1>7. NoneRead(NewSegFiles(k, si))
  BY <1>1, <1>6 DEF NoneRead, NeverRead
<1> QED BY <1>1, <1>4, <1>5, <1>7 DEF si

(* A flush or a copy: the documents are added. *)
LEMMA AppendHistory ==
    ASSUME Inv, History, role = "writer", phase = "idle",
           NEW D \in SUBSET Docs, NEW F \in {"plain", "compound"}, D # {},
           D \cap AllDocs(sis.segs) = {}, NEW q, NEW t, NEW k, k = sis.counter,
           NEW none, none = {}, NEW segs, Replaced(segs, none, k, D, F),
           StartCommit(segs, k + 1, NewSegFiles(k, NewSegInfo(D, F)), q, t), buffer' = {},
           UNCHANGED sr
    PROVE  History'
<1> DEFINE w == NewSegFiles(k, NewSegInfo(D, F))
<1>1. none \in SUBSET DOMAIN sis.segs /\ DOMAIN sis.segs = DOMAIN sis.segs \ none
  OBVIOUS
<1>2. Replaced(segs, none, k, D, F)
  OBVIOUS
<1>3. \A n \in DOMAIN sis.segs \ none : D \cap sis.segs[n].docs = {}
  BY DEF AllDocs
<1>4. /\ Apart(segs) /\ Continues(sis, Sis(sis.generation, sis.version, k + 1, segs))
      /\ NoneRead(w) /\ k \notin DOMAIN sis.segs
  BY <1>1, <1>2, <1>3, NewSegmentHistory DEF History
<1>5. /\ DOMAIN segs = DOMAIN sis.segs \cup {k} /\ segs[k].docs = D /\ segs[k].dels = {}
      /\ \A n \in DOMAIN sis.segs : segs[n] = sis.segs[n]
  <2>1. DOMAIN segs = (DOMAIN sis.segs \ none) \cup {k} /\ segs[k] = NewSegInfo(D, F)
    BY <1>2 DEF Replaced
  <2>2. \A n \in DOMAIN sis.segs \ none : segs[n] = sis.segs[n]
    BY <1>2 DEF Replaced
  <2>3. segs[k].docs = D /\ segs[k].dels = {}
    BY <2>1 DEF NewSegInfo
  <2> QED BY <1>1, <2>1, <2>2, <2>3
<1>6. Change(sis.segs, segs)
  <2>1. AllDocs(segs) = AllDocs(sis.segs) \cup D
    BY <1>4, <1>5 DEF AllDocs
  <2>2. AllDels(segs) = AllDels(sis.segs)
    BY <1>4, <1>5 DEF AllDels
  <2> QED BY <2>1, <2>2 DEF Change, Added
<1>7. StartCommit(segs, k + 1, w, q, t)
  OBVIOUS
<1> HIDE DEF w
<1> QED BY <1>4, <1>6, <1>7, StartCommitHistory

LEMMA FlushHistory ==
    ASSUME Inv, History, Flush
    PROVE  History'
<1> DEFINE k == sis.counter
           si == NewSegInfo(buffer, Format)
           segs == Put(sis.segs, k, si)
<1>1. /\ role = "writer" /\ phase = "idle" /\ buffer' = {} /\ UNCHANGED sr /\ buffer # {}
      /\ StartCommit(segs, k + 1, NewSegFiles(k, si), CopiedFiles(k, si), "purge")
  BY DEF Flush, Idle
<1>2. /\ buffer \in SUBSET Docs /\ Format \in {"plain", "compound"}
      /\ buffer \cap AllDocs(sis.segs) = {}
  BY CommitConstants DEF Inv, TypeOK, History, DocsInv
<1>3. Replaced(segs, {}, k, buffer, Format)
  BY ReplacedIs
<1> HIDE DEF segs
<1> QED BY <1>1, <1>2, <1>3, AppendHistory

LEMMA AddReadersHistory ==
    ASSUME Inv, History, NEW D \in SUBSET Docs, AddReaders(D)
    PROVE  History'
<1> DEFINE k == sis.counter
           si == NewSegInfo(D, "plain")
           segs == Put(sis.segs, k, si)
<1>1. /\ role = "writer" /\ phase = "idle" /\ buffer' = {} /\ UNCHANGED sr /\ D # {}
      /\ StartCommit(segs, k + 1, NewSegFiles(k, si), {}, "return")
  BY DEF AddReaders, Idle
<1>2. D \cap AllDocs(sis.segs) = {}
  BY DEF AddReaders, AllDocs
<1>3. Replaced(segs, {}, k, D, "plain")
  BY ReplacedIs
<1> HIDE DEF segs
<1> QED BY <1>1, <1>2, <1>3, AppendHistory

(* A merge: the live documents stay. *)
LEMMA MergeHistory ==
    ASSUME Inv, History, role = "writer", phase = "merge",
           NEW S \in SUBSET DOMAIN sis.segs, MergeSegments(S)
    PROVE  History'
<1> DEFINE k == sis.counter
           D == UNION {sis.segs[m].docs \ sis.segs[m].dels : m \in S}
           si == NewSegInfo(D, Format)
           W == Without(sis.segs, S)
           segs == Put(W, k, si)
           Q == CopiedFiles(k, si) \cup UNION {SiDeleteFiles(m, sis.segs[m]) : m \in S}
           w == NewSegFiles(k, si)
<1>1. D \in SUBSET Docs /\ Format \in {"plain", "compound"}
  BY DocsOfSegs, CommitConstants DEF Inv
<1>2. StartCommit(segs, k + 1, w, Q, "purge") /\ UNCHANGED <<buffer, sr>>
  BY DEF MergeSegments
<1>3. DOMAIN W = DOMAIN sis.segs \ S /\ \A n \in DOMAIN sis.segs \ S : W[n] = sis.segs[n]
  BY WithoutValues
<1>4. Apart(sis.segs) /\ buffer \cap AllDocs(sis.segs) = {}
  BY DEF History, DocsInv
<1>5. \A n \in DOMAIN sis.segs \ S : D \cap sis.segs[n].docs = {}
  BY <1>4 DEF Apart
<1>6. \A d : d \in D <=> \E m \in S : d \in sis.segs[m].docs \ sis.segs[m].dels
  OBVIOUS
<1> HIDE DEF D, W
<1>7. Replaced(segs, S, k, D, Format)
  BY <1>3, ReplacedIs
<1>8. k = sis.counter
  OBVIOUS
<1> HIDE DEF segs, Q, k
<1>9. /\ Apart(segs) /\ Continues(sis, Sis(sis.generation, sis.version, k + 1, segs))
      /\ NoneRead(w) /\ k \notin DOMAIN sis.segs
  BY <1>1, <1>5, <1>7, <1>8, NewSegmentHistory DEF History
<1>10. /\ DOMAIN segs = (DOMAIN sis.segs \ S) \cup {k} /\ segs[k].docs = D /\ segs[k].dels = {}
       /\ \A n \in DOMAIN sis.segs \ S : segs[n] = sis.segs[n]
  BY <1>7 DEF Replaced, NewSegInfo
<1>11. Change(sis.segs, segs) /\ AllDocs(segs) \subseteq AllDocs(sis.segs)
  <2>1. LiveDocs(segs) = LiveDocs(sis.segs)
    <3>1. \A d : d \in LiveDocs(segs) <=> \/ d \in D
                                          \/ \E n \in DOMAIN sis.segs \ S : d \in sis.segs[n].docs \ sis.segs[n].dels
      BY <1>10 DEF LiveDocs
    <3>2. \A d : d \in LiveDocs(sis.segs) <=> \E n \in DOMAIN sis.segs : d \in sis.segs[n].docs \ sis.segs[n].dels
      BY DEF LiveDocs
    <3>3. \A d : d \in LiveDocs(segs) <=> d \in LiveDocs(sis.segs)
      BY <1>6, <3>1, <3>2
    <3> QED BY <3>3 DEF LiveDocs
  <2>2. AllDels(segs) \subseteq AllDels(sis.segs)
    BY <1>10 DEF AllDels
  <2>3. AllDocs(segs) \subseteq AllDocs(sis.segs)
    BY <1>6, <1>10 DEF AllDocs
  <2> QED BY <2>1, <2>2, <2>3 DEF Change, Merged
<1>12. buffer' \cap AllDocs(segs) = {}
  BY <1>2, <1>4, <1>11
<1> HIDE DEF w
<1> QED BY <1>2, <1>9, <1>11, <1>12, StartCommitHistory

(* Deletions, undeletions and norms: every document stays in its segment. *)
LEMMA MarkHistory ==
    ASSUME Inv, History, role # "none", phase = "idle",
           NEW segs, NEW w, NEW q, StartCommit(segs, sis.counter, w, q, "return"),
           DOMAIN segs = DOMAIN sis.segs,
           \A n \in DOMAIN segs : /\ segs[n].docs = sis.segs[n].docs
                                  /\ segs[n].dels \subseteq segs[n].docs
                                  /\ HasDeletions(segs[n]) \/ segs[n].dels = {}
                                  /\ segs[n].del_gen >= sis.segs[n].del_gen,
           NoneRead(w), UNCHANGED <<buffer, sr>>
    PROVE  History'
<1>1. Apart(segs)
  BY DEF History, DocsInv, Apart
<1>2. AllDocs(segs) = AllDocs(sis.segs)
  BY DEF AllDocs
<1>3. Continues(sis, Sis(sis.generation, sis.version, sis.counter, segs))
  <2> DEFINE new == Sis(sis.generation, sis.version, sis.counter, segs)
  <2>1. new.counter = sis.counter /\ new.segs = segs /\ sis.counter \in Nat
    BY SisFields, SisTypes DEF Inv
  <2> HIDE DEF new
  <2>2. Continues(sis, new)
    BY <2>1 DEF Continues
  <2> QED BY <2>2 DEF new
<1>4. role = "reader" => \A n \in DOMAIN segs : sr.deleted[n] \subseteq segs[n].docs
  BY DEF History, DocsInv
<1>5. buffer' \cap AllDocs(segs) = {} /\ Change(sis.segs, segs)
  BY <1>2 DEF History, DocsInv, Change, Marked
<1> QED BY <1>1, <1>3, <1>4, <1>5, StartCommitHistory

LEMMA DeleteTermHistory ==
    ASSUME Inv, History, NEW D \in SUBSET Docs, DeleteTerm(D)
    PROVE  History'
<1> DEFINE hit == {n \in DOMAIN sis.segs : D \cap (sis.segs[n].docs \ sis.segs[n].dels) # {}}
           deleted == [n \in DOMAIN sis.segs |-> sis.segs[n].dels \cup (D \cap sis.segs[n].docs)]
           segs == WithDeletions(sis.segs, hit, deleted)
           new == NewDelFiles(sis.segs, hit, deleted)
           Q == UNION {DelFiles(n, sis.segs[n]) : n \in hit}
<1>1. /\ StartCommit(segs, sis.counter, new, Q, "return") /\ role = "writer" /\ phase = "idle"
      /\ UNCHANGED <<buffer, sr>>
  BY DEF DeleteTerm, Idle
<1>2. /\ sis = committed /\ IsMap(sis.segs, Nat, SegInfo) /\ Apart(sis.segs)
      /\ \A n \in DOMAIN sis.segs : sis.segs[n] \in SegInfo /\ sis.segs[n].del_gen \in Int
  BY <1>1, SisTypes, SegsType DEF Inv, Safe, MemoryInv, SegInfo, History, DocsInv
<1>3. /\ \A n \in hit : deleted[n] \subseteq Docs
      /\ hit \in SUBSET DOMAIN sis.segs
  BY <1>2 DEF SegInfo
<1>4. \A n \in hit : deleted[n] \subseteq sis.segs[n].docs
  BY <1>2 DEF Apart
<1> HIDE DEF hit, deleted
<1>5. Deleted(sis.segs, hit, deleted, segs, new)
  BY <1>2, <1>3, DeletedSegs
<1> HIDE DEF segs, new, Q
<1>6. /\ DOMAIN segs = DOMAIN sis.segs
      /\ \A n \in DOMAIN sis.segs \ hit : segs[n] = sis.segs[n]
      /\ \A n \in hit : /\ segs[n].docs = sis.segs[n].docs /\ segs[n].dels = deleted[n]
                        /\ segs[n].del_gen = sis.segs[n].del_gen + 1
      /\ \A f \in DOMAIN new : /\ f.seg \in hit /\ f.kind = "del"
                               /\ f.gen = sis.segs[f.seg].del_gen + 1
  BY <1>5 DEF Deleted
<1>7. ASSUME NEW n \in DOMAIN segs
      PROVE  /\ segs[n].docs = sis.segs[n].docs /\ segs[n].dels \subseteq segs[n].docs
             /\ HasDeletions(segs[n]) \/ segs[n].dels = {}
             /\ segs[n].del_gen >= sis.segs[n].del_gen
  <2>1. CASE n \in hit
    BY <1>2, <1>4, <1>6, <2>1 DEF SegInfo, HasDeletions
  <2>2. CASE n \notin hit
    BY <1>2, <1>6, <2>2 DEF Apart
  <2> QED BY <2>1, <2>2
<1>8. NoneRead(new)
  BY <1>2, <1>3, <1>6 DEF NoneRead, NeverRead
<1> QED BY <1>1, <1>6, <1>7, <1>8, MarkHistory

LEMMA CommitReaderHistory ==
    ASSUME Inv, History, CommitReader
    PROVE  History'
<1> DEFINE Q == (UNION {DelFiles(n, sis.segs[n]) : n \in sr.undelete \cup sr.dirty})
                  \cup (UNION {NormFiles(n, sis.segs[n]) : n \in sr.norms})
           segs == ReaderSegs
           new == ReaderFiles(segs)
<1>1. /\ StartCommit(segs, sis.counter, new, Q, "return") /\ role = "reader" /\ phase = "idle"
      /\ UNCHANGED <<buffer, sr>>
  BY DEF CommitReader, Idle
<1>2. /\ TypeOK /\ sis = committed /\ sr.undelete = {} /\ Apart(sis.segs)
      /\ \A n \in DOMAIN sis.segs : /\ sr.deleted[n] \subseteq sis.segs[n].docs
                                    /\ sis.segs[n].del_gen \in Nat \cup {-1}
  BY <1>1, SegsType DEF Inv, Safe, MemoryInv, History, DocsInv, NamesInv, SegInfo
<1>3. /\ DOMAIN segs = DOMAIN sis.segs
      /\ \A n \in DOMAIN sis.segs :
            /\ segs[n].docs = sis.segs[n].docs
            /\ n \notin sr.dirty => segs[n].del_gen = sis.segs[n].del_gen /\ segs[n].dels = sis.segs[n].dels
            /\ n \in sr.dirty => segs[n].del_gen = sis.segs[n].del_gen + 1 /\ segs[n].dels = sr.deleted[n]
  BY <1>1, <1>2, ReaderSegsAre
<1>4. \A f \in DOMAIN new :
         /\ f.seg \in DOMAIN sis.segs /\ new[f] = Content(segs[f.seg], f)
         /\ \/ f.kind = "del" /\ f.seg \in sr.dirty /\ f.gen = segs[f.seg].del_gen
            \/ f.kind = "norm" /\ f.seg \in sr.norms
  BY <1>1, <1>2, ReaderFilesAre
<1> HIDE DEF segs, new, Q
<1>5. ASSUME NEW n \in DOMAIN segs
      PROVE  /\ segs[n].docs = sis.segs[n].docs /\ segs[n].dels \subseteq segs[n].docs
             /\ HasDeletions(segs[n]) \/ segs[n].dels = {}
             /\ segs[n].del_gen >= sis.segs[n].del_gen
  BY <1>2, <1>3 DEF Apart, HasDeletions
<1>6. NoneRead(new)
  BY <1>2, <1>3, <1>4 DEF NoneRead, NeverRead, Content
<1> QED BY <1>1, <1>3, <1>5, <1>6, MarkHistory

-----------------------------------------------------------------------------
(* The other steps *)

LEMMA QuietHistory ==
    ASSUME History, UNCHANGED <<role, sis, sr, buffer, committed>>, phase' \notin {"write", "torn"}
    PROVE  History'
BY DEF History, DocsInv, ChangeInv, NamesInv

LEMMA ForgetHistory ==
    ASSUME History, Forget, UNCHANGED committed
    PROVE  History'
<1>1. DOMAIN sis'.segs = {}
  <2>1. sis' = Sis(-1, 0, 0, NoSegs)
    BY DEF Forget, NoSis
  <2> QED BY <2>1, SisFields DEF NoSegs
<1>2. role' = "none" /\ phase' = "idle" /\ buffer' = {}
  BY DEF Forget
<1>3. Apart(sis'.segs)
  BY <1>1 DEF Apart
<1>4. DocsInv'
  BY <1>2, <1>3 DEF History, DocsInv
<1> QED BY <1>2, <1>4 DEF History, ChangeInv, NamesInv

LEMMA OpenHistory ==
    ASSUME Inv, History, OpenWriter \/ OpenReader
    PROVE  History'
<1>1. PICK g \in FoundGenerations :
         sis' = segments[g] /\ (role' = "reader" => sr' = CleanReader(segments[g].segs))
  BY DEF OpenWriter, OpenReader
<1>2. role = "none" /\ role' # "none" /\ UNCHANGED <<buffer, committed>> /\ phase' \in {phase, "purge"}
  BY DEF OpenWriter, OpenReader
<1>3. sis' = committed /\ phase = "idle"
  BY <1>1, <1>2, OpenReadsCommitted
<1>4. buffer = {} /\ Apart(committed.segs)
  BY <1>2 DEF History, DocsInv
<1>5. role' = "reader" => sr' = CleanReader(committed.segs)
  BY <1>1, <1>2, OpenReadsCommitted
<1>6. role' = "reader" => /\ sr'.undelete = {}
                          /\ sr'.deleted = [n \in DOMAIN committed.segs |-> committed.segs[n].dels]
  BY <1>5, ReaderFields DEF CleanReader
<1>7. DocsInv'
  <2>1. role' = "reader" => \A n \in DOMAIN sis'.segs : sr'.deleted[n] \subseteq sis'.segs[n].docs
    BY <1>3, <1>4, <1>6 DEF Apart
  <2> QED BY <1>2, <1>3, <1>4, <2>1 DEF DocsInv
<1> QED BY <1>2, <1>3, <1>6, <1>7 DEF History, ChangeInv, NamesInv

LEMMA AddDocHistory ==
    ASSUME History, NEW d \in Docs, AddDoc(d)
    PROVE  History'
<1>1. /\ role = "writer" /\ phase = "idle" /\ buffer' = buffer \cup {d} /\ d \notin AllDocs(sis.segs)
      /\ UNCHANGED <<role, phase, sis, sr, committed>>
  BY DEF AddDoc, Idle, AllDocs
<1>2. DocsInv'
  BY <1>1 DEF History, DocsInv
<1> QED BY <1>1, <1>2 DEF History, ChangeInv, NamesInv

LEMMA ChangeReaderHistory ==
    ASSUME History, NEW D, NEW u, NEW m, NEW n, ChangeReader(D, u, m, n), u = {},
           \A k \in DOMAIN sis.segs : D[k] \subseteq sis.segs[k].docs
    PROVE  History'
<1>1. /\ role = "reader" /\ phase = "idle" /\ sr' = Reader(D, u, m, n, "yes")
      /\ UNCHANGED <<role, phase, sis, buffer, committed>>
  BY DEF ChangeReader, Idle
<1>2. sr'.undelete = {} /\ sr'.deleted = D
  BY <1>1, ReaderFields
<1> QED BY <1>1, <1>2 DEF History, DocsInv, ChangeInv, NamesInv

LEMMA WriteFileHistory ==
    ASSUME History, WriteFile
    PROVE  History'
<1>1. PICK f \in DOMAIN todo : todo' = Without(todo, {f})
  BY DEF WriteFile
<1>2. phase = "write" /\ UNCHANGED <<role, phase, sis, sr, buffer, committed>>
  BY DEF WriteFile
<1>3. DOMAIN todo' \subseteq DOMAIN todo /\ \A x \in DOMAIN todo' : todo'[x] = todo[x]
  BY <1>1 DEF Without
<1>4. NoneRead(todo)'
  BY <1>2, <1>3 DEF History, NamesInv, NoneRead, NeverRead
<1>5. DocsInv' /\ ChangeInv'
  BY <1>2 DEF History, DocsInv, ChangeInv
<1> QED BY <1>2, <1>4, <1>5 DEF History, NamesInv

LEMMA BeginSegmentsHistory ==
    ASSUME History, BeginSegments
    PROVE  History'
<1>1. /\ phase = "write" /\ phase' = "torn" /\ UNCHANGED <<role, sr, buffer, committed>>
      /\ sis' = Sis(sis.generation + 1, sis.version + 1, sis.counter, sis.segs)
  BY DEF BeginSegments
<1>2. sis'.version = sis.version + 1 /\ sis'.counter = sis.counter /\ sis'.segs = sis.segs
  BY <1>1, SisFields
<1>3. DocsInv'
  BY <1>1, <1>2 DEF History, DocsInv
<1>4. ChangeInv'
  BY <1>1, <1>2 DEF History, ChangeInv
<1>5. Continues(committed, sis)'
  BY <1>1, <1>2 DEF History, NamesInv, Continues
<1> QED BY <1>1, <1>3, <1>4, <1>5 DEF History, NamesInv

LEMMA EndSegmentsHistory ==
    ASSUME History, EndSegments
    PROVE  History'
<1>1. phase' = "gen" /\ committed' = sis /\ UNCHANGED <<role, sis, sr, buffer>>
  BY DEF EndSegments, memory
<1> QED BY <1>1 DEF History, DocsInv, ChangeInv, NamesInv

LEMMA ReaderStepHistory ==
    ASSUME "undelete" \notin ReaderOps, Inv, History, ReaderStep
    PROVE  History'
<1>1. CASE OpenReader \/ CommitReader
  BY <1>1, OpenHistory, CommitReaderHistory
<1>2. CASE CloseReader
  BY <1>2, ForgetHistory DEF CloseReader
<1>3. role = "reader" => /\ sr.undelete = {} /\ ReaderTypeOK
                         /\ \A n \in DOMAIN sis.segs : sr.deleted[n] \subseteq sis.segs[n].docs
  BY DEF History, NamesInv, DocsInv, Inv, TypeOK
<1>4. ASSUME NEW n \in DOMAIN sis.segs, SetNorm(n) PROVE History'
  <2>1. role = "reader" /\ ChangeReader(sr.deleted, sr.undelete, sr.dirty, sr.norms \cup {n})
    BY <1>4 DEF SetNorm, ChangeReader, Idle
  <2> QED BY <1>3, <2>1, ChangeReaderHistory
<1>5. ASSUME NEW n \in DOMAIN sis.segs, NEW d \in Docs, DeleteDoc(n, d) PROVE History'
  <2> DEFINE D == Put(sr.deleted, n, sr.deleted[n] \cup {d})
  <2>1. /\ role = "reader" /\ d \in sis.segs[n].docs
        /\ ChangeReader(D, sr.undelete \ {n}, sr.dirty \cup {n}, sr.norms)
    BY <1>5 DEF DeleteDoc, ChangeReader, Idle
  <2>2. \A k \in DOMAIN sis.segs : D[k] \subseteq sis.segs[k].docs
    BY <1>3, <2>1 DEF Put, ReaderTypeOK
  <2> HIDE DEF D
  <2> QED BY <1>3, <2>1, <2>2, ChangeReaderHistory
<1> QED BY <1>1, <1>2, <1>4, <1>5 DEF ReaderStep, UndeleteAll

LEMMA WriterStepHistory ==
    ASSUME Inv, History, WriterStep
    PROVE  History'
<1>1. CASE OpenWriter \/ Flush
  BY <1>1, OpenHistory, FlushHistory
<1>2. CASE Optimize
  BY <1>2, QuietHistory DEF Optimize
<1>3. CASE CloseWriter
  BY <1>3, ForgetHistory DEF CloseWriter
<1> QED BY <1>1, <1>2, <1>3, AddDocHistory, DeleteTermHistory, AddReadersHistory DEF WriterStep

LEMMA CommitStepHistory ==
    ASSUME Inv, History, CommitStep
    PROVE  History'
<1>1. phase = "merge" => role = "writer"
  BY DEF Inv, RoleInv, TypeOK
<1>2. CASE MaybeMerge
  <2>1. phase = "merge" /\ role = "writer"
    BY <1>1, <1>2 DEF MaybeMerge
  <2>2. CASE MergeSegments(SmallSegments)
    BY <2>1, <2>2, MergeHistory DEF SmallSegments
  <2>3. CASE ~MergeSegments(SmallSegments)
    BY <1>2, <2>1, <2>3, QuietHistory DEF MaybeMerge, EndMerges
  <2> QED BY <2>2, <2>3
<1>3. CASE OptimizeStep
  <2>1. phase = "merge" /\ role = "writer"
    BY <1>1, <1>3 DEF OptimizeStep
  <2>2. CASE MergeSegments(LastSegments)
    BY <2>1, <2>2, MergeHistory DEF LastSegments
  <2>3. CASE EndMerges
    BY <2>1, <2>3, QuietHistory DEF EndMerges
  <2> QED BY <1>3, <2>2, <2>3 DEF OptimizeStep
<1>4. CASE WriteGen \/ PurgeFile \/ PurgeSegments \/ EndPurge
  BY <1>4, QuietHistory DEF WriteGen, PurgeFile, PurgeSegments, EndPurge, AfterCommit, memory
<1>5. CASE DropPrevious
  BY <1>5, QuietHistory DEF DropPrevious, AfterCommit, memory
<1>6. CASE DropCurrent
  BY <1>6, ForgetHistory DEF DropCurrent
<1> QED BY <1>2, <1>3, <1>4, <1>5, <1>6, WriteFileHistory, BeginSegmentsHistory,
           EndSegmentsHistory DEF CommitStep

LEMMA InitHistory == Init => History
<1> SUFFICES ASSUME Init PROVE History
  OBVIOUS
<1>1. DOMAIN committed.segs = {} /\ DOMAIN sis.segs = {}
  BY SisFields DEF Init, NoSis, NoSegs
<1>2. role = "none" /\ phase = "idle" /\ buffer = {}
  BY DEF Init
<1> QED BY <1>1, <1>2 DEF History, DocsInv, ChangeInv, NamesInv, Apart

LEMMA StepHistory ==
    ASSUME "undelete" \notin ReaderOps
    PROVE  Inv /\ History /\ [Next]_vars => History'
<1> SUFFICES ASSUME Inv, History, [Next]_vars PROVE History'
  OBVIOUS
<1>1. CASE Crash
  BY <1>1, ForgetHistory DEF Crash
<1>2. CASE UNCHANGED vars
  BY <1>2 DEF vars, memory, History, DocsInv, ChangeInv, NamesInv, NoneRead, NeverRead
<1> QED BY <1>1, <1>2, WriterStepHistory, ReaderStepHistory, CommitStepHistory DEF Next

-----------------------------------------------------------------------------
(* Every commit of frt_sis_write relates to the one before it: either it     *)
(* adds documents, or it leaves each in its segment, or it expunges deleted  *)
(* ones; and every file it wrote belongs to a new segment, is a .del file of *)
(* a new generation, or says what the file it replaces said.                 *)
THEOREM CommitHistory ==
    "torn" \notin CrashPhases /\ "undelete" \notin ReaderOps /\ Spec => []History
<1> SUFFICES ASSUME "torn" \notin CrashPhases, "undelete" \notin ReaderOps
             PROVE  Spec => []History
  OBVIOUS
<1>1. Inv /\ History /\ [Next]_vars => History'
  BY StepHistory
<1>2. Spec => []Inv
  BY CommitInvariant
<1> QED BY <1>1, <1>2, InitHistory, PTL DEF Spec

-----------------------------------------------------------------------------
(* No file is forgotten: whatever a writer finds, writes or gives up is in    *)
(* use, queued for deletion, or of the segment it is building.  The one       *)
(* exception are .del files: si_delete_files does not know their names.       *)
(* Crashes may come at any step here, also while segments_N is half written.  *)


(* new_segment never returns a name that is in use, whichever segments file  *)
(* is read next.                                                             *)
Named(s) == \A n \in DOMAIN s.segs : n < s.counter
CountersInv == Named(sis) /\ \A g \in DOMAIN segments : Named(segments[g])

(* Only .del and norms files have generations. *)
OneName(f) == f.kind \in {"core", "cfs"} => f.gen = 0
NamedFilesInv == \A f \in DOMAIN files \cup DOMAIN todo : OneName(f)

(* In use by segs, queued in q, or of the segment c being built. *)
Kept(f, segs, q, c) == f.kind = "del" \/ f \in SisFiles(segs) \/ f \in q \/ f = CoreFile(c)
KeptInv ==
    role = "writer" =>
        \A f \in DOMAIN files \cup DOMAIN todo : Kept(f, sis.segs, pending, sis.counter)

OrphansInv ==
    /\ CountersInv /\ NamedFilesInv /\ KeptInv
    /\ phase # "write" => DOMAIN todo = {}

-----------------------------------------------------------------------------
(* Lemmas *)

(* Every file of a segment that is not a .del file can be told by its name. *)
LEMMA InSegFiles ==
    ASSUME NEW n \in Nat, NEW si \in SegInfo, NEW f \in DataFile, f.seg = n, OneName(f),
           f.kind # "del",
           f.kind = "core" => ~IsCompound(si), f.kind = "cfs" => IsCompound(si),
           f.kind = "norm" => f.gen = si.norm_gen /\ (IsCompound(si) => f.gen > 0)
    PROVE  f \in SegFiles(n, si)
<1>1. f.kind \in {"core", "cfs", "norm"} /\ f.gen \in Nat
  BY DEF DataFile
<1>2. f = [kind |-> f.kind, seg |-> n, gen |-> f.gen]
  BY DEF DataFile
<1>3. CASE f.kind = "core"
  BY <1>2, <1>3 DEF SegFiles, CoreFile, OneName
<1>4. CASE f.kind = "cfs"
  BY <1>2, <1>4 DEF SegFiles, CfsFile, OneName
<1>5. CASE f.kind = "norm"
  <2>1. f \in NormFiles(n, si)
    BY <1>1, <1>2, <1>5 DEF NormFiles, NormFile
  <2>2. IsCompound(si) => HasSeparateNorms(si)
    BY <1>1, <1>5 DEF HasSeparateNorms
  <2> QED BY <2>1, <2>2 DEF SegFiles
<1> QED BY <1>1, <1>3, <1>4, <1>5

(* frt_deleter_find_deletable_files_i: what it leaves is in use. *)
LEMMA NotDeletableIsInUse ==
    ASSUME NEW segs, IsMap(segs, Nat, SegInfo), NEW f \in DataFile, OneName(f), f.kind # "del",
           ~IsDeletable(f, segs)
    PROVE  f \in SisFiles(segs)
<1>1. f.seg \in DOMAIN segs
  BY DEF IsDeletable
<1>2. f.seg \in Nat /\ segs[f.seg] \in SegInfo /\ f.gen \in Nat
  BY <1>1 DEF IsMap, DataFile
<1>3. /\ f.kind = "core" => ~IsCompound(segs[f.seg])
      /\ f.kind = "cfs"  => IsCompound(segs[f.seg])
      /\ f.kind = "norm" => f.gen = segs[f.seg].norm_gen /\ (IsCompound(segs[f.seg]) => f.gen > 0)
  BY <1>1, <1>2 DEF IsDeletable, IsCfsFile
<1>4. f \in SegFiles(f.seg, segs[f.seg])
  BY <1>2, <1>3, InSegFiles
<1> QED BY <1>1, <1>4, InSisFiles

(* si_delete_files: what it does not queue of a segment is a .del file. *)
LEMMA OnlyDelIsNotQueued ==
    ASSUME NEW n \in Nat, NEW si \in SegInfo, NEW f \in SegFiles(n, si), f.kind # "del"
    PROVE  f \in SiDeleteFiles(n, si)
<1>1. f \notin DelFiles(n, si)
  BY DelFilesAre
<1> QED BY <1>1 DEF SegFiles, SiDeleteFiles

(* iw_flush_ram_segment, iw_merge_segments, iw_cp_files: all files of a new  *)
(* segment are in use or queued.                                             *)
LEMMA NewSegmentKept ==
    ASSUME NEW n \in Nat, NEW D \in SUBSET Docs, NEW F \in {"plain", "compound"},
           NEW si, si = NewSegInfo(D, F)
    PROVE  \A f \in DOMAIN NewSegFiles(n, si) \cup {CoreFile(n)} :
              OneName(f) /\ (f \in SegFiles(n, si) \/ f \in CopiedFiles(n, si))
<1>1. si.del_gen = -1 /\ si.norm_gen = 0 /\ si.format = F /\ si \in SegInfo
  BY NewSegInfoType DEF NewSegInfo
<1>2. DOMAIN NewSegFiles(n, si) \cup {CoreFile(n)}
        = {CoreFile(n), NormFile(n, 0)} \cup (IF IsCompound(si) THEN {CfsFile(n)} ELSE {})
  BY DEF NewSegFiles
<1>3. OneName(CoreFile(n)) /\ OneName(CfsFile(n)) /\ OneName(NormFile(n, 0))
  BY DEF OneName, CoreFile, CfsFile, NormFile
<1>4. CASE IsCompound(si)
  BY <1>2, <1>3, <1>4 DEF CopiedFiles, SegFiles
<1>5. CASE ~IsCompound(si)
  BY <1>1, <1>2, <1>3, <1>5 DEF SegFiles, NormFiles
<1> QED BY <1>4, <1>5

-----------------------------------------------------------------------------
(* The operations *)

LEMMA StartCommitOrphans ==
    ASSUME OrphansInv, NEW segs, NEW c, NEW w, NEW q, NEW t, StartCommit(segs, c, w, q, t),
           \A n \in DOMAIN segs : n < c,
           \A f \in DOMAIN w : OneName(f),
           role = "writer" => \A f \in DOMAIN files \cup DOMAIN w : Kept(f, segs, pending \cup q, c)
    PROVE  OrphansInv'
<1>1. /\ sis' = Sis(sis.generation, sis.version, c, segs) /\ phase' = "write" /\ todo' = w
      /\ pending' = pending \cup q /\ role' = role /\ files' = files /\ segments' = segments
  BY DEF StartCommit, store
<1>2. sis'.counter = c /\ sis'.segs = segs
  BY <1>1, SisFields
<1>3. CountersInv'
  BY <1>1, <1>2 DEF OrphansInv, CountersInv, Named
<1>4. NamedFilesInv'
  BY <1>1 DEF OrphansInv, NamedFilesInv
<1>5. KeptInv'
  BY <1>1, <1>2 DEF KeptInv
<1> QED BY <1>1, <1>3, <1>4, <1>5 DEF OrphansInv

(* The segments W without those in old, and with a new segment k. *)
Rest(W, old) ==
    DOMAIN W = DOMAIN sis.segs \ old /\ \A n \in DOMAIN sis.segs \ old : W[n] = sis.segs[n]
Replaces(segs, old, k, si) ==
    /\ DOMAIN segs = (DOMAIN sis.segs \ old) \cup {k} /\ segs[k] = si
    /\ \A n \in DOMAIN sis.segs \ old : segs[n] = sis.segs[n]
Queued(old, q) == \A n \in old : SiDeleteFiles(n, sis.segs[n]) \subseteq q

(* A new segment k in the place of the segments in old, whose files are      *)
(* queued.                                                                   *)
LEMMA NewSegmentOrphans ==
    ASSUME TypeOK, OrphansInv, role = "writer", phase # "write",
           NEW old \in SUBSET DOMAIN sis.segs, NEW D \in SUBSET Docs,
           NEW F \in {"plain", "compound"}, NEW k, k = sis.counter,
           NEW si, si = NewSegInfo(D, F),
           NEW segs, Replaces(segs, old, k, si),
           NEW q, CopiedFiles(k, si) \subseteq q, Queued(old, q),
           NEW t, StartCommit(segs, k + 1, NewSegFiles(k, si), q, t)
    PROVE  OrphansInv'
<1> DEFINE w == NewSegFiles(k, si)
<1>1. /\ k \in Nat /\ IsMap(sis.segs, Nat, SegInfo) /\ Named(sis)
      /\ \A n \in DOMAIN sis.segs : n \in Nat /\ sis.segs[n] \in SegInfo
  BY SisTypes, SegsType DEF OrphansInv, CountersInv
<1>r. /\ DOMAIN segs = (DOMAIN sis.segs \ old) \cup {k} /\ segs[k] = si
      /\ \A n \in DOMAIN sis.segs \ old : segs[n] = sis.segs[n]
      /\ \A n \in old : SiDeleteFiles(n, sis.segs[n]) \subseteq q
  BY DEF Replaces, Queued
<1>2. \A f \in DOMAIN w \cup {CoreFile(k)} :
         OneName(f) /\ (f \in SegFiles(k, si) \/ f \in CopiedFiles(k, si))
  BY <1>1, NewSegmentKept
<1> HIDE DEF w
<1>3. \A f \in DOMAIN w \cup {CoreFile(k)} : Kept(f, segs, pending \cup q, k + 1)
  BY <1>r, <1>2, InSisFiles DEF Kept
<1>4. ASSUME NEW f \in DOMAIN files PROVE Kept(f, segs, pending \cup q, k + 1)
  <2>1. f.kind = "del" \/ f \in SisFiles(sis.segs) \/ f \in pending \/ f = CoreFile(k)
    BY DEF OrphansInv, KeptInv, Kept
  <2>2. CASE f \in SisFiles(sis.segs) /\ f.kind # "del"
    <3>1. f.seg \in DOMAIN sis.segs /\ f \in SegFiles(f.seg, sis.segs[f.seg])
      BY <1>1, <2>2, SisFilesAre
    <3>2. f \in SiDeleteFiles(f.seg, sis.segs[f.seg])
      BY <1>1, <2>2, <3>1, OnlyDelIsNotQueued
    <3>3. CASE f.seg \in old
      BY <1>r, <3>2, <3>3 DEF Kept
    <3>4. CASE f.seg \notin old
      <4>1. f.seg \in DOMAIN segs /\ f \in SegFiles(f.seg, segs[f.seg])
        BY <1>r, <3>1, <3>4
      <4> QED BY <4>1, InSisFiles DEF Kept
    <3> QED BY <3>3, <3>4
  <2> QED BY <1>3, <2>1, <2>2 DEF Kept
<1>5. \A n \in DOMAIN segs : n < k + 1
  BY <1>1, <1>r DEF Named
<1>6. StartCommit(segs, k + 1, w, q, t)
  BY DEF w
<1> QED BY <1>2, <1>3, <1>4, <1>5, <1>6, StartCommitOrphans

LEMMA PutSegment ==
    ASSUME TypeOK, OrphansInv, NEW segs, NEW si, NEW old \in SUBSET DOMAIN sis.segs,
           NEW W, Rest(W, old), NEW k, k = sis.counter, segs = Put(W, k, si)
    PROVE  Replaces(segs, old, k, si)
<1>1. \A m \in DOMAIN sis.segs : m # k
  BY SegsType, SisTypes DEF OrphansInv, CountersInv, Named
<1>2. /\ DOMAIN segs = DOMAIN W \cup {k} /\ segs[k] = si
      /\ \A m \in DOMAIN W : m # k => segs[m] = W[m]
  BY DEF Put
<1> QED BY <1>1, <1>2 DEF Rest, Replaces

LEMMA FlushOrphans ==
    ASSUME TypeOK, OrphansInv, Flush
    PROVE  OrphansInv'
<1> DEFINE n == sis.counter
           si == NewSegInfo(buffer, Format)
           segs == Put(sis.segs, n, si)
           q == CopiedFiles(n, si)
           none == {}
           W == sis.segs
<1>1. /\ buffer \in SUBSET Docs /\ Format \in {"plain", "compound"}
      /\ role = "writer" /\ phase # "write"
      /\ StartCommit(segs, n + 1, NewSegFiles(n, si), q, "purge")
  BY CommitConstants DEF TypeOK, Flush, Idle
<1>2. /\ none \in SUBSET DOMAIN sis.segs /\ Rest(W, none) /\ Queued(none, q)
      /\ CopiedFiles(n, si) \subseteq q
      /\ n = sis.counter /\ si = NewSegInfo(buffer, Format) /\ segs = Put(W, n, si)
  BY DEF Rest, Queued
<1> HIDE DEF n, si, segs, q, none, W
<1>3. Replaces(segs, none, n, si)
  BY <1>2, PutSegment
<1> QED BY <1>1, <1>2, <1>3, NewSegmentOrphans

LEMMA AddReadersOrphans ==
    ASSUME TypeOK, OrphansInv, NEW D \in SUBSET Docs, AddReaders(D)
    PROVE  OrphansInv'
<1> DEFINE n == sis.counter
           F == "plain"
           si == NewSegInfo(D, F)
           segs == Put(sis.segs, n, si)
           none == {}
           W == sis.segs
<1>1. /\ role = "writer" /\ phase # "write" /\ F \in {"plain", "compound"}
      /\ StartCommit(segs, n + 1, NewSegFiles(n, si), none, "return")
  BY DEF AddReaders, Idle
<1>2. /\ none \in SUBSET DOMAIN sis.segs /\ Rest(W, none) /\ Queued(none, none)
      /\ n = sis.counter /\ si = NewSegInfo(D, F) /\ segs = Put(W, n, si)
  BY DEF Rest, Queued
<1>3. CopiedFiles(n, si) \subseteq none
  BY DEF CopiedFiles, IsCompound, NewSegInfo
<1> HIDE DEF n, si, segs, none, W, F
<1>4. Replaces(segs, none, n, si)
  BY <1>2, PutSegment
<1> QED BY <1>1, <1>2, <1>3, <1>4, NewSegmentOrphans

LEMMA MergeSegmentsOrphans ==
    ASSUME TypeOK, OrphansInv, role = "writer", phase = "merge",
           NEW S \in SUBSET DOMAIN sis.segs, MergeSegments(S)
    PROVE  OrphansInv'
<1> DEFINE n == sis.counter
           D == UNION {sis.segs[m].docs \ sis.segs[m].dels : m \in S}
           si == NewSegInfo(D, Format)
           W == Without(sis.segs, S)
           segs == Put(W, n, si)
           q == CopiedFiles(n, si) \cup UNION {SiDeleteFiles(m, sis.segs[m]) : m \in S}
<1>1. /\ D \in SUBSET Docs /\ Format \in {"plain", "compound"} /\ phase # "write"
      /\ StartCommit(segs, n + 1, NewSegFiles(n, si), q, "purge")
  BY DocsOfSegs, CommitConstants DEF MergeSegments
<1>2. Rest(W, S)
  BY WithoutValues DEF Rest
<1>3. /\ Queued(S, q)
      /\ CopiedFiles(n, si) \subseteq q
      /\ n = sis.counter /\ si = NewSegInfo(D, Format) /\ segs = Put(W, n, si)
  BY DEF Queued
<1> HIDE DEF n, D, si, W, segs, q
<1>4. Replaces(segs, S, n, si)
  BY <1>2, <1>3, PutSegment
<1> QED BY <1>1, <1>3, <1>4, NewSegmentOrphans

LEMMA DeleteTermOrphans ==
    ASSUME TypeOK, OrphansInv, NEW D \in SUBSET Docs, DeleteTerm(D)
    PROVE  OrphansInv'
<1> DEFINE hit == {n \in DOMAIN sis.segs : D \cap (sis.segs[n].docs \ sis.segs[n].dels) # {}}
           deleted == [n \in DOMAIN sis.segs |-> sis.segs[n].dels \cup (D \cap sis.segs[n].docs)]
           segs == WithDeletions(sis.segs, hit, deleted)
           new == NewDelFiles(sis.segs, hit, deleted)
           q == UNION {DelFiles(n, sis.segs[n]) : n \in hit}
<1>1. /\ StartCommit(segs, sis.counter, new, q, "return") /\ role = "writer"
  BY DEF DeleteTerm, Idle
<1>2. /\ IsMap(sis.segs, Nat, SegInfo) /\ Named(sis)
      /\ \A n \in DOMAIN sis.segs : n \in Nat /\ sis.segs[n] \in SegInfo
  BY SisTypes, SegsType DEF OrphansInv, CountersInv
<1>3. (\A n \in hit : deleted[n] \subseteq Docs) /\ hit \in SUBSET DOMAIN sis.segs
  BY <1>2 DEF SegInfo
<1> HIDE DEF hit, deleted
<1>4. Deleted(sis.segs, hit, deleted, segs, new)
  BY <1>2, <1>3, DeletedSegs
<1> HIDE DEF segs, new, q
<1>5. /\ DOMAIN segs = DOMAIN sis.segs
      /\ \A n \in DOMAIN sis.segs : segs[n] \in SegInfo /\ segs[n].norm_gen = sis.segs[n].norm_gen
                                    /\ segs[n].format = sis.segs[n].format
      /\ \A f \in DOMAIN new : f.kind = "del"
  BY <1>3, <1>4 DEF Deleted, IsMap
<1>6. ASSUME NEW f \in DOMAIN files PROVE Kept(f, segs, pending \cup q, sis.counter)
  <2>1. f.kind = "del" \/ f \in SisFiles(sis.segs) \/ f \in pending \/ f = CoreFile(sis.counter)
    BY <1>1 DEF OrphansInv, KeptInv, Kept
  <2>2. CASE f \in SisFiles(sis.segs) /\ f.kind # "del"
    <3>1. f.seg \in DOMAIN sis.segs /\ f \in SegFiles(f.seg, sis.segs[f.seg])
      BY <1>2, <2>2, SisFilesAre
    <3>2. /\ f.kind = "core" => ~IsCompound(sis.segs[f.seg])
          /\ f.kind = "cfs"  => IsCompound(sis.segs[f.seg])
          /\ f.kind = "norm" => /\ f.gen = sis.segs[f.seg].norm_gen
                                /\ IsCompound(sis.segs[f.seg]) => f.gen > 0
          /\ f \in DataFile
      BY <1>2, <3>1, SegFilesAre
    <3>3. f.seg \in Nat /\ segs[f.seg] \in SegInfo /\ OneName(f)
      BY <1>2, <1>5, <3>1 DEF OrphansInv, NamedFilesInv
    <3>4. /\ IsCompound(segs[f.seg]) <=> IsCompound(sis.segs[f.seg])
          /\ segs[f.seg].norm_gen = sis.segs[f.seg].norm_gen
      BY <1>5, <3>1 DEF IsCompound
    <3>5. f \in SegFiles(f.seg, segs[f.seg])
      BY <2>2, <3>2, <3>3, <3>4, InSegFiles
    <3> QED BY <1>5, <3>1, <3>5, InSisFiles DEF Kept
  <2> QED BY <2>1, <2>2 DEF Kept
<1>7. \A f \in DOMAIN new : OneName(f) /\ Kept(f, segs, pending \cup q, sis.counter)
  BY <1>5 DEF OneName, Kept
<1>8. \A n \in DOMAIN segs : n < sis.counter
  BY <1>2, <1>5 DEF Named
<1> QED BY <1>1, <1>6, <1>7, <1>8, StartCommitOrphans

LEMMA CommitReaderOrphans ==
    ASSUME TypeOK, OrphansInv, CommitReader
    PROVE  OrphansInv'
<1> DEFINE q == (UNION {DelFiles(n, sis.segs[n]) : n \in sr.undelete \cup sr.dirty})
                  \cup (UNION {NormFiles(n, sis.segs[n]) : n \in sr.norms})
           w == ReaderFiles(ReaderSegs)
<1>1. StartCommit(ReaderSegs, sis.counter, w, q, "return") /\ role = "reader"
  BY DEF CommitReader, Idle
<1>2. \A f \in DOMAIN w : f.kind \in {"del", "norm"}
  BY <1>1, ReaderFilesAre
<1>3. DOMAIN ReaderSegs = DOMAIN sis.segs
  BY <1>1, ReaderSegsAre
<1> HIDE DEF w, q
<1>4. \A f \in DOMAIN w : OneName(f)
  BY <1>2 DEF OneName
<1>5. \A n \in DOMAIN ReaderSegs : n < sis.counter
  BY <1>3 DEF OrphansInv, CountersInv, Named
<1> QED BY <1>1, <1>4, <1>5, StartCommitOrphans

LEMMA OpenWriterOrphans ==
    ASSUME TypeOK, RoleInv, OrphansInv, OpenWriter
    PROVE  OrphansInv'
<1>1. PICK g \in FoundGenerations :
         /\ sis' = segments[g]
         /\ pending' = {f \in DOMAIN files : IsDeletable(f, segments[g].segs)}
  BY DEF OpenWriter
<1>2. /\ g \in DOMAIN segments /\ role = "none" /\ role' = "writer" /\ phase' = "purge"
      /\ files' = files /\ segments' = segments /\ todo' = todo
  BY <1>1 DEF FoundGenerations, Readable, OpenWriter, store
<1>3. DOMAIN todo = {}
  BY <1>2 DEF RoleInv, OrphansInv
<1>4. IsMap(segments[g].segs, Nat, SegInfo)
  BY <1>2 DEF TypeOK, StoreTypeOK, IsSis
<1>5. ASSUME NEW f \in DOMAIN files PROVE Kept(f, sis'.segs, pending', sis'.counter)
  <2>1. f \in DataFile /\ OneName(f)
    BY DEF TypeOK, StoreTypeOK, IsMap, OrphansInv, NamedFilesInv
  <2> QED BY <1>1, <1>4, <2>1, NotDeletableIsInUse DEF Kept
<1>6. CountersInv' /\ NamedFilesInv'
  BY <1>1, <1>2 DEF OrphansInv, CountersInv, Named, NamedFilesInv
<1>7. KeptInv'
  BY <1>2, <1>3, <1>5 DEF KeptInv
<1> QED BY <1>2, <1>3, <1>6, <1>7 DEF OrphansInv

(* The store loses files or none, and the process keeps its segment infos    *)
(* or forgets everything.                                                    *)
LEMMA ForgetOrphans ==
    ASSUME OrphansInv, Forget, files' = files, DOMAIN segments' \subseteq DOMAIN segments,
           \A g \in DOMAIN segments' : segments'[g] = segments[g]
    PROVE  OrphansInv'
<1>1. role' = "none" /\ phase' = "idle" /\ DOMAIN todo' = {} /\ DOMAIN sis'.segs = {}
  BY SisFields DEF Forget, NoFiles, NoSis, NoSegs
<1> QED BY <1>1 DEF OrphansInv, CountersInv, Named, NamedFilesInv, KeptInv

LEMMA SameOrphans ==
    ASSUME OrphansInv, UNCHANGED <<files, role, sis, pending, todo>>,
           phase = "write" => phase' = "write" \/ DOMAIN todo = {},
           DOMAIN segments' \subseteq DOMAIN segments,
           \A g \in DOMAIN segments' : segments'[g] = segments[g]
    PROVE  OrphansInv'
BY DEF OrphansInv, CountersInv, Named, NamedFilesInv, KeptInv

LEMMA AddDocOrphans ==
    ASSUME TypeOK, OrphansInv, NEW d, AddDoc(d)
    PROVE  OrphansInv'
<1>1. /\ DOMAIN files' = DOMAIN files \cup {CoreFile(sis.counter)}
      /\ UNCHANGED <<segments, role, phase, sis, pending, todo>>
  BY DEF AddDoc, Put
<1>2. OneName(CoreFile(sis.counter))
  BY DEF OneName, CoreFile
<1>3. \A f \in DOMAIN files' \cup DOMAIN todo' :
         OneName(f) /\ (role' = "writer" => Kept(f, sis'.segs, pending', sis'.counter))
  BY <1>1, <1>2 DEF OrphansInv, NamedFilesInv, KeptInv, Kept
<1> QED BY <1>1, <1>3 DEF OrphansInv, CountersInv, Named, NamedFilesInv, KeptInv

LEMMA WriteFileOrphans ==
    ASSUME OrphansInv, WriteFile
    PROVE  OrphansInv'
<1>1. PICK f \in DOMAIN todo : files' = Put(files, f, todo[f]) /\ todo' = Without(todo, {f})
  BY DEF WriteFile
<1>2. DOMAIN files' \cup DOMAIN todo' = DOMAIN files \cup DOMAIN todo
  BY <1>1 DEF Put, Without
<1>3. UNCHANGED <<segments, role, phase, sis, pending>> /\ phase = "write"
  BY DEF WriteFile
<1> QED BY <1>2, <1>3 DEF OrphansInv, CountersInv, Named, NamedFilesInv, KeptInv

LEMMA BeginSegmentsOrphans ==
    ASSUME OrphansInv, BeginSegments
    PROVE  OrphansInv'
<1> DEFINE new == Sis(sis.generation + 1, sis.version + 1, sis.counter, sis.segs)
<1>1. /\ sis' = new /\ segments' = Put(segments, new.generation, new) /\ phase' = "torn"
      /\ DOMAIN todo = {} /\ UNCHANGED <<files, role, pending, todo>>
  BY DEF BeginSegments
<1>2. new.counter = sis.counter /\ new.segs = sis.segs
  BY SisFields
<1> HIDE DEF new
<1>3. /\ DOMAIN segments' = DOMAIN segments \cup {new.generation}
      /\ \A g \in DOMAIN segments' : segments'[g] = new \/ (g \in DOMAIN segments /\ segments'[g] = segments[g])
  BY <1>1 DEF Put
<1>4. Named(new)
  BY <1>2 DEF OrphansInv, CountersInv, Named
<1>5. CountersInv'
  BY <1>1, <1>3, <1>4 DEF OrphansInv, CountersInv, Named
<1>6. NamedFilesInv' /\ KeptInv'
  BY <1>1, <1>2 DEF OrphansInv, NamedFilesInv, KeptInv
<1> QED BY <1>1, <1>5, <1>6 DEF OrphansInv

LEMMA PurgeFileOrphans ==
    ASSUME OrphansInv, PurgeFile
    PROVE  OrphansInv'
<1>1. PICK f \in pending : files' = Without(files, {f}) /\ pending' = pending \ {f}
  BY DEF PurgeFile
<1>2. DOMAIN files' = DOMAIN files \ {f} /\ DOMAIN todo = {}
  BY <1>1 DEF Without, PurgeFile, OrphansInv
<1>3. UNCHANGED <<segments, role, phase, sis, todo>>
  BY DEF PurgeFile
<1>4. KeptInv'
  BY <1>1, <1>2, <1>3 DEF OrphansInv, KeptInv, Kept
<1> QED BY <1>2, <1>3, <1>4 DEF OrphansInv, CountersInv, Named, NamedFilesInv

(* One step per action. *)
LEMMA StepOrphans == TypeOK /\ RoleInv /\ OrphansInv /\ [Next]_vars => OrphansInv'
<1> SUFFICES ASSUME TypeOK, RoleInv, OrphansInv, [Next]_vars PROVE OrphansInv'
  OBVIOUS
<1>1. CASE WriterStep
  <2>1. CASE Optimize
    BY <2>1, SameOrphans DEF Optimize, Idle, store
  <2>2. CASE CloseWriter
    BY <2>2, ForgetOrphans DEF CloseWriter, store
  <2> QED BY <1>1, <2>1, <2>2, OpenWriterOrphans, FlushOrphans, AddDocOrphans, DeleteTermOrphans,
             AddReadersOrphans DEF WriterStep
<1>2. CASE ReaderStep
  <2>1. CASE OpenReader
    <3>1. PICK g \in FoundGenerations : sis' = segments[g]
      BY <2>1 DEF OpenReader
    <3>2. g \in DOMAIN segments /\ role' = "reader" /\ UNCHANGED <<files, segments, todo, phase>>
      BY <2>1, <3>1 DEF FoundGenerations, Readable, OpenReader, store
    <3> QED BY <3>1, <3>2 DEF OrphansInv, CountersInv, Named, NamedFilesInv, KeptInv
  <2>2. CASE CloseReader
    BY <2>2, ForgetOrphans DEF CloseReader, store
  <2>3. CASE UndeleteAll \/ \E n \in DOMAIN sis.segs : SetNorm(n) \/ \E d \in Docs : DeleteDoc(n, d)
    <3>1. UNCHANGED <<files, segments, role, phase, sis, pending, todo>>
      BY <2>3 DEF UndeleteAll, SetNorm, DeleteDoc, ChangeReader, store
    <3> QED BY <3>1, SameOrphans
  <2> QED BY <1>2, <2>1, <2>2, <2>3, CommitReaderOrphans DEF ReaderStep
<1>3. CASE CommitStep
  <2>1. CASE MaybeMerge \/ OptimizeStep
    <3>1. phase = "merge" /\ role = "writer"
      BY <2>1 DEF MaybeMerge, OptimizeStep, RoleInv, TypeOK
    <3>2. CASE \E S \in {SmallSegments, LastSegments} : MergeSegments(S)
      <4>1. PICK S \in {SmallSegments, LastSegments} : MergeSegments(S)
        BY <3>2
      <4>2. S \in SUBSET DOMAIN sis.segs
        BY DEF SmallSegments, LastSegments
      <4> QED BY <3>1, <4>1, <4>2, MergeSegmentsOrphans
    <3>3. CASE UNCHANGED <<files, segments, role, sis, pending, todo>>
      BY <3>1, <3>3, SameOrphans
    <3> QED BY <2>1, <3>2, <3>3 DEF MaybeMerge, OptimizeStep, EndMerges, store
  <2>2. CASE EndSegments \/ WriteGen \/ EndPurge
    <3>1. UNCHANGED <<files, segments, role, sis, pending, todo>> /\ phase # "write"
      BY <2>2 DEF EndSegments, WriteGen, EndPurge, store, memory
    <3> QED BY <3>1, SameOrphans
  <2>3. \A K : DOMAIN Without(segments, K) \subseteq DOMAIN segments
               /\ \A g \in DOMAIN Without(segments, K) : Without(segments, K)[g] = segments[g]
    BY DEF Without
  <2>4. CASE DropPrevious
    <3>1. UNCHANGED <<files, role, sis, pending, todo>> /\ phase # "write"
      BY <2>4 DEF DropPrevious, memory
    <3> QED BY <2>3, <2>4, <3>1, SameOrphans DEF DropPrevious
  <2>5. CASE DropCurrent
    BY <2>3, <2>5, ForgetOrphans DEF DropCurrent
  <2>6. CASE PurgeSegments
    <3>1. PICK g \in old_segs : segments' = Without(segments, {g})
      BY <2>6 DEF PurgeSegments
    <3> QED BY <2>3, <2>6, <3>1, SameOrphans DEF PurgeSegments
  <2> QED BY <1>3, <2>1, <2>2, <2>4, <2>5, <2>6, WriteFileOrphans, BeginSegmentsOrphans,
             PurgeFileOrphans DEF CommitStep
<1>4. CASE Crash
  BY <1>4, ForgetOrphans DEF Crash, store
<1>5. CASE UNCHANGED vars
  BY <1>5, SameOrphans DEF vars, store, memory
<1> QED BY <1>1, <1>2, <1>3, <1>4, <1>5 DEF Next

LEMMA InitOrphans == Init => OrphansInv
<1> SUFFICES ASSUME Init PROVE OrphansInv
  OBVIOUS
<1>1. /\ DOMAIN files = {} /\ DOMAIN todo = {} /\ role = "none" /\ DOMAIN sis.segs = {}
      /\ \A g \in DOMAIN segments : DOMAIN segments[g].segs = {}
  BY SisFields DEF Init, NoFiles, NoSis, NoSegs
<1> QED BY <1>1 DEF OrphansInv, CountersInv, Named, NamedFilesInv, KeptInv

(* Whatever crashes there were, the files no commit needs and no deleter has *)
(* queued while a writer is between two operations are .del files: what      *)
(* frt_deleter_find_deletable_files_i, si_delete_files, frt_cw_close and     *)
(* iw_merge_segments queue together is everything else.                      *)
THEOREM OrphansAreDels == Spec => []OnlyDelOrphans
<1>1. OrphansInv => OnlyDelOrphans
  <2> SUFFICES ASSUME OrphansInv, Idle("writer"), NEW f \in Orphans PROVE f.kind = "del"
    BY DEF OnlyDelOrphans
  <2> QED BY DEF Orphans, Idle, OrphansInv, KeptInv, Kept
<1>2. Init => RoleInv
  BY DEF Init, RoleInv
<1> QED BY <1>1, <1>2, InitType, StepType, RoleStep, InitOrphans, StepOrphans, PTL DEF Spec

=============================================================================
