------------------------------ MODULE IndexOpen ------------------------------
(* Readers in other processes opening an index while IndexCommit changes it: *)
(* sis_find_segments_file with its three ways to find the current generation *)
(* and its retries, around ir_open_i, which reads segments_N and then opens  *)
(* the files of every segment one after the other.                           *)
EXTENDS IndexCommit

CONSTANTS
    Readers,         \* the processes that open the index
    LookAhead        \* GEN_LOOK_AHEAD_COUNT

ASSUME OpenConstants == LookAhead \in Nat

VARIABLES
    rd,              \* per reader: its state in sis_find_segments_file
    commits          \* history: the live documents of every commit, by version

openVars == <<vars, rd, commits>>

-----------------------------------------------------------------------------
(* A reader: pc; the local variables of sis_find_segments_file; the          *)
(* generation run() is called for; the SegmentInfos it has read, the files   *)
(* it has still to open and what it found in the others.  since and docs are *)
(* history: the last version when it began, the live documents it has read.  *)
ClosedReader ==
    [pc |-> "closed", gen |-> 0, last_gen |-> -1, retry |-> FALSE, method |-> 0, ahead |-> 0,
     run |-> -1, sis |-> NoSis, toOpen |-> {}, loaded |-> NoFiles, since |-> 0, docs |-> {}]

Set(r, new) == rd' = [rd EXCEPT ![r] = new] /\ UNCHANGED <<vars, commits>>

(* frt_ir_open *)
Open(r) ==
    /\ rd[r].pc \in {"closed", "open", "failed"}
    /\ Set(r, [ClosedReader EXCEPT !.pc = "find", !.since = committed.version])

(* The head of the loop.  Method 1 lists the directory, method 2 believes    *)
(* segments.gen, method 3 looks ahead; each is used when the one before gave *)
(* the generation that has just failed twice.                                *)
MethodOne_File(l) ==      \* mutant: segments.gen is believed from the start
    IF l.method = 0 THEN [l EXCEPT !.gen = segments_gen] ELSE l
MethodOne(l)   == IF l.method = 0 THEN [l EXCEPT !.gen = CurrentGeneration] ELSE l
MethodTwo_Any(l) ==       \* mutant: segments.gen is believed even if it is behind
    IF l.method = 1 \/ (l.method = 0 /\ l.last_gen = l.gen /\ l.retry)
      THEN [l EXCEPT !.method = 1, !.gen = segments_gen]
      ELSE l
MethodTwo(l)   ==
    IF l.method = 1 \/ (l.method = 0 /\ l.last_gen = l.gen /\ l.retry)
      THEN [l EXCEPT !.method = 1, !.gen = IF segments_gen > @ THEN segments_gen ELSE @]
      ELSE l
MethodThree_NoLimit(l) == \* mutant: looks ahead without end
    IF l.method = 2 \/ (l.method = 1 /\ l.last_gen = l.gen /\ l.retry)
      THEN [l EXCEPT !.method = 2, !.gen = @ + 1, !.ahead = @ + 1]
      ELSE l
MethodThree(l) ==
    IF l.method = 2 \/ (l.method = 1 /\ l.last_gen = l.gen /\ l.retry)
      THEN IF l.ahead < LookAhead
             THEN [l EXCEPT !.method = 2, !.gen = @ + 1, !.ahead = @ + 1]
             ELSE [l EXCEPT !.method = 2]
      ELSE l

(* The directory is listed ... *)
Find(r) ==
    /\ rd[r].pc = "find"
    /\ IF rd[r].method = 0 /\ DOMAIN segments = {}
         THEN Set(r, [rd[r] EXCEPT !.pc = "failed"])
         ELSE Set(r, [MethodOne(rd[r]) EXCEPT !.pc = "found"])

(* Mutant: a generation that has failed twice is tried again. *)
Decide_TryAgain(r) ==
    /\ rd[r].pc = "found"
    /\ LET l == MethodThree(MethodTwo(rd[r]))
       IN Set(r, [l EXCEPT !.pc = "read", !.retry = (l.last_gen = l.gen),
                           !.last_gen = l.gen, !.run = l.gen])

(* ... and later, after commits perhaps, segments.gen is read if need be.    *)
(* The generation is tried unless it has just been tried twice.              *)
Decide(r) ==
    /\ rd[r].pc = "found"
    /\ LET l == MethodThree(MethodTwo(rd[r]))
       IN IF l.last_gen = l.gen /\ l.retry
            THEN Set(r, [l EXCEPT !.pc = "failed"])
            ELSE Set(r, [l EXCEPT !.pc = "read", !.retry = (l.last_gen = l.gen),
                                  !.last_gen = l.gen, !.run = l.gen])

(* ir_open_i, frt_sis_read_i: the segments file. *)
ReadSegments(r) ==
    /\ rd[r].pc = "read"
    /\ IF Readable(rd[r].run)
         THEN LET s == segments[rd[r].run]
              IN Set(r, [rd[r] EXCEPT !.pc = "load", !.sis = s, !.toOpen = SisFiles(s.segs)])
         ELSE Set(r, [rd[r] EXCEPT !.pc = "caught"])

(* Mutant: a .del file that has gone is taken for no deletions. *)
LoadFile_SkipMissing(r) ==
    /\ rd[r].pc = "load"
    /\ \E f \in rd[r].toOpen :
         IF f \in DOMAIN files \/ f.kind = "del"
           THEN Set(r, [rd[r] EXCEPT !.toOpen = @ \ {f},
                           !.loaded = Put(@, f, IF f \in DOMAIN files THEN files[f] ELSE {})])
           ELSE Set(r, [rd[r] EXCEPT !.pc = "caught", !.sis = NoSis, !.toOpen = {},
                                     !.loaded = NoFiles])

(* ir_open_i, sr_open: one file of a segment. *)
LoadFile(r) ==
    /\ rd[r].pc = "load"
    /\ \E f \in rd[r].toOpen :
         IF f \in DOMAIN files
           THEN Set(r, [rd[r] EXCEPT !.toOpen = @ \ {f}, !.loaded = Put(@, f, files[f])])
           ELSE Set(r, [rd[r] EXCEPT !.pc = "caught", !.sis = NoSis, !.toOpen = {},
                                     !.loaded = NoFiles])

(* The documents a reader sees: what the files say, not what they should. *)
LoadedDocs(l) ==
    UNION {LET si == l.sis.segs[n]
               docs == l.loaded[IF IsCompound(si) THEN CfsFile(n) ELSE CoreFile(n)]
           IN IF HasDeletions(si) THEN docs \ l.loaded[DelFile(n, si.del_gen)] ELSE docs
           : n \in DOMAIN l.sis.segs}

EndLoad(r) ==
    /\ rd[r].pc = "load" /\ rd[r].toOpen = {}
    /\ Set(r, [ClosedReader EXCEPT !.pc = "open", !.sis = rd[r].sis, !.since = rd[r].since,
                                   !.docs = LoadedDocs(rd[r])])

(* run() raised an IO error: on the first attempt at segments_N (N > 1) try  *)
(* segments_(N-1) if it exists, else go round the loop.                      *)
Fallback(r) ==
    /\ rd[r].pc = "caught"
    /\ LET l == rd[r]
       IN IF l.run = l.gen /\ ~l.retry /\ l.gen > 1 /\ (l.gen - 1) \in DOMAIN segments
            THEN Set(r, [l EXCEPT !.pc = "read", !.run = l.gen - 1])
            ELSE Set(r, [l EXCEPT !.pc = "find"])

(* frt_ir_close *)
Close(r) ==
    /\ rd[r].pc \in {"open", "failed"}
    /\ Set(r, ClosedReader)

-----------------------------------------------------------------------------
OpenInit ==
    /\ Init
    /\ rd = [r \in Readers |-> ClosedReader]
    /\ commits = [v \in {committed.version} |-> {}]

Commits ==
    /\ Next
    /\ commits' = Put(commits, committed'.version, LiveDocs(committed'.segs))
    /\ UNCHANGED rd

OpeningStep(r) ==
    \/ Open(r) \/ Find(r) \/ Decide(r) \/ ReadSegments(r) \/ LoadFile(r) \/ EndLoad(r)
    \/ Fallback(r) \/ Close(r)

OpenNext == Commits \/ \E r \in Readers : OpeningStep(r)

(* A reader keeps running until it has opened the index or given up.  The    *)
(* process that changes the index may stop at any point.                     *)
Opening(r) ==
    Find(r) \/ Decide(r) \/ ReadSegments(r) \/ LoadFile(r) \/ EndLoad(r) \/ Fallback(r)

OpenSpec == OpenInit /\ [][OpenNext]_openVars
FairOpenSpec == OpenSpec /\ \A r \in Readers : WF_openVars(Opening(r))

-----------------------------------------------------------------------------
(* Properties *)

(* Type invariant of the readers. *)
OpenTypeOK ==
    \A r \in Readers :
        /\ rd[r].pc \in {"closed", "find", "found", "read", "load", "caught", "open", "failed"}
        /\ rd[r].gen \in Nat /\ rd[r].last_gen \in Nat \cup {-1} /\ rd[r].run \in Nat \cup {-1}
        /\ rd[r].method \in 0 .. 2 /\ rd[r].ahead \in 0 .. LookAhead
        /\ rd[r].toOpen \subseteq DataFile /\ rd[r].docs \subseteq Docs

(* The index implements IndexSnapshots: every commit is atomic, and a reader *)
(* that opens the index while it changes ends up on exactly one commit       *)
(* (ir_open_i under sis_find_segments_file against frt_sis_write and the     *)
(* deleter).                                                                 *)
ReaderView(r) ==
    IF rd[r].pc = "open"
      THEN [state |-> "open", version |-> rd[r].sis.version, docs |-> rd[r].docs]
      ELSE [state |-> "closed", version |-> 0, docs |-> {}]

Snapshots ==
    INSTANCE IndexSnapshots
        WITH live    <- LiveDocs(committed.segs),
             removed <- UNION {committed.segs[n].dels : n \in DOMAIN committed.segs},
             version <- committed.version,
             commits <- commits,
             view    <- [r \in Readers |-> ReaderView(r)]

ImplementsSnapshots == Snapshots!Spec

(* A reader never opens a commit older than the last one when it began: the  *)
(* retries of sis_find_segments_file only move forward.                      *)
OpenIsFresh ==
    \A r \in Readers : rd[r].pc = "open" => rd[r].sis.version >= rd[r].since

(* Forward progress, which sis_find_segments_file asks of its loop: a turn   *)
(* of the loop tries a higher generation than the turn before, or the same   *)
(* one for the second and last time, however many commits have been made     *)
(* since the directory was listed.                                           *)
ForwardProgress ==
    [][\A r \in Readers : rd[r].pc = "found" /\ rd'[r].pc = "read" =>
          \/ rd'[r].gen > rd[r].last_gen
          \/ rd'[r].gen = rd[r].last_gen /\ ~rd[r].retry /\ rd'[r].retry]_openVars

(* A call of frt_ir_open comes to an end once the index is no longer         *)
(* committed to.  The premise is needed: a writer that commits again during  *)
(* every attempt moves the generation, which resets retry, and so keeps the  *)
(* loop of sis_find_segments_file running.                                   *)
OpenTerminates ==
    <>[][UNCHANGED segments]_openVars =>
        \A r \in Readers : rd[r].pc = "find" ~> rd[r].pc \in {"open", "failed"}
=============================================================================
