--------------------------- MODULE IndexSnapshots ---------------------------
(* What an index promises: a sequence of commits, each an atomic change of   *)
(* the set of live documents, and readers that see exactly one commit.       *)
EXTENDS Integers

CONSTANTS Docs, Readers

VARIABLES
    live,      \* the documents of the last commit
    removed,   \* deleted documents that a merge has not yet expunged
    version,   \* the version of the last commit
    commits,   \* the documents of every commit so far, by version
    view       \* per reader: closed, or open on a commit

Closed       == [state |-> "closed", version |-> 0, docs |-> {}]
Opened(v, D) == [state |-> "open", version |-> v, docs |-> D]

Init ==
    /\ live = {} /\ removed = {} /\ version = 1
    /\ commits = [v \in {1} |-> {}]
    /\ view = [r \in Readers |-> Closed]

Commit(newLive, newRemoved) ==
    /\ live' = newLive /\ removed' = newRemoved
    /\ version' = version + 1
    /\ commits' = [v \in DOMAIN commits \cup {version'} |->
                      IF v = version' THEN newLive ELSE commits[v]]
    /\ UNCHANGED view

(* A flush, or the copy of another index: new documents. *)
Add == \E D \in SUBSET (Docs \ (live \cup removed)) :
           D # {} /\ Commit(live \cup D, removed)

(* Deletions, undeletions and norms: no document comes or goes for good. *)
Mark == \E D \in SUBSET (live \cup removed) : Commit(D, (live \cup removed) \ D)

(* A merge: deleted documents may be expunged, nothing else changes. *)
Expunge == \E D \in SUBSET removed : D # removed /\ Commit(live, D)

Open(r) ==
    /\ view[r] = Closed
    /\ \E v \in DOMAIN commits : view' = [view EXCEPT ![r] = Opened(v, commits[v])]
    /\ UNCHANGED <<live, removed, version, commits>>

Close(r) ==
    /\ view[r] # Closed
    /\ view' = [view EXCEPT ![r] = Closed]
    /\ UNCHANGED <<live, removed, version, commits>>

Next ==
    \/ Add \/ Mark \/ Expunge
    \/ \E r \in Readers : Open(r) \/ Close(r)

vars == <<live, removed, version, commits, view>>

Spec == Init /\ [][Next]_vars
=============================================================================
