--------------------------- MODULE EvidenceRecords ---------------------------
(* results.py next to SubmissionState, in the one SQLite file they may share: *)
(* verdicts become entries of internal_result_entries, and threads of the     *)
(* process project the committed entries to a file that is replaced as a      *)
(* whole.  The process may die between any two steps, a write may fail, and   *)
(* the file may get lost.                                                     *)
EXTENDS SubmissionState, Sequences

CONSTANTS
    Writer,     \* threads that commit and project
    NoFile,
    MaxLosses   \* a bound: how often the process dies or the file is lost

ASSUME LossesAssumption == MaxLosses \in Nat

VARIABLES
    entries,    \* internal_result_entries, by committed_revision
    published,  \* published_revision
    file,       \* the revision of the projected file, or NoFile
    lock,       \* the threads that hold _path_lock
    writer,     \* where each writer is, and the revision it has read
    losses

projectorVars == <<entries, published, file, lock, writer, losses>>
vars == <<storeVars, projectorVars>>

Entry == [intent : Key, status : {"accepted", "wrong", "conflict"}]
Place == {"idle", "locked", "snapshot", "replaced", "reconcile"}

TypeOK ==
    /\ StoreTypeOK
    /\ entries \in Seq(Entry)
    /\ published \in 0..Len(entries)
    /\ file \in {NoFile} \cup 0..Len(entries)
    /\ lock \subseteq Writer
    /\ writer \in [Writer -> [pc : Place, revision : 0..Len(entries)]]
    /\ losses \in 0..MaxLosses

Waiting == [pc |-> "idle", revision |-> 0]

Init ==
    /\ StoreInit
    /\ entries = <<>> /\ published = 0 /\ file = NoFile
    /\ lock = {} /\ losses = 0
    /\ writer = [w \in Writer |-> Waiting]

StateRevision == Len(entries)
IsCommitted(k) == \E i \in DOMAIN entries : entries[i].intent = k
Greater(m, n) == IF m >= n THEN m ELSE n

\* Variant: the lock of the output path is not taken.
FreeForAll(w) == TRUE

LockIsFree(w) == lock = {}

MoveTo(w, pc, revision) ==
    writer' = [writer EXCEPT ![w] = [pc |-> pc, revision |-> revision]]

Leave(w) == lock' = lock \ {w} /\ writer' = [writer EXCEPT ![w] = Waiting]

-----------------------------------------------------------------------------
(* commit_entry.  The owner makes an entry of an intent whose verdict is      *)
(* known; a replay of its identity changes nothing, or is refused.            *)

CommitEntry(k) ==
    /\ intents[k].state \in {"accepted", "wrong", "conflict"}
    /\ ~IsCommitted(k)
    /\ entries' = Append(entries, [intent |-> k, status |-> intents[k].state])

\* commit_and_project commits under the lock; commit_entry needs none.
CommitAndProject(w, k) ==
    /\ writer[w].pc = "idle" /\ LockIsFree(w)
    /\ CommitEntry(k)
    /\ lock' = lock \cup {w} /\ MoveTo(w, "locked", 0)
    /\ UNCHANGED <<storeVars, published, file, losses>>

CommitOnly(k) ==
    /\ CommitEntry(k)
    /\ UNCHANGED <<storeVars, published, file, lock, writer, losses>>

-----------------------------------------------------------------------------
(* project, by its steps. *)

BeginProject(w) ==
    /\ writer[w].pc = "idle" /\ LockIsFree(w)
    /\ lock' = lock \cup {w} /\ MoveTo(w, "locked", 0)
    /\ UNCHANGED <<storeVars, entries, published, file, losses>>

\* _snapshot and the temporary file
Snapshot(w) ==
    /\ writer[w].pc = "locked"
    /\ MoveTo(w, "snapshot", StateRevision)
    /\ UNCHANGED <<storeVars, entries, published, file, lock, losses>>

Replace(w) ==
    /\ writer[w].pc = "snapshot"
    /\ file' = writer[w].revision
    /\ MoveTo(w, "replaced", writer[w].revision)
    /\ UNCHANGED <<storeVars, entries, published, lock, losses>>

\* Variant: the revision of the moment is taken for the one that was written.
MarkCurrent(w) ==
    /\ writer[w].pc = "replaced"
    /\ published' = StateRevision
    /\ Leave(w)
    /\ UNCHANGED <<storeVars, entries, file, losses>>

\* _mark_published, also at the end of a reconcile that found the file current
MarkPublished(w) ==
    /\ writer[w].pc = "replaced"
    /\ published' = Greater(published, writer[w].revision)
    /\ Leave(w)
    /\ UNCHANGED <<storeVars, entries, file, losses>>

\* Variant: the bookkeeping is asked instead of the file.
ReconcileTrusting(w) ==
    /\ writer[w].pc = "reconcile"
    /\ IF published = writer[w].revision
       THEN MoveTo(w, "replaced", writer[w].revision)
       ELSE MoveTo(w, "locked", 0)
    /\ UNCHANGED <<storeVars, entries, published, file, lock, losses>>

\* reconcile, after publication_status: the file is read.
Reconcile(w) ==
    /\ writer[w].pc = "reconcile"
    /\ IF file = writer[w].revision
       THEN MoveTo(w, "replaced", writer[w].revision)
       ELSE MoveTo(w, "locked", 0)
    /\ UNCHANGED <<storeVars, entries, published, file, lock, losses>>

BeginReconcile(w) ==
    /\ writer[w].pc = "idle" /\ LockIsFree(w)
    /\ lock' = lock \cup {w} /\ MoveTo(w, "reconcile", StateRevision)
    /\ UNCHANGED <<storeVars, entries, published, file, losses>>

\* The temporary file, the replacement or the bookkeeping raises.
WriteFails(w) ==
    /\ writer[w].pc # "idle" /\ losses < MaxLosses
    /\ losses' = losses + 1
    /\ Leave(w)
    /\ UNCHANGED <<storeVars, entries, published, file>>

-----------------------------------------------------------------------------
Crash ==
    /\ losses < MaxLosses
    /\ losses' = losses + 1
    /\ lock' = {} /\ writer' = [w \in Writer |-> Waiting]
    /\ StoreCrash
    /\ UNCHANGED <<entries, published, file>>

FileLost ==
    /\ losses < MaxLosses /\ file # NoFile
    /\ losses' = losses + 1
    /\ file' = NoFile
    /\ UNCHANGED <<storeVars, entries, published, lock, writer>>

Sends ==
    /\ \/ \E t \in Thread : ThreadStep(t)
       \/ \E k \in Key : ProveNotSent(k)
       \/ \E k \in Key : \E a \in Answers[k] : Answered(k, a)
    /\ UNCHANGED projectorVars

Projects(w) ==
    Snapshot(w) \/ Replace(w) \/ MarkPublished(w) \/ Reconcile(w)

Starts(w) ==
    \/ \E k \in Key : CommitAndProject(w, k)
    \/ BeginProject(w) \/ BeginReconcile(w)

Next ==
    \/ Sends \/ Crash \/ FileLost
    \/ \E k \in Key : CommitOnly(k)
    \/ \E w \in Writer : Projects(w) \/ Starts(w) \/ WriteFails(w)

\* A writer that has begun goes on; nobody has to project or to reconcile.
Fairness == \A w \in Writer : WF_vars(Projects(w))

Spec == Init /\ [][Next]_vars /\ Fairness

-----------------------------------------------------------------------------
(* Properties. *)

(* The bookkeeping never runs ahead of the file: a revision that counts as    *)
(* published is in the file, unless the file was lost                         *)
(* (project, _mark_published, reconcile).                                     *)
PublishedIsOnDisk == file # NoFile => published <= file

(* A replacement never takes back an entry that an earlier one had published, *)
(* whichever threads project at the same time: the snapshot and its           *)
(* replacement are under one lock.                                            *)
FileNeverGoesBack == [][file # NoFile /\ file' # NoFile => file <= file']_file

\* A projection or a reconcile is under way that is of the first n entries.
Covered(n) ==
    \E w \in Writer :
        \/ writer[w].pc = "locked" /\ Len(entries) >= n
        \/ writer[w].pc = "reconcile" /\ writer[w].revision >= n

(* A projection or a reconcile that has begun puts every entry committed      *)
(* before it into the file and into the bookkeeping, whatever earlier         *)
(* failures left behind - a file lost or stale beside a bookkeeping that      *)
(* counts it as published - unless a write fails, the process dies or the     *)
(* file is lost meanwhile (project, reconcile, commit_and_project).           *)
ProjectionPublishes ==
    \A n \in 1..MaxIntents, l \in 0..MaxLosses :
        Covered(n) /\ losses = l
            ~> (file # NoFile /\ file >= n /\ published >= n) \/ losses > l

=============================================================================
