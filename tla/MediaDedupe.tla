------------------------------ MODULE MediaDedupe ------------------------------
(***************************************************************************)
(* Media cleanup (media_dedupe_runtime.rs, workspace_repository/           *)
(* media_dedupe.rs): a scan hashes the library; an apply replaces equal    *)
(* files by hard links through a backup beside the target and recycles the *)
(* similar files the user chose, while syncs, deletions and migrations of  *)
(* the same profiles keep away.  The process may die between two steps and *)
(* its next start repairs, two seconds late, what the last one left.       *)
(***************************************************************************)
EXTENDS Naturals, FiniteSets, Sequences, Functions

CONSTANTS
    MediaPath,    \* the sequence of library files, in path order
    ProfileOf,    \* the profile each file belongs to
    Inode,        \* what a name can refer to on disk
    BytesOf,      \* the contents of each inode
    FirstPlaced,  \* the library at first
    Selections,   \* what a user may ask to recycle: lists of selections, each with
                  \* a file to keep and the files of its group to remove
    Gone,         \* the name has no file
    Binned,       \* an apply recycled it
    CleanupErrors,\* whether a file or the database can refuse a step
    NewInodes,    \* bound: what syncs store, in this order
    MaxOutside    \* bound: other jobs asked for, queued or running at a time

Media == {MediaPath[i] : i \in 1..Len(MediaPath)}
Profiles == {ProfileOf[f] : f \in Media}
Outside == {"sync", "deletion", "migration"}

ASSUME CleanupAssumption ==
    /\ {Gone, Binned} \cap Inode = {}
    /\ Gone # Binned
    /\ ProfileOf \in [Media -> Profiles]
    /\ NewInodes \in Seq(Inode)
    /\ FirstPlaced \in [Media -> Inode] /\ IsInjective(FirstPlaced)
    /\ \A list \in Selections : list \in Seq([keep : Media, remove : SUBSET Media])
    /\ CleanupErrors \in BOOLEAN

\* A group of files an apply works on: the file it keeps, and the others, which it
\* replaces by hard links to it or recycles.
Group == [do : {"link", "recycle"}, keep : Media, files : SUBSET Media]
NoGroup == [do |-> "none", files |-> {}]

VARIABLES
    placed,         \* the inode under each file's name, or Gone
    backups,        \* the inodes kept in backups beside each file
    scan_row,       \* the last scan's row: "running", "completed", or "ended" when
                    \* it failed, was cancelled or interrupted, or there is none
    signature,      \* the inode each file had when that scan hashed it, or Gone;
                    \* nothing reads the signatures of a scan that ended
    actions,        \* each file's last hard-link row: none or one that ended well
                    \* ("settled"), "running" or "failed"
    interrupted,    \* files with an interrupted hard-link row
    locked_sources, \* profiles no other job may start on
    cancel_scan,    \* the cancellation token of the scan
    place,          \* where the job's thread is
    agenda,         \* what the apply is still to begin: the groups of equal files, and
                    \* after them the selections of similar ones
    group,          \* the group it is at, with the files it has still to handle
    at_hand,        \* the file of that group it is at, or Gone
    staged,         \* the inode it moved to a backup, or Gone
    requested,      \* jobs that passed the lock check and are not yet queued
    at_work,        \* jobs queued or running on a profile
    repair,         \* recovery at start: "due", "files" or "done"
    to_repair,      \* the files whose interrupted row it still has to look at
    stored,         \* history: the inode last put under each name, Gone when another
                    \* job or the user took it away, Binned when an apply recycled it
                    \* and recovery put no backup in its place
    kept_for,       \* history: the file for whose sake an apply last recycled each file
    slipped,        \* history: a job was queued on a locked profile
    overlapped,     \* history: recovery ran beside a job of this run
    stores          \* files stored so far

disk == <<placed, backups>>
dedupe_rows == <<scan_row, signature, actions, interrupted>>
apply == <<agenda, group, at_hand, staged>>
job == <<locked_sources, cancel_scan, place, apply>>
outsiders == <<requested, at_work>>
boot == <<repair, to_repair>>
put == <<stored, kept_for>>
past == <<put, slipped, overlapped, stores>>
cleanup_vars == <<disk, dedupe_rows, job, outsiders, boot, past>>

\* RuntimeState.state is "queued", "scanning" or "applying" exactly while the
\* job's thread, or the command that is to start it, has a place.
Busy == place # "none"
NoSignature == [f \in Media |-> Gone]
NoAgenda == [exact |-> {}, similar |-> <<>>]
Same(i, j) == i # Gone /\ j # Gone /\ BytesOf[i] = BytesOf[j]

JobPlace == {"none", "inventory", "hash", "report", "wind up",
             "sync", "deletion", "migration", "begin", "next", "bin",
             "compare", "stage", "link", "release", "undo", "restore", "settle"}

HistoryOK == slipped \in BOOLEAN /\ overlapped \in BOOLEAN
CleanupTypeOK ==
    /\ placed \in [Media -> Inode \cup {Gone}]
    /\ backups \in [Media -> SUBSET Inode]
    /\ scan_row \in {"running", "completed", "ended"}
    /\ signature \in [Media -> Inode \cup {Gone}]
    /\ actions \in [Media -> {"settled", "running", "failed"}]
    /\ interrupted \subseteq Media
    /\ locked_sources \subseteq Profiles
    /\ cancel_scan \in BOOLEAN
    /\ place \in JobPlace
    /\ agenda \in [exact : SUBSET Group, similar : Seq(Group)]
    /\ group \in Group \cup {NoGroup}
    /\ at_hand \in Media \cup {Gone}
    /\ staged \in Inode \cup {Gone}
    /\ requested \subseteq Profiles \X Outside
    /\ at_work \subseteq Profiles \X Outside
    /\ repair \in {"due", "files", "done"}
    /\ to_repair \subseteq Media
    /\ stored \in [Media -> Inode \cup {Gone, Binned}]
    /\ kept_for \in [Media -> Media \cup {Gone}]
    /\ HistoryOK
    /\ stores \in 0..Len(NewInodes)

\* A library whose files are all there, no two of them linked yet.
CleanupInit ==
    /\ placed = FirstPlaced
    /\ backups = [f \in Media |-> {}]
    /\ scan_row = "ended"
    /\ signature = NoSignature
    /\ actions = [f \in Media |-> "settled"]
    /\ interrupted = {}
    /\ locked_sources = {}
    /\ cancel_scan = FALSE
    /\ place = "none"
    /\ agenda = NoAgenda
    /\ group = NoGroup
    /\ at_hand = Gone
    /\ staged = Gone
    /\ requested = {}
    /\ at_work = {}
    /\ repair = "due"
    /\ to_repair = {}
    /\ stored = placed
    /\ kept_for = NoSignature
    /\ slipped = FALSE
    /\ overlapped = FALSE
    /\ stores = 0

----------------------------------------------------------------------------
\* The scan.

\* enqueue_scan: refused while a job is under way.
EnqueueScan ==
    /\ ~Busy
    /\ scan_row' = "running"
    /\ signature' = NoSignature
    /\ cancel_scan' = FALSE
    /\ place' = "inventory"
    /\ overlapped' = (overlapped \/ repair # "done")
    /\ UNCHANGED <<disk, actions, interrupted, locked_sources, apply,
                   outsiders, boot, put, slipped, stores>>

\* enqueue_scan whose job row cannot be written: the scan's row fails.
EnqueueScanFails ==
    /\ CleanupErrors
    /\ ~Busy
    /\ scan_row' = "ended"
    /\ signature' = NoSignature
    /\ UNCHANGED <<disk, actions, interrupted, job, outsiders, boot, past>>

\* cancel: only while a scan waits or runs.
CancelScan ==
    /\ place \in {"inventory", "hash", "report", "wind up"}
    /\ ~cancel_scan
    /\ cancel_scan' = TRUE
    /\ UNCHANGED <<disk, dedupe_rows, locked_sources, place, apply,
                   outsiders, boot, past>>

ScanTo(next) ==
    /\ place' = next
    /\ cancel_scan' = (cancel_scan /\ next # "none")
    /\ UNCHANGED <<disk, actions, interrupted, locked_sources, apply,
                   outsiders, boot, past>>

\* collect_inventory, unless it is cancelled.
ScanInventory ==
    /\ place = "inventory"
    /\ ScanTo(IF cancel_scan THEN "wind up" ELSE "hash")
    /\ UNCHANGED <<scan_row, signature>>

\* scan_library hashes one file that did not change since the inventory.
ScanHash(f) ==
    /\ place = "hash"
    /\ ~cancel_scan
    /\ signature[f] = Gone
    /\ placed[f] # Gone
    /\ signature' = [signature EXCEPT ![f] = placed[f]]
    /\ ScanTo("hash")
    /\ UNCHANGED scan_row

\* complete_media_dedupe_scan: the files that changed or went are left out.
ScanComplete ==
    /\ place = "hash"
    /\ ~cancel_scan
    /\ scan_row' = "completed"
    /\ ScanTo("report")
    /\ UNCHANGED signature

\* run_scan publishes the result.
ScanReport ==
    /\ place = "report"
    /\ ScanTo("none")
    /\ UNCHANGED <<scan_row, signature>>

\* A cancellation seen between two files, or an error on the way.
ScanStops ==
    /\ \/ place = "hash" /\ cancel_scan
       \/ place \in {"hash", "report"} /\ CleanupErrors
    /\ ScanTo("wind up")
    /\ UNCHANGED <<scan_row, signature>>

\* The error arms of run_scan; the row's update may fail unnoticed.
ScanWindUp ==
    /\ place = "wind up"
    /\ \/ scan_row' = "ended" /\ signature' = NoSignature
       \/ CleanupErrors /\ UNCHANGED <<scan_row, signature>>
    /\ ScanTo("none")

----------------------------------------------------------------------------
\* Enqueueing an apply.

Earlier(f, g) == \E i, j \in 1..Len(MediaPath) : i < j /\ MediaPath[i] = f /\ MediaPath[j] = g
Twins(f) == {g \in Media : Same(signature[f], signature[g])}

\* exact_groups: the files with one hash, one of each set of hard links; the
\* first in path order is kept and the others are linked to it.
Canonical(f) == \A g \in Twins(f) : ~Earlier(g, f)
Linked(f) ==
    {g \in Twins(f) : \A h \in Twins(f) : Earlier(h, g) => placed[h] # placed[g] \/ placed[g] = Gone}
Targets(f) == IF Canonical(f) THEN Linked(f) \ {f} ELSE {}

ExactGroups ==
    {[do |-> "link", keep |-> f, files |-> Targets(f)] : f \in {g \in Media : Targets(g) # {}}}
SimilarGroups(selections) ==
    [i \in DOMAIN selections |->
        [do |-> "recycle", keep |-> selections[i].keep,
         files |-> selections[i].remove \ {selections[i].keep}]]

AffectedFiles(exact, selections) ==
    (IF exact THEN UNION {{g.keep} \cup g.files : g \in ExactGroups} ELSE {})
        \cup UNION {{selections[i].keep} \cup selections[i].remove : i \in DOMAIN selections}

\* enqueue_apply takes the lock of every affected profile before it looks
\* whether they are idle.
EnqueueApply(exact, selections) ==
    /\ scan_row = "completed"
    /\ ~Busy
    /\ locked_sources' = {ProfileOf[f] : f \in AffectedFiles(exact, selections)}
    /\ agenda' = [exact   |-> IF exact THEN ExactGroups ELSE {},
                  similar |-> SimilarGroups(selections)]
    /\ place' = "sync"
    /\ overlapped' = (overlapped \/ repair # "done")
    /\ UNCHANGED <<disk, dedupe_rows, cancel_scan, group, at_hand, staged, outsiders, boot,
                   put, slipped, stores>>

GoTo(next) ==
    /\ place' = next
    /\ UNCHANGED <<locked_sources, cancel_scan, apply>>

ApplyEnds ==
    /\ locked_sources' = {}
    /\ agenda' = NoAgenda
    /\ group' = NoGroup
    /\ at_hand' = Gone
    /\ staged' = Gone
    /\ place' = "none"
    /\ UNCHANGED cancel_scan

NextLook == [sync |-> "deletion", deletion |-> "migration", migration |-> "begin"]

\* Fault: it looks and does not mind what it finds.
EnsureNothing ==
    /\ place \in Outside
    /\ GoTo(NextLook[place])
    /\ UNCHANGED <<disk, dedupe_rows, outsiders, boot, past>>

\* ensure_sources_idle looks at one queue after the other.
EnsureIdle ==
    /\ place \in Outside
    /\ \/ /\ \A s \in locked_sources : <<s, place>> \notin at_work
          /\ place' = NextLook[place]
          /\ UNCHANGED <<locked_sources, cancel_scan, apply>>
       \/ /\ \E s \in locked_sources : <<s, place>> \in at_work
          /\ ApplyEnds
    /\ UNCHANGED <<disk, dedupe_rows, outsiders, boot, past>>

\* The job's row is written and the thread starts.
ApplyBegin ==
    /\ place = "begin"
    /\ \/ /\ place' = "next"
          /\ UNCHANGED <<locked_sources, cancel_scan, apply>>
       \/ /\ CleanupErrors
          /\ ApplyEnds
    /\ UNCHANGED <<disk, dedupe_rows, outsiders, boot, past>>

----------------------------------------------------------------------------
\* apply_scan.

\* validate_scanned_file
Valid(f) == Same(placed[f], signature[f])

\* The file at hand is handled.
NextFile ==
    /\ place' = "next"
    /\ group' = [group EXCEPT !.files = @ \ {at_hand}]
    /\ at_hand' = Gone
    /\ staged' = Gone
    /\ UNCHANGED <<locked_sources, cancel_scan, agenda>>

Elsewhere == UNCHANGED <<scan_row, signature, outsiders, boot, slipped, overlapped, stores>>

AtNextGroup == place = "next" /\ group.files = {}
AtNextFile(kind) == place = "next" /\ group.do = kind /\ group.files # {}

\* The groups of equal files come in no particular order, the selections in the user's.
Upcoming ==
    IF agenda.exact # {} THEN agenda.exact
    ELSE IF agenda.similar # <<>> THEN {Head(agenda.similar)} ELSE {}
TakeGroup(g) ==
    /\ group' = g
    /\ agenda' = IF agenda.exact # {} THEN [agenda EXCEPT !.exact = @ \ {g}]
                 ELSE [agenda EXCEPT !.similar = Tail(@)]
    /\ UNCHANGED <<locked_sources, cancel_scan, place, at_hand, staged>>

ApplyDone ==
    /\ AtNextGroup
    /\ agenda = NoAgenda
    /\ ApplyEnds
    /\ UNCHANGED <<disk, dedupe_rows, outsiders, boot, past>>

\* Fault: the file to keep is taken to be as it was scanned.
TrustKept ==
    /\ AtNextGroup
    /\ \E g \in Upcoming : TakeGroup(g)
    /\ UNCHANGED <<disk, dedupe_rows, outsiders, boot, past>>

\* The canonical file, or the file to keep, is checked once for its group.
CheckKept ==
    /\ AtNextGroup
    /\ \E g \in Upcoming : IF Valid(g.keep) THEN TakeGroup(g) ELSE ApplyEnds
    /\ UNCHANGED <<disk, dedupe_rows, outsiders, boot, past>>

\* A target, the next in path order, is checked, skipped when it is a link already,
\* or gets its row.
LinkBegin ==
    /\ AtNextFile("link")
    /\ \E t \in group.files :
          /\ \A g \in group.files : ~Earlier(g, t)
          /\ \/ /\ Valid(t) /\ placed[group.keep] = placed[t]
                /\ group' = [group EXCEPT !.files = @ \ {t}]
                /\ UNCHANGED <<actions, locked_sources, cancel_scan, place, agenda, at_hand, staged>>
             \/ /\ Valid(t) /\ placed[group.keep] # placed[t]
                /\ actions' = [actions EXCEPT ![t] = "running"]
                /\ at_hand' = t
                /\ place' = "compare"
                /\ UNCHANGED <<locked_sources, cancel_scan, agenda, group, staged>>
             \/ /\ ~Valid(t) \/ CleanupErrors
                /\ ApplyEnds
                /\ UNCHANGED actions
    /\ UNCHANGED <<disk, interrupted, put>>
    /\ Elsewhere

\* The row of the target is settled as failed, unless that fails too; either
\* way the job ends.
LinkFails ==
    /\ \/ actions' = [actions EXCEPT ![at_hand] = "failed"]
       \/ CleanupErrors /\ UNCHANGED actions
    /\ ApplyEnds

\* consolidate_hardlink compares the two files once more ...
LinkCompare ==
    /\ place = "compare"
    /\ \/ /\ Same(placed[group.keep], placed[at_hand])
          /\ GoTo("stage")
          /\ UNCHANGED actions
       \/ /\ ~Same(placed[group.keep], placed[at_hand])
          /\ LinkFails
    /\ UNCHANGED <<disk, interrupted, put>>
    /\ Elsewhere

\* ... moves the target to a backup beside it ...
LinkStage ==
    /\ place = "stage"
    /\ \/ /\ placed[at_hand] # Gone
          /\ staged' = placed[at_hand]
          /\ backups' = [backups EXCEPT ![at_hand] = @ \cup {placed[at_hand]}]
          /\ placed' = [placed EXCEPT ![at_hand] = Gone]
          /\ place' = "link"
          /\ UNCHANGED <<locked_sources, cancel_scan, agenda, group, at_hand, actions>>
       \/ /\ placed[at_hand] = Gone \/ CleanupErrors
          /\ LinkFails
          /\ UNCHANGED disk
    /\ UNCHANGED <<interrupted, put>>
    /\ Elsewhere

\* ... links the canonical file under its name and verifies the link ...
LinkMake ==
    /\ place = "link"
    /\ \/ /\ placed[group.keep] # Gone /\ placed[at_hand] = Gone
          /\ placed' = [placed EXCEPT ![at_hand] = placed[group.keep]]
          /\ GoTo("release")
       \/ /\ placed[group.keep] = Gone \/ placed[at_hand] # Gone \/ CleanupErrors
          /\ GoTo("undo")
          /\ UNCHANGED placed
    /\ UNCHANGED <<backups, actions, interrupted, put>>
    /\ Elsewhere

\* ... and removes the backup.
LinkRelease ==
    /\ place = "release"
    /\ \/ /\ staged \in backups[at_hand]
          /\ backups' = [backups EXCEPT ![at_hand] = @ \ {staged}]
          /\ GoTo("settle")
       \/ /\ staged \notin backups[at_hand] \/ CleanupErrors
          /\ GoTo("undo")
          /\ UNCHANGED backups
    /\ UNCHANGED <<placed, actions, interrupted, put>>
    /\ Elsewhere

\* An error after the move: whatever is under the target's name is removed,
\* though the removal may fail ...
LinkUndo ==
    /\ place = "undo"
    /\ \/ placed' = [placed EXCEPT ![at_hand] = Gone]
       \/ CleanupErrors /\ UNCHANGED placed
    /\ GoTo("restore")
    /\ UNCHANGED <<backups, actions, interrupted, put>>
    /\ Elsewhere

\* ... and the backup is moved back over it, which may fail as well.
LinkRestore ==
    /\ place = "restore"
    /\ \/ /\ staged \in backups[at_hand]
          /\ placed' = [placed EXCEPT ![at_hand] = staged]
          /\ backups' = [backups EXCEPT ![at_hand] = @ \ {staged}]
       \/ /\ staged \notin backups[at_hand] \/ CleanupErrors
          /\ UNCHANGED disk
    /\ LinkFails
    /\ UNCHANGED <<interrupted, put>>
    /\ Elsewhere

LinkSettle ==
    /\ place = "settle"
    /\ \/ /\ actions' = [actions EXCEPT ![at_hand] = "settled"]
          /\ NextFile
       \/ /\ CleanupErrors
          /\ ApplyEnds
          /\ UNCHANGED actions
    /\ UNCHANGED <<disk, interrupted, put>>
    /\ Elsewhere

\* A similar file, in the order the user listed them, is checked and its row written
\* (a row that only records).
RecycleBegin ==
    /\ AtNextFile("recycle")
    /\ \E t \in group.files :
          \/ /\ Valid(t)
             /\ at_hand' = t
             /\ place' = "bin"
             /\ UNCHANGED <<locked_sources, cancel_scan, agenda, group, staged>>
          \/ /\ ~Valid(t) \/ CleanupErrors
             /\ ApplyEnds
    /\ UNCHANGED <<disk, dedupe_rows, outsiders, boot, past>>

\* delete_source_media: the file goes to the recycle bin and its tombstone and
\* ledger entry are written; an error may come before or after the file went.
RecycleBin ==
    /\ place = "bin"
    /\ \/ /\ placed' = [placed EXCEPT ![at_hand] = Gone]
          /\ stored' = [stored EXCEPT ![at_hand] = Binned]
          /\ kept_for' = [kept_for EXCEPT ![at_hand] = group.keep]
          /\ NextFile \/ (CleanupErrors /\ ApplyEnds)
       \/ /\ CleanupErrors
          /\ ApplyEnds
          /\ UNCHANGED <<placed, put>>
    /\ UNCHANGED <<backups, actions, interrupted>>
    /\ Elsewhere

----------------------------------------------------------------------------
\* The other jobs of the same profiles.

\* run_source_sync, the delete commands and the migration's enqueue look at
\* is_source_locked first ...
PassLock(s, kind) ==
    /\ s \notin locked_sources
    /\ <<s, kind>> \notin at_work
    /\ Cardinality(requested \cup at_work) < MaxOutside
    /\ requested' = requested \cup {<<s, kind>>}
    /\ UNCHANGED <<disk, dedupe_rows, job, at_work, boot, past>>

\* The idle checks of an apply that are still to look at a queue.
StillLooks(kind) ==
    CASE kind = "sync"      -> {"sync"}
      [] kind = "deletion"  -> {"sync", "deletion"}
      [] kind = "migration" -> {"sync", "deletion", "migration"}

\* ... and queue the job outside the lock: an apply may have locked the
\* profile, and looked at the queue, in between.
QueueJob(s, kind) ==
    /\ <<s, kind>> \in requested
    /\ requested' = requested \ {<<s, kind>>}
    /\ at_work' = at_work \cup {<<s, kind>>}
    /\ slipped' = (slipped \/ (s \in locked_sources /\ place \notin StillLooks(kind)))
    /\ UNCHANGED <<disk, dedupe_rows, job, boot, put, overlapped, stores>>

JobEnds(s, kind) ==
    /\ <<s, kind>> \in at_work
    /\ at_work' = at_work \ {<<s, kind>>}
    /\ UNCHANGED <<disk, dedupe_rows, job, requested, boot, past>>

\* A sync stores a file, over what is there.
StoreFile(f) ==
    /\ <<ProfileOf[f], "sync">> \in at_work
    /\ stores < Len(NewInodes)
    /\ placed' = [placed EXCEPT ![f] = NewInodes[stores + 1]]
    /\ stored' = [stored EXCEPT ![f] = NewInodes[stores + 1]]
    /\ stores' = stores + 1
    /\ UNCHANGED <<backups, dedupe_rows, job, outsiders, boot, kept_for, slipped, overlapped>>

\* A deletion or a migration takes the profile's folder away.
FolderGoes(s, kind) ==
    /\ kind # "sync"
    /\ <<s, kind>> \in at_work
    /\ placed' = [f \in Media |-> IF ProfileOf[f] = s THEN Gone ELSE placed[f]]
    /\ backups' = [f \in Media |-> IF ProfileOf[f] = s THEN {} ELSE backups[f]]
    /\ stored' = [f \in Media |-> IF ProfileOf[f] = s THEN Gone ELSE stored[f]]
    /\ placed' # placed
    /\ UNCHANGED <<dedupe_rows, job, outsiders, boot, kept_for, slipped, overlapped, stores>>

\* The gallery's delete command looks at no lock.
GalleryDelete(f) ==
    /\ placed[f] # Gone
    /\ placed' = [placed EXCEPT ![f] = Gone]
    /\ stored' = [stored EXCEPT ![f] = Gone]
    /\ UNCHANGED <<backups, scan_row, signature, actions, interrupted, job, outsiders, boot,
                   kept_for, slipped, overlapped, stores>>

----------------------------------------------------------------------------
\* The process dies; recovery at the next start.

\* The rows of syncs and migrations come back as jobs without a look at the
\* lock; those of deletions do not.
Die ==
    /\ repair # "due" \/ place # "none"
    /\ locked_sources' = {}
    /\ cancel_scan' = FALSE
    /\ place' = "none"
    /\ agenda' = NoAgenda
    /\ group' = NoGroup
    /\ at_hand' = Gone
    /\ staged' = Gone
    /\ requested' = {w \in at_work : w[2] # "deletion"}
    /\ at_work' = {}
    /\ repair' = "due"
    /\ to_repair' = {}
    /\ UNCHANGED <<disk, dedupe_rows, past>>

\* recover_interrupted_media_dedupe_jobs marks what was running as
\* interrupted ...
RepairRows ==
    /\ repair = "due"
    /\ repair' = "files"
    /\ IF scan_row = "running"
       THEN scan_row' = "ended" /\ signature' = NoSignature
       ELSE UNCHANGED <<scan_row, signature>>
    /\ actions' = [f \in Media |-> IF actions[f] = "running" THEN "settled" ELSE actions[f]]
    /\ interrupted' = interrupted \cup {f \in Media : actions[f] = "running"}
    /\ to_repair' = interrupted'
    /\ UNCHANGED <<disk, job, outsiders, past>>

\* ... and looks at the backup of each interrupted hard link: a missing
\* target gets it back, one with the same bytes makes it superfluous, and
\* one with other bytes leaves it where it is.
RepairFile(f) ==
    /\ repair = "files"
    /\ f \in to_repair
    /\ to_repair' = to_repair \ {f}
    /\ \/ \E b \in backups[f] :
             /\ placed[f] = Gone \/ Same(b, placed[f])
             /\ placed' = [placed EXCEPT ![f] = IF @ = Gone THEN b ELSE @]
             /\ backups' = [backups EXCEPT ![f] = @ \ {b}]
             /\ interrupted' = interrupted \ {f}
             /\ stored' = [stored EXCEPT ![f] = IF @ = Binned /\ placed[f] = Gone THEN b ELSE @]
       \/ /\ \/ CleanupErrors
             \/ backups[f] = {}
             \/ \E b \in backups[f] : placed[f] # Gone /\ ~Same(b, placed[f])
          /\ UNCHANGED <<disk, interrupted, stored>>
    /\ UNCHANGED <<scan_row, signature, actions, job, outsiders, repair, kept_for, slipped,
                   overlapped, stores>>

RepairDone ==
    /\ repair = "files"
    /\ to_repair = {}
    /\ repair' = "done"
    /\ UNCHANGED <<disk, dedupe_rows, job, outsiders, to_repair, past>>

----------------------------------------------------------------------------
ScanStep ==
    \/ EnqueueScan \/ EnqueueScanFails \/ CancelScan
    \/ ScanInventory \/ ScanComplete \/ ScanReport \/ ScanStops \/ ScanWindUp
    \/ \E f \in Media : ScanHash(f)

ApplyStep ==
    \/ \E exact \in BOOLEAN, selections \in Selections : EnqueueApply(exact, selections)
    \/ EnsureIdle \/ ApplyBegin \/ ApplyDone \/ CheckKept
    \/ LinkBegin \/ LinkCompare \/ LinkStage \/ LinkMake \/ LinkRelease
    \/ LinkUndo \/ LinkRestore \/ LinkSettle
    \/ RecycleBegin \/ RecycleBin

OutsideStep ==
    \/ \E s \in Profiles, kind \in Outside :
          PassLock(s, kind) \/ QueueJob(s, kind) \/ JobEnds(s, kind) \/ FolderGoes(s, kind)
    \/ \E f \in Media : StoreFile(f) \/ GalleryDelete(f)

RepairStep == RepairRows \/ RepairDone \/ (\E f \in Media : RepairFile(f))

CleanupNext == ScanStep \/ ApplyStep \/ OutsideStep \/ RepairStep \/ Die

CleanupSpec == CleanupInit /\ [][CleanupNext]_cleanup_vars

----------------------------------------------------------------------------
\* The job had the library to itself: no other job slipped in between the
\* look at the lock and the queue, and recovery was over when it started.
CleanedAlone == ~slipped /\ ~overlapped

\* The bytes last put under a name are under it or in a backup beside it, at
\* every step of a consolidation, of its undoing and of a recovery, whatever
\* fails and wherever the process dies (consolidate_hardlink,
\* recover_interrupted_media_dedupe_jobs).
BytesKept ==
    CleanedAlone =>
        \A f \in Media : stored[f] \in Inode =>
            \E i \in {placed[f]} \cup backups[f] : Same(i, stored[f])

\* However selections overlap, over however many applies, files are never recycled each
\* for the sake of another of them until none is left: of any files one was not recycled,
\* or was recycled for a file that is not one of them (apply_scan checks the file to keep
\* before it recycles the others).
LastCopyStays ==
    \A files \in (SUBSET Media) \ {{}} : \E f \in files : stored[f] # Binned \/ kept_for[f] \notin files
=============================================================================
