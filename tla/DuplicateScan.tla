----------------------------- MODULE DuplicateScan -----------------------------
(***************************************************************************)
(* What a scan of the media cleanup finds (scan_library in                 *)
(* media_dedupe_runtime.rs, media_dedupe_vdf.rs and                        *)
(* workspace_repository/media_dedupe.rs).  It lists the files, hashes      *)
(* those that have another of the same size beside them, has the videos of *)
(* each profile compared by an external process, and keeps all of it for   *)
(* the scans to come: hashes in an index, comparisons with a               *)
(* fingerprint of the videos they were made of.  Other programs and syncs  *)
(* change the files meanwhile.  (MediaDedupe has the locks, the apply and  *)
(* the recovery, and there a scan finds what is on disk.)                  *)
(***************************************************************************)
EXTENDS Naturals, FiniteSets, Sequences, Functions

CONSTANTS
    Shelf,         \* the files' names, in path order
    FileVersion,   \* what a file can be; two versions differ in size or mtime
    SizeOf, Pixels,\* a version's size, and its bytes
    Alike,         \* for each depth of the comparison, and for images, the pairs of
                   \* bytes that resemble each other
    Albums,        \* libraries: each file's kind, profile, volume and first version
    CanBecome,     \* what may come in the place of each file, NoBytes when it goes
    NoBytes,        \* no hash; no file
    MaxHunts, MaxChanges

Depth == DOMAIN Alike \ {"image"}
Shelved == {Shelf[i] : i \in 1..Len(Shelf)}
Rank(f) == CHOOSE i \in 1..Len(Shelf) : Shelf[i] = f

ASSUME ScanAssumption ==
    /\ Shelf \in Seq(Shelved) /\ IsInjective(Shelf)
    /\ SizeOf \in [FileVersion -> Nat]
    /\ NoBytes \notin FileVersion
    /\ \A a \in Albums : a.first \in [Shelved -> FileVersion \cup {NoBytes}]
    /\ CanBecome \in [Shelved -> SUBSET (FileVersion \cup {NoBytes})]
    /\ MaxHunts \in Nat /\ MaxChanges \in Nat
    /\ "image" \in DOMAIN Alike
    /\ \A v \in FileVersion : Pixels[v] # NoBytes
    /\ \A v, w \in FileVersion : Pixels[v] = Pixels[w] => SizeOf[v] = SizeOf[w]
    /\ \A d \in DOMAIN Alike : \A pair \in Alike[d] : <<pair[2], pair[1]>> \in Alike[d]

VARIABLES
    album,       \* the library
    held,        \* each file's version, or NoBytes when there is none
    index_rows,  \* media_dedupe_catalog: each file's version when last listed, the scan
                 \* that listed it, and the hashes it has had since
    hunts,       \* the scans so far: their rows, the files they hashed, their
                 \* profiles' comparisons; and, for the properties, what stood still
    hunt,        \* the scan that runs, the newest
    changes      \* changes of files so far

hunt_vars == <<album, held, index_rows, hunts, hunt, changes>>

Owners == {album.owner[f] : f \in Shelved}
Video(f) == album.kind[f] = "video"
NoHunt == [step |-> "none"]
NeverListed == [was |-> NoBytes, seen |-> 0, sha |-> NoBytes, look |-> NoBytes, doubt |-> FALSE]
NotCompared == [status |-> "none", inventory |-> {}, pairs |-> {}, shifted |-> FALSE]

HuntsTypeOK ==
    /\ album \in Albums /\ held \in [Shelved -> FileVersion \cup {NoBytes}]
    /\ \A f \in Shelved : /\ index_rows[f].seen \in 0..Len(hunts)
                          /\ index_rows[f].seen = 0 <=> index_rows[f].was = NoBytes
    /\ Len(hunts) <= MaxHunts /\ changes \in 0..MaxChanges
    /\ \A s \in 1..Len(hunts) :
          /\ hunts[s].status \in {"running", "completed", "ended"}
          /\ \A r \in hunts[s].files : r.was # NoBytes /\ r.sha # NoBytes
    /\ hunt.step \in {"none", "list", "hash", "read", "look", "record", "compare",
                      "complete", "totals"}
    /\ hunt.step = "none" \/ hunts # <<>>

HuntsInit ==
    /\ album \in Albums /\ held = album.first
    /\ index_rows = [f \in Shelved |-> NeverListed]
    /\ hunts = <<>> /\ hunt = NoHunt /\ changes = 0
-----------------------------------------------------------------------------
\* A file is stored, written over, taken away or put back.
FileChanges(f, v) ==
    /\ changes < MaxChanges /\ changes' = changes + 1
    /\ v # held[f] /\ held' = [held EXCEPT ![f] = v]
    /\ hunt' = IF hunt = NoHunt THEN hunt
               ELSE [hunt EXCEPT !.steady = @ \ {f}, !.doubt = @ \/ f = hunt.file]
    /\ UNCHANGED <<album, index_rows, hunts>>
-----------------------------------------------------------------------------
\* The inventory.
BeginHunt(depth) ==
    /\ hunt = NoHunt /\ Len(hunts) < MaxHunts
    /\ hunts' = Append(hunts, [status |-> "running", depth |-> depth, files |-> {},
                               jobs |-> [p \in Owners |-> NotCompared], stood |-> {}])
    /\ hunt' = [step |-> "list", to_list |-> Shelved, batch |-> {}, cursor |-> 0,
                file |-> NoBytes, sha |-> NoBytes, look |-> NoBytes, doubt |-> FALSE,
                lanes |-> <<>>, steady |-> Shelved]
    /\ UNCHANGED <<album, held, index_rows, changes>>

Scan == Len(hunts)

\* Each file by itself, so their order makes no difference.
ListFile(f) ==
    /\ hunt.step = "list" /\ f \in hunt.to_list
    /\ \A g \in hunt.to_list : Rank(f) <= Rank(g)
    /\ hunt' = [hunt EXCEPT !.to_list = @ \ {f},
                            !.batch = IF held[f] = NoBytes THEN @ ELSE @ \cup {<<f, held[f]>>}]
    /\ UNCHANGED <<album, held, index_rows, hunts, changes>>

\* The row of a file seen at a version: its hashes stay if it is the same.
RelistedRow(row, v) ==
    IF row.was = v THEN [row EXCEPT !.seen = Scan]
    ELSE [NeverListed EXCEPT !.was = v, !.seen = Scan]

PersistInventory ==
    /\ hunt.step = "list" /\ hunt.to_list = {}
    /\ index_rows' = [f \in Shelved |->
          IF \E v \in FileVersion : <<f, v>> \in hunt.batch
          THEN RelistedRow(index_rows[f], CHOOSE v \in FileVersion : <<f, v>> \in hunt.batch)
          ELSE index_rows[f]]
    /\ hunt' = [hunt EXCEPT !.step = "hash", !.batch = {}]
    /\ UNCHANGED <<album, held, hunts, changes>>
-----------------------------------------------------------------------------
\* The hashes.
Seen == {f \in Shelved : index_rows[f].seen = Scan}
SizeTwins ==
    {f \in Seen : \E g \in Seen \ {f} : /\ album.volume[f] = album.volume[g]
                                       /\ SizeOf[index_rows[f].was] = SizeOf[index_rows[g].was]}
Later == {f \in SizeTwins : Rank(f) > hunt.cursor}

\* What is still to be read of a file.
ToRead(sha, look, f) ==
    IF sha = NoBytes THEN "read"
    ELSE IF ~Video(f) /\ look = NoBytes THEN "look"
    ELSE "record"

\* Leaves the file, for the next one.
LeaveFile == [hunt EXCEPT !.step = "hash", !.file = NoBytes, !.sha = NoBytes, !.look = NoBytes,
                     !.doubt = FALSE]

LookAt(f) ==
    /\ hunt.step = "hash" /\ f \in Later /\ \A g \in Later : Rank(f) <= Rank(g)
    /\ LET row == index_rows[f] IN
       hunt' = IF held[f] # row.was THEN [hunt EXCEPT !.cursor = Rank(f)]
               ELSE [hunt EXCEPT !.step = ToRead(row.sha, row.look, f), !.cursor = Rank(f),
                                 !.file = f, !.sha = row.sha, !.look = row.look,
                                 !.doubt = row.doubt]
    /\ UNCHANGED <<album, held, index_rows, hunts, changes>>

ReadBytes ==
    /\ hunt.step = "read"
    /\ hunt' = IF held[hunt.file] = NoBytes THEN LeaveFile
               ELSE LET sha == Pixels[held[hunt.file]] IN
                    [hunt EXCEPT !.sha = sha, !.step = ToRead(sha, hunt.look, hunt.file)]
    /\ UNCHANGED <<album, held, index_rows, hunts, changes>>

\* image::open may fail and the hashes stay empty.
ReadImage ==
    /\ hunt.step = "look"
    /\ \E look \in {NoBytes, held[hunt.file]} :
          hunt' = [hunt EXCEPT !.step = "record",
                               !.look = IF look = NoBytes THEN NoBytes ELSE Pixels[look]]
    /\ UNCHANGED <<album, held, index_rows, hunts, changes>>

RecordHashes ==
    /\ hunt.step = "record"
    /\ LET row == [index_rows[hunt.file] EXCEPT !.sha = hunt.sha, !.look = hunt.look,
                                               !.doubt = hunt.doubt]
       IN IF held[hunt.file] # row.was THEN UNCHANGED <<index_rows, hunts>>
          ELSE /\ index_rows' = [index_rows EXCEPT ![hunt.file] = row]
               /\ hunts' = [hunts EXCEPT ![Scan].files =
                     @ \cup {[file |-> hunt.file, was |-> row.was, sha |-> row.sha,
                              look |-> row.look, doubt |-> row.doubt]}]
    /\ hunt' = LeaveFile
    /\ UNCHANGED <<album, held, changes>>
-----------------------------------------------------------------------------
\* The videos of each profile: the profiles of a volume wait for one another.
VideosOf(p) == {f \in Seen : Video(f) /\ album.owner[f] = p}
Inventory(p) == {<<f, index_rows[f].was>> : f \in VideosOf(p)}
VolumesOf(p) == {album.volume[f] : f \in {g \in Shelved : album.owner[g] = p}}

\* Groups the files; without the tool no videos are compared.
EndHashes(tool) ==
    /\ hunt.step = "hash" /\ Later = {}
    /\ hunt' = IF tool THEN [hunt EXCEPT !.step = "compare",
                                         !.lanes = [p \in {q \in Owners : VideosOf(q) # {}} |->
                                                      "wait"]]
               ELSE [hunt EXCEPT !.step = "complete"]
    /\ UNCHANGED <<album, held, index_rows, hunts, changes>>

\* Fault: any comparison of a completed scan will do.
AnyEarlier(p, inventory) ==
    {s \in 1..(Scan - 1) : /\ hunts[s].status = "completed" /\ hunts[s].depth = hunts[Scan].depth
                           /\ hunts[s].jobs[p].status = "completed"}

\* The scans whose comparison of the profile can be taken over.
Reusable(p, inventory) ==
    {s \in 1..(Scan - 1) : /\ hunts[s].status = "completed" /\ hunts[s].depth = hunts[Scan].depth
                           /\ hunts[s].jobs[p].status = "completed"
                           /\ hunts[s].jobs[p].inventory = inventory}

\* The candidates of an earlier scan become this one's.
TakenOver(job, from) ==
    [job EXCEPT !.status = "completed", !.pairs = from.pairs, !.shifted = from.shifted]

SetLane(p, step) == hunt' = [hunt EXCEPT !.lanes[p] = step]
SetJob(p, job) == hunts' = [hunts EXCEPT ![Scan].jobs[p] = job]

BeginJob(p) ==
    /\ hunt.step = "compare" /\ p \in DOMAIN hunt.lanes /\ hunt.lanes[p] = "wait"
    /\ \A q \in DOMAIN hunt.lanes :
          VolumesOf(p) \cap VolumesOf(q) # {} => hunt.lanes[q] \in {"wait", "done"}
    /\ LET inventory == Inventory(p)
           job == [NotCompared EXCEPT !.inventory = inventory]
           earlier == Reusable(p, inventory)
       IN IF Cardinality(inventory) < 2
          THEN SetJob(p, [job EXCEPT !.status = "completed"]) /\ SetLane(p, "done")
          ELSE IF earlier # {}
          THEN LET from == hunts[CHOOSE s \in earlier : \A t \in earlier : t <= s].jobs[p]
               IN SetJob(p, TakenOver(job, from)) /\ SetLane(p, "done")
          ELSE SetJob(p, [job EXCEPT !.status = "running"]) /\ SetLane(p, "run")
    /\ UNCHANGED <<album, held, index_rows, changes>>

\* What it writes about the files that are there: those that resemble each other.
Results(there) ==
    LET Match(f, g) ==
          f # g /\ <<Pixels[held[f]], Pixels[held[g]]>> \in Alike[hunts[Scan].depth]
    IN {pair \in SUBSET there : \E f, g \in pair : pair = {f, g} /\ Match(f, g)}

\* The process reads what is there now.
CompareVideos(p) ==
    /\ hunt.step = "compare" /\ p \in DOMAIN hunt.lanes /\ hunt.lanes[p] = "run"
    /\ LET there == {f \in Shelved : Video(f) /\ album.owner[f] = p /\ held[f] # NoBytes}
       IN SetJob(p, [hunts[Scan].jobs[p] EXCEPT
                     !.pairs = Results(there),
                     !.shifted = {<<f, held[f]>> : f \in there} # hunts[Scan].jobs[p].inventory])
    /\ SetLane(p, "import")
    /\ UNCHANGED <<album, held, index_rows, changes>>

\* It fails, and the scan goes on without it.
CompareFails(p) ==
    /\ hunt.step = "compare" /\ p \in DOMAIN hunt.lanes /\ hunt.lanes[p] = "run"
    /\ SetJob(p, [hunts[Scan].jobs[p] EXCEPT !.status = "failed"]) /\ SetLane(p, "done")
    /\ UNCHANGED <<album, held, index_rows, changes>>

ImportPairs(p) ==
    /\ hunt.step = "compare" /\ p \in DOMAIN hunt.lanes /\ hunt.lanes[p] = "import"
    /\ SetJob(p, [hunts[Scan].jobs[p] EXCEPT !.status = "completed"]) /\ SetLane(p, "done")
    /\ UNCHANGED <<album, held, index_rows, changes>>

EndLanes ==
    /\ hunt.step = "compare" /\ \A p \in DOMAIN hunt.lanes : hunt.lanes[p] = "done"
    /\ hunt' = [hunt EXCEPT !.step = "complete"]
    /\ UNCHANGED <<album, held, index_rows, hunts, changes>>
-----------------------------------------------------------------------------
CompleteHunt ==
    /\ hunt.step = "complete"
    /\ hunts' = [hunts EXCEPT ![Scan].status = "completed",
                              ![Scan].stood = {<<f, held[f]>> : f \in hunt.steady}]
    /\ hunt' = [hunt EXCEPT !.step = "totals"]
    /\ UNCHANGED <<album, held, index_rows, changes>>

HuntDone ==
    /\ hunt.step = "totals" /\ hunt' = NoHunt
    /\ UNCHANGED <<album, held, index_rows, hunts, changes>>

\* A cancellation seen, an error of the database or of a lane, or the end of the process:
\* nothing reads what it found.
HuntEnds ==
    /\ hunt # NoHunt /\ hunt' = NoHunt
    /\ hunts' = [hunts EXCEPT ![Scan] = [@ EXCEPT !.status = "ended", !.files = {}, !.stood = {},
                                                  !.jobs = [p \in Owners |-> NotCompared]]]
    /\ UNCHANGED <<album, held, index_rows, changes>>

HuntsNext ==
    \/ \E f \in Shelved : \E v \in CanBecome[f] : FileChanges(f, v)
    \/ \E depth \in Depth : BeginHunt(depth)
    \/ \E f \in Shelved : ListFile(f) \/ LookAt(f)
    \/ PersistInventory \/ ReadBytes \/ ReadImage \/ RecordHashes
    \/ \E tool \in BOOLEAN : EndHashes(tool)
    \/ \E p \in Owners : BeginJob(p) \/ CompareVideos(p) \/ CompareFails(p) \/ ImportPairs(p)
    \/ EndLanes \/ CompleteHunt \/ HuntDone \/ HuntEnds

HuntsSpec == HuntsInit /\ [][HuntsNext]_hunt_vars
-----------------------------------------------------------------------------
\* The result.
Equal(r, s) ==
    /\ album.volume[r.file] = album.volume[s.file]
    /\ SizeOf[r.was] = SizeOf[s.was] /\ r.sha = s.sha

\* Whether the image hashes of two files are close.
Resemble(r, s) ==
    /\ album.owner[r.file] = album.owner[s.file]
    /\ NoBytes \notin {r.look, s.look} /\ r.sha # s.sha
    /\ <<r.look, s.look>> \in Alike["image"]

\* The videos of a profile that are shown as alike.
VideoPairs(s, p) == IF s.jobs[p].status = "completed" THEN s.jobs[p].pairs ELSE {}

\* The groups of images: in path order, the first file that is in no group yet and
\* the others of that kind that resemble it.
Unconsumed(files, groups) == files \ UNION groups

Grouped(files, groups, name) ==
    LET heads == {r \in Unconsumed(files, groups) : r.file = name}
        new == {{s \in Unconsumed(files, groups) : s = r \/ Resemble(r, s)} : r \in heads}
    IN groups \cup {g \in new : Cardinality(g) > 1}

ImageGroups(files) ==
    LET upto[n \in 0..Len(Shelf)] ==
            IF n = 0 THEN {} ELSE Grouped(files, upto[n - 1], Shelf[n])
    IN upto[Len(Shelf)]
-----------------------------------------------------------------------------
\* What the cleanup window shows: the last scan that completed.
LastResult ==
    LET done == {s \in 1..Len(hunts) : hunts[s].status = "completed"}
    IN {hunts[s] : s \in {t \in done : \A u \in done : u <= t}}

Still(r) == held[r.file] = r.was /\ ~r.doubt

\* Files shown as equal, unchanged since, are equal; and so are those shown as alike,
\* unless the folder had changed between the inventory and the comparison, of that scan
\* or of the one whose comparison it took over.
ShownIsSo(s) ==
    /\ \A r, t \in s.files :
          Equal(r, t) /\ Still(r) /\ Still(t) => Pixels[held[r.file]] = Pixels[held[t.file]]
    /\ \A p \in DOMAIN s.jobs : \A f, g \in Shelved :
          LET job == s.jobs[p] IN
          /\ ~job.shifted /\ f # g /\ {f, g} \in VideoPairs(s, p)
          /\ {<<f, held[f]>>, <<g, held[g]>>} \subseteq job.inventory
          => <<Pixels[held[f]], Pixels[held[g]]>> \in Alike[s.depth]
    /\ \A group \in ImageGroups(s.files) : \E head \in group : \A r \in group \ {head} :
          Still(head) /\ Still(r) =>
             <<Pixels[held[head.file]], Pixels[held[r.file]]>> \in Alike["image"]

\* Equal files that stood still during the scan are shown as equal, videos that are
\* alike as alike; of two hashed images that are, one at least is in a group, none in two.
SoIsShown(s) ==
    /\ \A a, b \in s.stood :
          /\ a[1] # b[1] /\ NoBytes \notin {a[2], b[2]}
          /\ album.volume[a[1]] = album.volume[b[1]]
          /\ Pixels[a[2]] = Pixels[b[2]]
          => \E r, t \in s.files : /\ r.file = a[1] /\ t.file = b[1]
                                    /\ (Equal(r, t) \/ r.doubt \/ t.doubt)
    /\ \A p \in DOMAIN s.jobs : \A a, b \in s.stood :
          /\ s.jobs[p].status = "completed"
          /\ a[1] # b[1] /\ NoBytes \notin {a[2], b[2]}
          /\ album.owner[a[1]] = p /\ album.owner[b[1]] = p /\ Video(a[1]) /\ Video(b[1])
          /\ <<Pixels[a[2]], Pixels[b[2]]>> \in Alike[s.depth]
          => s.jobs[p].shifted \/ {a[1], b[1]} \in VideoPairs(s, p)
    /\ LET groups == ImageGroups(s.files) IN
       /\ \A g, h \in groups : g # h => g \cap h = {}
       /\ \A r, t \in s.files : r # t /\ Resemble(r, t) => \E g \in groups : {r, t} \cap g # {}

\* The result of a scan is true of the files and leaves out nothing it should have found,
\* although it takes over hashes and comparisons of earlier scans and the files change
\* while it runs.
FoundAndShown == \A s \in LastResult : ShownIsSo(s) /\ SoIsShown(s)
=============================================================================
