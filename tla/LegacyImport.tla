----------------------------- MODULE LegacyImport -----------------------------
(***************************************************************************)
(* The import of the folders that an older program, SCrawler, left behind  *)
(* (import_runtime.rs, import.rs): a queue with one worker, a preview that *)
(* matches folders with profiles, one transaction per folder, the ledgers  *)
(* seeded from the folder's catalogue, and the date from which a profile   *)
(* with an import is synced.  The user edits profiles and syncs them while *)
(* an import runs.                                                         *)
(***************************************************************************)
EXTENDS Naturals, Sequences, FiniteSets

CONSTANTS
    LegacyFolder,
    XmlHandle,      \* the handle each folder's XML names
    HandMade,       \* the folder of a profile that the user adds with a handle
    Certain,        \* folders whose XML names one account
    FirstFiles,     \* the posts each folder has files of
    Catalogued,     \* the posts each folder's XML lists
    LastPost, FirstPublished, MaxProfiles, MaxJobs, MaxDeeds

ASSUME ImportAssumption ==
    /\ Certain \subseteq LegacyFolder
    /\ FirstPublished \in 0..LastPost
    /\ {LastPost, MaxProfiles, MaxJobs, MaxDeeds} \subseteq Nat
    /\ XmlHandle \in [LegacyFolder -> DOMAIN HandMade]  \* any handle can be typed in
    /\ FirstFiles \in [LegacyFolder -> SUBSET (1..LastPost)]
    /\ Catalogued \in [LegacyFolder -> SUBSET (1..LastPost)]
    /\ "none" \notin LegacyFolder \cup {HandMade[h] : h \in DOMAIN HandMade}

VARIABLES
    profiles,   \* the rows of source_profiles, the deleted ones included
    ledgers,    \* the posts each profile's ledgers know
    erased,     \* the posts the user deleted from each profile
    kept,       \* the posts each folder has files of
    legacy,     \* the folders that still have their XML
    imported,   \* external_import_ledger: folders imported once
    jobs, current_job, worker,
    review,     \* what the running import or backfill has still to do
    syncing,    \* the sync that runs
    published,  \* the posts so far; a post's number is its date
    due,        \* the posts each profile's finished syncs had to leave it with
    excuses,    \* what has happened to each profile that leaves it without some
    job_orders, deeds

import_vars ==
    <<profiles, ledgers, erased, kept, legacy, imported, jobs, current_job, worker, review,
      syncing, published, due, excuses, job_orders, deeds>>

Post == 1..LastPost
SourceRow == 1..MaxProfiles
Folder == LegacyFolder \cup {HandMade[h] : h \in DOMAIN HandMade}
Dates == 0..LastPost
NoRow == [live |-> FALSE, handle |-> "none", home |-> "none", stamp |-> 0, first |-> 0,
          by_import |-> FALSE, special |-> FALSE]
NoJob == [kind |-> "none"]
NoReview == [todo |-> {}]
NoSync == [of |-> 0]
Excuse == {"joined", "reimported", "shared"}

Live == {p \in SourceRow : profiles[p].live}
Home(p) == profiles[p].home

\* The profiles that a folder belongs to once p has it too, if others do.
Sharers(p, f) == LET others == {q \in Live \ {p} : Home(q) = f}
                 IN IF others = {} THEN {} ELSE others \cup {p}

ImportTypeOK ==
    /\ \A p \in SourceRow : profiles[p] = NoRow \/
          /\ profiles[p].handle \in DOMAIN HandMade /\ Home(p) \in Folder
          /\ {profiles[p].stamp, profiles[p].first} \subseteq Dates
    /\ ledgers \in [SourceRow -> SUBSET Post] /\ erased \in [SourceRow -> SUBSET Post]
    /\ kept \in [Folder -> SUBSET Post]
    /\ legacy \subseteq LegacyFolder /\ imported \subseteq LegacyFolder
    /\ Len(jobs) <= 3 /\ worker \in {"none", "next", "run", "folders"}
    /\ current_job # NoJob => worker # "none" /\ \A i \in DOMAIN jobs : jobs[i].kind # current_job.kind
    /\ published \in Dates
    /\ due \in [SourceRow -> SUBSET Post] /\ excuses \in [SourceRow -> SUBSET Excuse]

ImportInit ==
    /\ profiles = [p \in SourceRow |-> NoRow]
    /\ ledgers = [p \in SourceRow |-> {}] /\ erased = [p \in SourceRow |-> {}]
    /\ kept = [f \in Folder |-> IF f \in LegacyFolder THEN FirstFiles[f] ELSE {}]
    /\ legacy = LegacyFolder /\ imported = {}
    /\ jobs = << >> /\ current_job = NoJob /\ worker = "none" /\ review = NoReview
    /\ syncing = NoSync /\ published = FirstPublished
    /\ due = [p \in SourceRow |-> {}] /\ excuses = [p \in SourceRow |-> {}]
    /\ job_orders = 0 /\ deeds = 0
-----------------------------------------------------------------------------
\* The queue: one job of a kind at a time, waiting or running.
Job == [kind : {"preview", "backfill"}]
       \cup [kind : {"import"}, roots : (SUBSET LegacyFolder) \ {{}}, force : BOOLEAN,
             link : BOOLEAN]

EnqueueImport(j) ==
    /\ job_orders < MaxJobs /\ job_orders' = job_orders + 1
    /\ jobs' = IF current_job.kind = j.kind \/ \E i \in DOMAIN jobs : jobs[i].kind = j.kind
               THEN jobs ELSE Append(jobs, j)
    /\ worker' = IF worker = "none" THEN "next" ELSE worker
    /\ UNCHANGED <<profiles, ledgers, erased, kept, legacy, imported, current_job, review,
                   syncing, published, due, excuses, deeds>>

TakeJob ==
    /\ worker = "next"
    /\ IF jobs = << >>
       THEN current_job' = NoJob /\ worker' = "none" /\ UNCHANGED jobs
       ELSE current_job' = Head(jobs) /\ jobs' = Tail(jobs) /\ worker' = "run"
    /\ UNCHANGED <<profiles, ledgers, erased, kept, legacy, imported, review, syncing,
                   published, due, excuses, job_orders, deeds>>

\* A preview changes nothing; a job that fails ends as one that succeeds.
FinishJob ==
    /\ worker = "run" => current_job.kind = "preview"
    /\ worker \in {"run", "folders"} /\ review.todo = {}
    /\ worker' = "next" /\ current_job' = NoJob /\ review' = NoReview
    /\ UNCHANGED <<profiles, ledgers, erased, kept, legacy, imported, jobs, syncing,
                   published, due, excuses, job_orders, deeds>>
-----------------------------------------------------------------------------
\* The preview.
OfHandle(h) == {p \in Live : profiles[p].handle = h}

\* A folder is found under the roots by its XML.
Candidates(roots) == roots \cap legacy
Duplicate(f, candidates) == \E g \in candidates \ {f} : XmlHandle[g] = XmlHandle[f]
NoMedia(f) == kept[f] = {}

Reviewed(f, candidates, force) ==
    LET match == OfHandle(XmlHandle[f])
    IN [already |-> f \in imported,
        source |-> IF match = {} THEN 0 ELSE CHOOSE p \in match : TRUE,
        state |-> IF Duplicate(f, candidates) THEN "duplicate_conflict"
                  ELSE IF NoMedia(f) THEN "no_media"
                  ELSE IF f \in imported /\ ~force THEN "already_imported"
                  ELSE IF match = {} /\ f \notin Certain THEN "needs_account_link"
                  ELSE "ready"]

\* Which folders the run will work on is settled here, before their transactions.
StartImport ==
    /\ worker = "run" /\ current_job.kind = "import"
    /\ LET found == Candidates(current_job.roots)
           seen == [f \in found |-> Reviewed(f, found, current_job.force)]
       IN review' = [todo |-> {f \in found : \/ seen[f].state = "ready"
                                             \/ seen[f].state = "needs_account_link" /\ current_job.link},
                     seen |-> seen]
    /\ worker' = "folders"
    /\ UNCHANGED <<profiles, ledgers, erased, kept, legacy, imported, jobs, current_job, syncing,
                   published, due, excuses, job_orders, deeds>>

\* The posts that the folder's catalogue lists, and those of them it has a file of.
Entries(f) == IF f \in legacy THEN Catalogued[f] ELSE {}

\* Fault: what the catalogue lists is taken for what the folder has.
RecordsOfCatalogue(f) == Entries(f)

Records(f) == Entries(f) \cap kept[f]

Recorded(p, posts) == ledgers' = [ledgers EXCEPT ![p] = @ \cup posts]
Seeded(p, f) == Recorded(p, Records(f))

Free == {p \in SourceRow : profiles[p] = NoRow}
NextRow == CHOOSE p \in Free : \A q \in Free : p <= q

\* A new profile: not when the user has added one with the handle since.
MayAdd(f) == Free # {} /\ OfHandle(XmlHandle[f]) = {}

NewProfile(f) == [NoRow EXCEPT !.live = TRUE, !.handle = XmlHandle[f], !.home = f,
                               !.special = TRUE]

\* What the import of a folder into a profile writes: the profile's import date, and
\* its ledgers.
Stamped(p, f, new) ==
    LET first == IF new.first = 0 THEN published ELSE new.first
    IN /\ profiles' = [profiles EXCEPT ![p] = [new EXCEPT !.stamp = published, !.by_import = TRUE,
                                                          !.first = first]]
       /\ Seeded(p, f)
       /\ imported' = imported \cup {f}
       /\ excuses' = [q \in SourceRow |-> excuses[q]
              \cup (IF q = p /\ new.home # f THEN {"joined"} ELSE {})
              \cup (IF q = p /\ first < published THEN {"reimported"} ELSE {})
              \cup (IF q \in Sharers(p, new.home) THEN {"shared"} ELSE {})]

\* One folder's transaction: committed, or rolled back when the profile of the preview
\* is gone, the handle is taken, or the folder has lost its media.
ImportFolder(f) ==
    /\ worker = "folders" /\ current_job.kind = "import" /\ f \in review.todo
    /\ review' = [review EXCEPT !.todo = @ \ {f}]
    /\ LET p == review.seen[f].source
       IN \/ /\ p \in Live /\ ~NoMedia(f)
             /\ Stamped(p, f, profiles[p])
          \/ /\ p = 0 /\ ~NoMedia(f) /\ MayAdd(f)
             /\ Stamped(NextRow, f, NewProfile(f))
          \/ /\ \/ NoMedia(f)
                \/ p # 0 /\ p \notin Live
                \/ p = 0 /\ ~MayAdd(f)
             /\ UNCHANGED <<profiles, ledgers, imported, excuses>>
    /\ UNCHANGED <<erased, kept, legacy, jobs, current_job, worker, syncing, published, due,
                   job_orders, deeds>>

\* The naming backfill seeds the ledgers of every profile from its own folder.
StartBackfill ==
    /\ worker = "run" /\ current_job.kind = "backfill"
    /\ review' = [todo |-> Live] /\ worker' = "folders"
    /\ UNCHANGED <<profiles, ledgers, erased, kept, legacy, imported, jobs, current_job, syncing,
                   published, due, excuses, job_orders, deeds>>

BackfillProfile(p) ==
    /\ worker = "folders" /\ current_job.kind = "backfill" /\ p \in review.todo
    /\ review' = [review EXCEPT !.todo = @ \ {p}]
    /\ Seeded(p, Home(p))
    /\ UNCHANGED <<profiles, erased, kept, legacy, imported, jobs, current_job, worker,
                   syncing, published, due, excuses, job_orders, deeds>>
-----------------------------------------------------------------------------
\* What the user does meanwhile.
Deed == deeds < MaxDeeds /\ deeds' = deeds + 1

AddByHand(h) ==
    /\ Deed /\ Free # {} /\ OfHandle(h) = {}
    /\ profiles' = [profiles EXCEPT ![NextRow] = [NoRow EXCEPT !.live = TRUE, !.handle = h,
                                                               !.home = HandMade[h]]]
    /\ excuses' = [q \in SourceRow |-> IF q \in Sharers(NextRow, HandMade[h])
                                 THEN excuses[q] \cup {"shared"} ELSE excuses[q]]
    /\ UNCHANGED <<ledgers, erased, kept, legacy, imported, jobs, current_job, worker, review,
                   syncing, published, due, job_orders>>

\* A profile that an import made keeps its folder whatever its handle (the others'
\* folders are named after the handle: MediaPathMigration).
GiveHandle(p, h) ==
    /\ Deed /\ p \in Live /\ profiles[p].special /\ OfHandle(h) = {}
    /\ profiles' = [profiles EXCEPT ![p].handle = h]
    /\ UNCHANGED <<ledgers, erased, kept, legacy, imported, jobs, current_job, worker, review,
                   syncing, published, due, excuses, job_orders>>

\* The user deletes a profile and keeps its files, or has them deleted with it.
RemoveProfile(p, with_files) ==
    /\ Deed /\ p \in Live /\ syncing.of # p
    /\ profiles' = [profiles EXCEPT ![p].live = FALSE]
    /\ IF with_files
       THEN /\ kept' = [kept EXCEPT ![Home(p)] = {}]
            /\ legacy' = legacy \ {Home(p)}
       ELSE UNCHANGED <<kept, legacy>>
    /\ UNCHANGED <<ledgers, erased, imported, jobs, current_job, worker, review, syncing,
                   published, due, excuses, job_orders>>

EraseMedia(p, n) ==
    /\ Deed /\ p \in Live /\ n \in kept[Home(p)]
    /\ kept' = [kept EXCEPT ![Home(p)] = @ \ {n}]
    /\ erased' = [erased EXCEPT ![p] = @ \cup {n}]
    /\ Recorded(p, {n})
    /\ UNCHANGED <<profiles, legacy, imported, jobs, current_job, worker, review, syncing,
                   published, due, excuses, job_orders>>

Publish ==
    /\ published < LastPost /\ published' = published + 1
    /\ UNCHANGED <<profiles, ledgers, erased, kept, legacy, imported, jobs, current_job, worker,
                   review, syncing, due, excuses, job_orders, deeds>>
-----------------------------------------------------------------------------
\* A profile with an import is synced from the import on, unless a backfill is forced.
ImplicitCutoff(p, force) ==
    IF force \/ ~profiles[p].by_import THEN 0 ELSE profiles[p].stamp

StartSync(p, force) ==
    /\ Deed /\ syncing = NoSync /\ p \in Live
    /\ syncing' = [of |-> p, known |-> ledgers[p], from |-> ImplicitCutoff(p, force),
                   force |-> force, since |-> IF force THEN 0 ELSE profiles[p].first]
    /\ UNCHANGED <<profiles, ledgers, erased, kept, legacy, imported, jobs, current_job, worker,
                   review, published, due, excuses, job_orders>>

\* It fetches what it did not know at its start, and must leave the profile with all
\* that was published since the first import.
FinishSync ==
    /\ syncing # NoSync
    /\ LET p == syncing.of
           new == {n \in 1..published : n > syncing.from} \ syncing.known
       IN /\ kept' = [kept EXCEPT ![Home(p)] = @ \cup new]
          /\ Recorded(p, new)
          /\ due' = [due EXCEPT ![p] = @ \cup {n \in 1..published : n > syncing.since}]
    /\ syncing' = NoSync
    /\ UNCHANGED <<profiles, erased, legacy, imported, jobs, current_job, worker, review,
                   published, excuses, job_orders, deeds>>
-----------------------------------------------------------------------------
ImportNext ==
    \/ \E j \in Job : EnqueueImport(j)
    \/ TakeJob \/ FinishJob \/ StartImport \/ StartBackfill
    \/ \E f \in LegacyFolder : ImportFolder(f)
    \/ \E p \in SourceRow : BackfillProfile(p)
    \/ \E h \in DOMAIN HandMade : AddByHand(h)
    \/ \E p \in SourceRow, h \in DOMAIN HandMade : GiveHandle(p, h)
    \/ \E p \in SourceRow, b \in BOOLEAN : RemoveProfile(p, b) \/ StartSync(p, b)
    \/ \E p \in SourceRow, n \in Post : EraseMedia(p, n)
    \/ Publish \/ FinishSync

ImportSpec == ImportInit /\ [][ImportNext]_import_vars

\* A sync of an imported profile skips what was published before the import and what
\* the ledgers know.  Whatever was imported, renamed, deleted and synced around it, it
\* leaves every later post, and after a forced backfill every post, in the profile's
\* own folder, unless the user deleted it there, a folder was imported into a profile
\* that has another, the import date was moved forward by a second import, or two
\* profiles have one folder.
CaughtUp ==
    \A p \in Live : excuses[p] = {} => due[p] \subseteq kept[Home(p)] \cup erased[p]
=============================================================================
