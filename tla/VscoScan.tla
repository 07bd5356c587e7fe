-------------------------------- MODULE VscoScan --------------------------------
(***************************************************************************)
(* A VSCO sync (vsco_connector.rs and execute_vsco in sync.rs): the parser *)
(* lists the gallery and the journal whole, the media that are in neither  *)
(* the media ledger nor the folder are downloaded one by one, copies of a  *)
(* file that is there are dropped, and the ledgers are written.  Whatever  *)
(* failed, the run ends as succeeded.                                      *)
(***************************************************************************)
EXTENDS UpstreamPresence

CONSTANTS
    VscoSections,  \* the sections the profile enables
    Journaled,     \* posts that are in the journal; the others are in the gallery
    Films,         \* posts whose medium is a video
    SameBytes,     \* posts whose media have the same bytes
    Compares       \* use_md5_comparison

ASSUME VscoAssumption ==
    /\ VscoSections \subseteq {"gallery", "journal"} /\ VscoSections # {}
    /\ Journaled \subseteq Post /\ Films \subseteq Post /\ SameBytes \subseteq Post
    /\ Compares \in BOOLEAN

VARIABLE films  \* download_videos

VscoTypeOK == films \in BOOLEAN

VscoInit == films = TRUE

SectionOf == [p \in Post |-> IF p \in Journaled THEN "journal" ELSE "gallery"]
InSection(section) == {p \in shown : SectionOf[p] = section}

\* execute_vsco up to the connector.
VscoStart ==
    /\ NoScan
    /\ scan' = [step |-> "list", from |-> published, todo |-> VscoSections, films |-> films,
                skip |-> media \cup held, posts |-> {}, errors |-> FALSE,
                queue |-> {}, files |-> {}, got |-> {}, deleted |-> tombs]
    /\ UNCHANGED <<published, shown, held, media, ledger, tombs, left, trouble, blame, films>>

\* run_gallery_dl_parser on a section.  It fails with an error; or it lists some
\* of it, all if nothing went wrong: a parser that dies after a page, or that
\* could not fetch the first one, is not told from one that saw everything.
VscoList ==
    /\ ~NoScan /\ scan.step = "list"
    /\ \E section \in scan.todo :
        LET listed(posts, error) ==
              scan' = [scan EXCEPT !.todo = @ \ {section}, !.posts = @ \cup posts,
                                   !.errors = @ \/ error,
                                   !.step = IF scan.todo = {section} THEN "plan" ELSE "list"]
        IN \/ /\ Happens
              /\ listed({}, TRUE)
              /\ UNCHANGED blame
           \/ \E posts \in SUBSET InSection(section) :
                /\ listed(posts, FALSE)
                /\ IF posts = InSection(section) THEN UNCHANGED <<trouble, blame>>
                   ELSE Happens /\ blame' = blame \cup {"short"}
    /\ UNCHANGED <<published, shown, held, media, ledger, tombs, left, films>>

\* The listed posts of a type the user wants.
VscoWanted == {p \in scan.posts : scan.films \/ p \notin Films}

\* Those that are neither recorded nor there are queued, and the files of the
\* profile are hashed (seed_existing_hashes).
VscoPlan ==
    /\ ~NoScan /\ scan.step = "plan"
    /\ scan' = [scan EXCEPT !.step = "fetch", !.queue = VscoWanted \ scan.skip,
                            !.files = IF Compares THEN held ELSE {}]
    /\ UNCHANGED <<published, shown, held, media, ledger, tombs, left, trouble, blame, films>>

IsCopy(p) == p \in SameBytes /\ scan.files \cap SameBytes # {}

\* download_asset: a copy of a file that was there goes again and counts as that
\* file.
VscoDownload ==
    /\ ~NoScan /\ scan.step = "fetch"
    /\ \E p \in Chunk(scan.queue, 1) :
         \/ /\ scan' = [scan EXCEPT !.queue = @ \ {p}, !.got = @ \cup {p},
                                    !.files = IF Compares THEN @ \cup {p} ELSE @]
            /\ held' = IF IsCopy(p) THEN held ELSE held \cup {p}
            /\ blame' = IF p \in tombs \ scan.deleted THEN blame \cup {"overtaken"} ELSE blame
            /\ UNCHANGED trouble
         \/ /\ scan' = [scan EXCEPT !.queue = @ \ {p}, !.errors = TRUE]
            /\ Happens
            /\ UNCHANGED <<held, blame>>
    /\ UNCHANGED <<published, shown, media, ledger, tombs, left, films>>

\* completed_observed_posts.
VscoObserved == VscoWanted \cap (scan.skip \cup scan.got)

\* evaluate_vsco_upstream_presence.
VscoQualification ==
    [full      |-> TRUE,
     filtered  |-> FALSE,
     truncated |-> scan.errors,
     sections  |-> VscoSections \cap {"gallery"},
     observed  |-> VscoObserved]

\* The post ledger and the verdict, which takes what the user does not want now
\* for gone.
VscoRecordPosts ==
    /\ ~NoScan /\ scan.step = "fetch" /\ scan.queue = {}
    /\ LET q == VscoQualification
           rs == Recorded(VscoObserved, SectionOf)
       IN  /\ Presence(q, rs)
           /\ blame' = IF Qualifies(q) /\ (Judged(q, rs) \cap scan.posts) \ VscoWanted # {}
                       THEN blame \cup {"unseen"} ELSE blame
    /\ scan' = [scan EXCEPT !.step = "media"]
    /\ UNCHANGED <<published, shown, held, media, tombs, trouble, films>>

\* The media ledger, and the run.
VscoRecordMedia ==
    /\ ~NoScan /\ scan.step = "media"
    /\ media' = media \cup scan.got
    /\ scan' = Idle
    /\ UNCHANGED <<published, shown, held, ledger, tombs, left, trouble, blame, films>>

\* Cancelled or crashed: nothing is recorded of what arrived.
VscoStop ==
    /\ ~NoScan
    /\ Happens
    /\ scan' = Idle
    /\ UNCHANGED <<published, shown, held, media, ledger, tombs, left, blame, films>>

VscoToggle ==
    /\ Happens
    /\ films' = ~films
    /\ UNCHANGED <<published, shown, held, media, ledger, tombs, scan, left, blame>>

\* A download goes by the media ledger, which a stopped sync does not write.
VscoDelete(p) ==
    /\ DeleteMedium(p, SectionOf[p])
    /\ blame' = IF p \in media THEN blame ELSE blame \cup {"unrecorded"}
    /\ UNCHANGED films

VscoNext ==
    \/ VscoStart \/ VscoList \/ VscoPlan \/ VscoDownload
    \/ VscoRecordPosts \/ VscoRecordMedia \/ VscoStop
    \/ VscoToggle
    \/ \E p \in Post : VscoDelete(p)
    \/ AuthorStep /\ UNCHANGED films

VscoSpec == PresenceInit /\ VscoInit /\ [][VscoNext]_<<profile_vars, films>>
=============================================================================
