------------------------------ MODULE YoutubeScan ------------------------------
(***************************************************************************)
(* A YouTube sync (youtube_connector.rs and execute_youtube in sync.rs):   *)
(* each tab of the channel is listed whole, the videos that are not in the *)
(* post ledger are downloaded in batches, and the ledgers are written.     *)
(* Whatever failed, the run ends as succeeded.                             *)
(***************************************************************************)
EXTENDS UpstreamPresence

CONSTANTS
    Tabs,          \* the tabs the profile enables
    Shorts,        \* posts of the shorts tab
    YoutubeBatch   \* DOWNLOAD_BATCH_SIZE

ASSUME YoutubeAssumption ==
    /\ Tabs \subseteq {"videos", "shorts"} /\ Tabs # {}
    /\ Shorts \subseteq Post
    /\ YoutubeBatch \in Nat \ {0}

Tab == [p \in Post |-> IF p \in Shorts THEN "shorts" ELSE "videos"]
OfTab(tab) == {p \in shown : Tab[p] = tab}

\* execute_youtube up to the connector: the ledgers are loaded, the deletions are
\* not.
YoutubeStart ==
    /\ NoScan
    /\ scan' = [step |-> "list", from |-> published, todo |-> Tabs, keys |-> Known,
                media_keys |-> media, deleted |-> tombs,
                history |-> Known \cup media \cup held # {}, posts |-> {}, gone |-> FALSE, limited |-> FALSE,
                queue |-> {}, got |-> {}, errors |-> FALSE]
    /\ UNCHANGED <<published, shown, held, media, ledger, tombs, left, trouble, blame>>

\* enumerate_posts of a tab: all of it; with a rate limit; less than all with
\* nothing to show for it; or nothing, with a word that the channel is gone.
YoutubeList ==
    /\ ~NoScan /\ scan.step = "list"
    /\ \E tab \in scan.todo, posts \in SUBSET shown, limited, dead \in BOOLEAN :
         /\ posts \subseteq OfTab(tab) /\ (dead => posts = {})
         /\ scan' = [scan EXCEPT !.todo = @ \ {tab}, !.posts = @ \cup posts,
                                 !.limited = @ \/ limited, !.gone = @ \/ dead,
                                 !.step = IF scan.todo = {tab} THEN "settle" ELSE "list"]
         /\ IF posts = OfTab(tab) /\ ~limited THEN UNCHANGED trouble ELSE Happens
         /\ blame' = IF posts = OfTab(tab) \/ limited THEN blame ELSE blame \cup {"short"}
    /\ UNCHANGED <<published, shown, held, media, ledger, tombs, left>>

\* A channel that is gone ends the sync unless something is known of it; else the
\* videos that are not in the post ledger are queued.
YoutubeSelect ==
    /\ ~NoScan /\ scan.step = "settle"
    /\ scan' = IF scan.posts = {} /\ scan.gone /\ ~scan.history THEN Idle
               ELSE [scan EXCEPT !.step = "batch", !.queue = scan.posts \ scan.keys]
    /\ UNCHANGED <<published, shown, held, media, ledger, tombs, left, trouble, blame>>

\* finalize_media_file: a file that is there already is not replaced.
NotThere(posts) == posts \ held

\* download_batch: what may come of a batch.
Arrivals(batch) == SUBSET NotThere(batch)

\* A file whose name is in the media ledger is kept but not counted.  A video that
\* does not come is no error.
YoutubeDownload ==
    /\ ~NoScan /\ scan.step = "batch" /\ scan.queue # {}
    /\ LET next == Chunk(scan.queue, YoutubeBatch)
           rest == scan.queue \ next
       IN  \E came \in Arrivals(next), limited, failed \in BOOLEAN :
             LET gives_up == limited /\ rest # {} IN
             /\ failed => came = {} /\ ~limited
             /\ held' = held \cup came
             /\ scan' = [scan EXCEPT !.queue = IF gives_up THEN {} ELSE rest,
                                     !.got = @ \cup (came \ scan.media_keys),
                                     !.limited = @ \/ limited,
                                     !.errors = @ \/ failed \/ gives_up]
             /\ IF came = NotThere(next) /\ ~limited /\ ~failed THEN UNCHANGED trouble ELSE Happens
             /\ blame' = IF came \cap tombs \subseteq scan.deleted THEN blame
                         ELSE blame \cup {"overtaken"}
    /\ UNCHANGED <<published, shown, media, ledger, tombs, left>>

\* evaluate_youtube_upstream_presence: only what was downloaded now is seen.
YoutubeQualification ==
    [full      |-> TRUE,
     filtered  |-> FALSE,
     truncated |-> scan.limited \/ scan.errors,
     sections  |-> Tabs,
     observed  |-> scan.got]

\* The post ledger and the verdict, which passes over what was known.
YoutubeRecordPosts ==
    /\ ~NoScan /\ scan.step = "batch" /\ scan.queue = {}
    /\ LET q == YoutubeQualification
           rs == Recorded(scan.got, Tab)
       IN  /\ Presence(q, rs)
           /\ blame' = IF Qualifies(q) /\ Judged(q, rs) \cap scan.posts \subseteq scan.got
                       THEN blame
                       ELSE IF Qualifies(q) THEN blame \cup {"unseen"} ELSE blame
    /\ scan' = [scan EXCEPT !.step = "media"]
    /\ UNCHANGED <<published, shown, held, media, tombs, trouble>>

\* The media ledger, and the run.
YoutubeRecordMedia ==
    /\ ~NoScan /\ scan.step = "media"
    /\ media' = media \cup scan.got
    /\ scan' = Idle
    /\ UNCHANGED <<published, shown, held, ledger, tombs, left, trouble, blame>>

\* Cancelled, timed out or crashed: nothing is recorded of what arrived.
YoutubeStop ==
    /\ ~NoScan
    /\ Happens
    /\ scan' = Idle
    /\ UNCHANGED <<published, shown, held, media, ledger, tombs, left, blame>>

\* Without a row in the post ledger the deletion is not known to the next sync.
YoutubeDelete(p) ==
    /\ DeleteMedium(p, Tab[p])
    /\ blame' = IF ledger'[p] = NoRow THEN blame \cup {"unrecorded"} ELSE blame

YoutubeNext ==
    \/ YoutubeStart \/ YoutubeList \/ YoutubeSelect \/ YoutubeDownload
    \/ YoutubeRecordPosts \/ YoutubeRecordMedia \/ YoutubeStop
    \/ \E p \in Post : YoutubeDelete(p)
    \/ AuthorStep

YoutubeSpec == PresenceInit /\ [][YoutubeNext]_profile_vars
=============================================================================
