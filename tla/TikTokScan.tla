------------------------------- MODULE TikTokScan -------------------------------
(***************************************************************************)
(* A TikTok sync (tiktok_connector.rs and execute_tiktok in sync.rs): the  *)
(* ledgers are first brought in line with the folder, the timeline is      *)
(* listed whole, through the handle or a saved secUid and through the      *)
(* signed-in session when both fail, the posts that are not in the ledger  *)
(* are downloaded in batches and retried, and the ledgers are written.     *)
(* Timeline only: the dates and the types the user may leave out, stories, *)
(* reposts and likes are not here.                                         *)
(***************************************************************************)
EXTENDS UpstreamPresence

CONSTANTS
    Refresh,    \* refresh_existing_media_stats
    BatchSize   \* DOWNLOAD_BATCH_SIZE

ASSUME TikTokAssumption == Refresh \in BOOLEAN /\ BatchSize \in Nat \ {0}

VARIABLES
    hint,     \* a secUid is saved: the listing does not need the handle
    renamed,  \* the author has another handle than the profile
    flawed    \* media of the folder to be fetched anew: no picture, or a carousel without its sound

tiktok_vars == <<hint, renamed, flawed>>

TikTokTypeOK ==
    /\ hint \in BOOLEAN
    /\ renamed \in BOOLEAN
    /\ flawed \subseteq held

TikTokInit == hint = FALSE /\ renamed = FALSE /\ flawed = {}

Timeline == [p \in Post |-> "timeline"]

----------------------------------------------------------------------------
\* purge_provider_ledgers_missing_on_disk: a medium whose file is gone is not
\* recorded, nor a post without a medium.
PurgeMissing ==
    /\ media' = media \cap held
    /\ ledger' = [p \in Post |-> IF p \in held THEN ledger[p] ELSE NoRow]

\* execute_tiktok up to the reconciliation, and its first half.
TikTokStart ==
    /\ NoScan
    /\ PurgeMissing
    /\ scan' = [step |-> "recover", from |-> published, span |-> 1..published]
    /\ UNCHANGED <<published, shown, held, tombs, left, trouble, blame, tiktok_vars>>

\* Fault: the deletions of the user are not among them.
DoneWithoutTombs(rs) == {p \in Post : rs[p] # NoRow} \ flawed

\* What the sync takes for done, from the post ledger rs.
DoneKeys(rs) == ({p \in Post : rs[p] # NoRow} \ flawed) \cup tombs

\* reconcile_tiktok_provider_ledgers: the files nobody recorded are, and the keys
\* of the sync are loaded.
TikTokRecover ==
    /\ ~NoScan /\ scan.step = "recover"
    /\ LET rs == Recorded(held, Timeline) IN
       /\ ledger' = rs
       /\ scan' = [step |-> "list", from |-> scan.from, span |-> scan.span,
                   keys |-> DoneKeys(rs), deleted |-> tombs, flawed |-> flawed,
                   history |-> held \cup DoneKeys(rs) # {},
                   hinted |-> hint, posts |-> {}, limited |-> FALSE, error |-> "none",
                   resolved |-> FALSE, queue |-> {}, chosen |-> {}, got |-> {},
                   errors |-> FALSE, aborted |-> FALSE, observed |-> {}]
    /\ media' = held
    /\ UNCHANGED <<published, shown, held, tombs, left, trouble, blame, tiktok_vars>>

----------------------------------------------------------------------------
\* enumerate_posts.  It may end early with a rate limit, with an error, or with
\* less than all and nothing to show for it; a listing with posts is not asked
\* why it ended.
TikTokList ==
    /\ ~NoScan /\ scan.step = "list"
    /\ \/ /\ scan.hinted \/ ~renamed
          /\ scan' = [scan EXCEPT !.step = "settle", !.posts = shown]
          /\ UNCHANGED <<trouble, blame>>
       \/ /\ scan.hinted \/ ~renamed
          /\ \E posts \in SUBSET shown :
                scan' = [scan EXCEPT !.step = "settle", !.posts = posts, !.limited = TRUE]
          /\ Happens
          /\ blame' = blame \cup {"limited"}
       \/ /\ scan.hinted \/ ~renamed
          /\ \E posts \in (SUBSET shown) \ {shown} :
                /\ scan' = [scan EXCEPT !.step = "settle", !.posts = posts]
                /\ blame' = IF posts = {} THEN blame ELSE blame \cup {"short"}
          /\ Happens
       \/ /\ \E error \in {"secuid", "other"} :
                scan' = [scan EXCEPT !.step = IF error = "secuid" \/ scan.hinted
                                              THEN "fallback" ELSE "settle",
                                     !.error = error]
          /\ IF renamed /\ ~scan.hinted THEN UNCHANGED trouble ELSE Happens
          /\ UNCHANGED blame
    /\ UNCHANGED <<published, shown, held, media, ledger, tombs, left, tiktok_vars>>

\* enumerate_posts_by_sec_uid.  What that listing says of a limit or an error is
\* lost.
ListAgain ==
    \E posts \in SUBSET shown :
        /\ scan' = [scan EXCEPT !.step = "settle", !.posts = posts, !.resolved = TRUE,
                                !.error = "none"]
        /\ IF posts = shown THEN UNCHANGED <<trouble, blame>>
           ELSE Happens /\ blame' = blame \cup {"short"}

\* The signed-in session resolves the handle, and the timeline is listed once
\* more.
TikTokFallback ==
    /\ ~NoScan /\ scan.step = "fallback"
    /\ \/ ~renamed /\ ListAgain
       \/ /\ scan' = [scan EXCEPT !.step = "settle", !.error = "gone"]
          /\ IF renamed THEN UNCHANGED trouble ELSE Happens
          /\ UNCHANGED blame
       \/ /\ scan' = [scan EXCEPT !.step = "settle", !.error = "other"]
          /\ Happens
          /\ UNCHANGED blame
    /\ UNCHANGED <<published, shown, held, media, ledger, tombs, left, tiktok_vars>>

\* The posts that are not done; the others are seen when their numbers are wanted.
TikTokSelect ==
    scan' = [scan EXCEPT !.step = "batch",
                         !.queue = scan.posts \ scan.keys,
                         !.chosen = scan.posts \ scan.keys,
                         !.observed = IF Refresh THEN scan.posts \cap scan.keys ELSE {}]

ListedNothing == scan.posts = {} /\ ~scan.limited

\* empty_listing_profile_probe_outcome: what the public page says makes an empty
\* listing a profile without posts.
LegitimatelyEmpty(probe) == probe = "private" \/ (probe = "public" /\ ~scan.history)

\* listing_blocked, profile_unavailable and errors: the run failed, and nothing is
\* recorded.
TikTokBlocked == scan' = Idle /\ UNCHANGED blame

TikTokSettle ==
    /\ ~NoScan /\ scan.step = "settle"
    /\ IF ListedNothing /\ ~scan.resolved
       THEN \E probe \in {"public", "private", "gone", "unclear"} :
              IF scan.error = "none" /\ LegitimatelyEmpty(probe)
              THEN /\ TikTokSelect
                   /\ blame' = IF shown # {} /\ (probe = "private" \/ ~scan.history)
                               THEN blame \cup {"short"} ELSE blame
              ELSE TikTokBlocked
       ELSE TikTokSelect /\ UNCHANGED blame
    /\ UNCHANGED <<published, shown, held, media, ledger, tombs, left, trouble, tiktok_vars>>

\* fetch_post_author: a post that is known tells another handle than the profile's.
AuthorMoved == scan.keys # {} /\ renamed

\* The sync ends with the profile's handle replaced and nothing downloaded.
Rehandle == renamed' = FALSE /\ scan' = Idle

\* Nothing came, and the author has another handle.
TikTokRename ==
    /\ ~NoScan /\ scan.step = "settle"
    /\ ListedNothing /\ AuthorMoved
    /\ Rehandle
    /\ UNCHANGED <<published, shown, held, media, ledger, tombs, left, trouble, blame,
                   hint, flawed>>

----------------------------------------------------------------------------
Batch == Chunk(scan.queue, BatchSize)

\* What arrives of some posts; it may be flawed.
Arrive(got) ==
    /\ held' = held \cup got
    /\ \E bad \in SUBSET got :
         /\ flawed' = flawed \cup bad
         /\ blame' = IF got \cap tombs \subseteq scan.deleted THEN blame
                      ELSE blame \cup {"overtaken"}

\* download_batch.  With a rate limit the posts that are left are given up.
TikTokBatch ==
    /\ ~NoScan /\ scan.step = "batch" /\ scan.queue # {}
    /\ \E got \in SUBSET Batch, limited, failed \in BOOLEAN :
         /\ Arrive(got)
         /\ LET rest == scan.queue \ Batch
                gives_up == limited /\ rest # {}
            IN  scan' = [scan EXCEPT !.queue = IF gives_up THEN {} ELSE rest,
                                     !.got = @ \cup got,
                                     !.limited = @ \/ limited,
                                     !.aborted = gives_up,
                                     !.errors = @ \/ failed \/ gives_up]
         /\ IF got = Batch /\ ~limited /\ ~failed THEN UNCHANGED trouble ELSE Happens
    /\ UNCHANGED <<published, shown, media, ledger, tombs, left, hint, renamed>>

\* Fault: what never came is not reported.
TikTokRetryQuietly ==
    /\ ~NoScan /\ scan.step = "batch" /\ scan.queue = {}
    /\ \E got \in SUBSET (IF scan.aborted THEN {} ELSE scan.chosen \ scan.got) :
         /\ Arrive(got)
         /\ scan' = [scan EXCEPT !.step = "posts", !.got = @ \cup got]
    /\ UNCHANGED <<published, shown, media, ledger, tombs, left, trouble, hint, renamed>>

\* The rounds that ask again for what did not come.  What is missing after them is
\* an error; the posts that came are seen.
TikTokRetry ==
    /\ ~NoScan /\ scan.step = "batch" /\ scan.queue = {}
    /\ \E got \in SUBSET (IF scan.aborted THEN {} ELSE scan.chosen \ scan.got) :
         /\ Arrive(got)
         /\ scan' = [scan EXCEPT !.step = "posts", !.got = @ \cup got,
                                 !.errors = @ \/ scan.chosen \ (scan.got \cup got) # {}]
    /\ UNCHANGED <<published, shown, media, ledger, tombs, left, trouble, hint, renamed>>

----------------------------------------------------------------------------
Observed == scan.observed \cup scan.got

\* evaluate_tiktok_upstream_presence.
TikTokQualification ==
    [full      |-> TRUE,
     filtered  |-> FALSE,
     truncated |-> scan.limited \/ scan.aborted \/ scan.errors,
     sections  |-> {"timeline"},
     observed  |-> Observed]

\* The post ledger and the verdict.
TikTokRecordPosts ==
    /\ ~NoScan /\ scan.step = "posts"
    /\ Presence(TikTokQualification, Recorded(Observed, Timeline))
    /\ scan' = [scan EXCEPT !.step = "media"]
    /\ UNCHANGED <<published, shown, held, media, tombs, trouble, blame, tiktok_vars>>

\* retire_reconciled_tiktok_media: the flawed files that were fetched anew.
Retired == scan.flawed \cap scan.got

\* The media ledger, the flawed files, the secUid and the status.
TikTokRecordMedia ==
    /\ ~NoScan /\ scan.step = "media"
    /\ media' = media \cup scan.got
    /\ flawed' = flawed \ Retired
    /\ hint' = (hint \/ scan.resolved)
    /\ scan' = [scan EXCEPT !.step = IF scan.errors \/ scan.aborted THEN "warning" ELSE "succeeded"]
    /\ UNCHANGED <<published, shown, held, ledger, tombs, left, trouble, blame, renamed>>

TikTokEnd ==
    /\ ~NoScan /\ scan.step \in {"warning", "succeeded"}
    /\ scan' = Idle
    /\ UNCHANGED <<published, shown, held, media, ledger, tombs, left, trouble, blame,
                   tiktok_vars>>

\* Cancelled, timed out or crashed: nothing is recorded of what arrived.
TikTokStop ==
    /\ ~NoScan
    /\ Happens
    /\ scan' = Idle
    /\ UNCHANGED <<published, shown, held, media, ledger, tombs, left, blame, tiktok_vars>>

----------------------------------------------------------------------------
\* The author changes his handle.
Rename ==
    /\ ~renamed
    /\ Happens
    /\ renamed' = TRUE
    /\ UNCHANGED <<published, shown, held, media, ledger, tombs, scan, left, blame,
                   hint, flawed>>

\* A file goes without the workspace's doing, or with a deletion that failed.
Vanish(p) ==
    /\ p \in held
    /\ Happens
    /\ held' = held \ {p}
    /\ flawed' = flawed \ {p}
    /\ scan' = IF NoScan THEN scan ELSE [scan EXCEPT !.span = @ \ {p}]
    /\ UNCHANGED <<published, shown, media, ledger, tombs, left, blame, hint, renamed>>

TikTokDelete(p) ==
    /\ DeleteMedium(p, "timeline")
    /\ flawed' = flawed \ {p}
    /\ UNCHANGED <<blame, hint, renamed>>

TikTokNext ==
    \/ TikTokStart \/ TikTokRecover \/ TikTokList \/ TikTokFallback \/ TikTokSettle
    \/ TikTokRename \/ TikTokBatch \/ TikTokRetry
    \/ TikTokRecordPosts \/ TikTokRecordMedia \/ TikTokEnd \/ TikTokStop
    \/ Rename
    \/ \E p \in Post : Vanish(p) \/ TikTokDelete(p)
    \/ AuthorStep /\ UNCHANGED tiktok_vars

TikTokSpec == PresenceInit /\ TikTokInit /\ [][TikTokNext]_<<profile_vars, tiktok_vars>>
=============================================================================
