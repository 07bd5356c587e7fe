---------------------------- MODULE UpstreamPresence ----------------------------
(***************************************************************************)
(* One profile: what its provider shows of it, what the workspace recorded *)
(* of that, and how a scan turns what it did not see into "the author      *)
(* removed it" (workspace_repository/upstream_presence.rs).  The scans are *)
(* in the modules of the providers, which extend this one: one of them     *)
(* runs at a time, while the author and the user go on.                    *)
(* Posts are numbered in the order of their publication; one medium each.  *)
(***************************************************************************)
EXTENDS Naturals, FiniteSets

CONSTANTS
    MaxPost,       \* bound: posts the author publishes
    FirstPosts,    \* those that are there at first
    ScanSpan,      \* bound: posts that are published while one scan runs
    MaxTrouble     \* bound: things that happen to the profile or go wrong in a scan

ASSUME PresenceAssumption ==
    /\ MaxPost \in Nat
    /\ FirstPosts \in 0..MaxPost
    /\ ScanSpan \in Nat
    /\ MaxTrouble \in Nat

Post == 1..MaxPost

\* UPSTREAM_MISSING_CONFIRMATIONS.
Confirmations == 2

VARIABLES
    published,  \* posts so far
    shown,      \* those the provider lists
    held,       \* those whose medium is in the profile's folder
    media,      \* the media ledger
    ledger,     \* the post ledger
    tombs,      \* provider_deleted_media: those the user deleted
    scan,       \* the scan that runs
    left,       \* history: posts that left the provider since a judging scan last saw them
    trouble,    \* how much happened so far
    blame       \* history: what went wrong in a way the scans do not notice

profile_vars == <<published, shown, held, media, ledger, tombs, scan, left, trouble, blame>>

Section == {"media", "timeline", "likes", "reposts", "stories", "videos", "shorts",
            "gallery", "reels", "journal"}
NoRow == [section |-> "none"]
LedgerRow == [section : Section, misses : 0..Confirmations]
Idle == [step |-> "idle"]
NoScan == scan = Idle

PresenceTypeOK ==
    /\ published \in 0..MaxPost
    /\ shown \subseteq 1..published
    /\ held \subseteq 1..published /\ media \subseteq 1..published
    /\ \A p \in Post : ledger[p] \in LedgerRow \cup {NoRow}
    /\ tombs \subseteq Post
    /\ left \subseteq Post
    /\ trouble \in 0..MaxTrouble

PresenceInit ==
    /\ published = FirstPosts
    /\ shown = 1..FirstPosts
    /\ held = {} /\ media = {} /\ tombs = {} /\ left = {} /\ blame = {}
    /\ ledger = [p \in Post |-> NoRow]
    /\ scan = Idle
    /\ trouble = 0

----------------------------------------------------------------------------
\* The ledgers.

Known == {p \in Post : ledger[p] # NoRow}

\* Flagged: what load_upstream_missing_post_keys returns.
Missing == {p \in Known : ledger[p].misses = Confirmations}

\* upsert_provider_sync_post_ledger_entries, of_section[p] for each p of posts:
\* a row that is there takes the section and keeps what it says of the provider.
Recorded(posts, of_section) ==
    [p \in Post |-> IF p \notin posts THEN ledger[p]
                    ELSE IF ledger[p] = NoRow THEN [section |-> of_section[p], misses |-> 0]
                    ELSE [ledger[p] EXCEPT !.section = of_section[p]]]

\* The posts a batch takes, newest first.
Chunk(posts, size) == {p \in posts : Cardinality({q \in posts : q > p}) < size}

----------------------------------------------------------------------------
\* Judging a scan.

\* section_reports_removal: stories expire, likes are withdrawn by the profile,
\* a journal is not verified.
ReportsRemoval(section) ==
    section \in {"timeline", "reels", "videos", "shorts", "media", "reposts", "gallery"}

\* Fault: a scan is judged whatever cut its listing short.
JudgesTruncated(q) == q.full /\ ~q.filtered /\ \E s \in q.sections : ReportsRemoval(s)

\* UpstreamScanQualification::qualifies.
Qualifies(q) ==
    /\ q.full
    /\ ~q.filtered
    /\ ~q.truncated
    /\ \E s \in q.sections : ReportsRemoval(s)

\* The rows a scan judges: those of its sections, but for what the user deleted.
Judged(q, rs) ==
    {p \in Post : /\ rs[p] # NoRow
                  /\ rs[p].section \in q.sections /\ ReportsRemoval(rs[p].section)
                  /\ p \notin tombs}

\* Fault: a post that is seen takes back one miss instead of all.
EvaluatedByOne(q, rs) ==
    [p \in Post |->
        IF p \notin Judged(q, rs) THEN rs[p]
        ELSE [rs[p] EXCEPT !.misses = IF p \in q.observed THEN @ - 1
                                      ELSE IF @ = Confirmations THEN @ ELSE @ + 1]]

\* Each row of evaluate_upstream_presence: present again, or one more miss.  The
\* count stops at the threshold, past which it changes nothing.
Evaluated(q, rs) ==
    [p \in Post |->
        IF p \notin Judged(q, rs) THEN rs[p]
        ELSE [rs[p] EXCEPT !.misses = IF p \in q.observed THEN 0
                                      ELSE IF @ = Confirmations THEN @ ELSE @ + 1]]

\* evaluate_upstream_presence on the rows rs that the scan leaves; a judging scan
\* settles the history of what it saw.
Presence(q, rs) ==
    /\ ledger' = IF Qualifies(q) THEN Evaluated(q, rs) ELSE rs
    /\ left' = IF Qualifies(q) THEN left \ (Judged(q, rs) \cap q.observed \cap shown) ELSE left

----------------------------------------------------------------------------
\* The author and the user.

Happens == trouble < MaxTrouble /\ trouble' = trouble + 1

Publish ==
    /\ published < MaxPost
    /\ ~NoScan => published - scan.from < ScanSpan
    /\ published' = published + 1
    /\ shown' = shown \cup {published'}
    /\ UNCHANGED <<held, media, ledger, tombs, scan, left, trouble, blame>>

Withdraw(p) ==
    /\ p \in shown
    /\ shown' = shown \ {p}
    /\ left' = left \cup {p}
    /\ Happens
    /\ UNCHANGED <<published, held, media, ledger, tombs, scan, blame>>

Return(p) ==
    /\ p \in (1..published) \ shown
    /\ shown' = shown \cup {p}
    /\ Happens
    /\ UNCHANGED <<published, held, media, ledger, tombs, scan, left, blame>>

\* delete_source_media: the file goes to the trash and is recorded as deleted; the
\* post is recorded as seen once every file of the request is gone, which one that
\* resists prevents.  The media ledger keeps its row.
DeleteMedium(p, section) ==
    /\ p \in held
    /\ Happens
    /\ held' = held \ {p}
    /\ tombs' = tombs \cup {p}
    /\ \/ UNCHANGED ledger
       \/ ledger' = Recorded({p}, [x \in Post |-> IF ledger[x] = NoRow THEN section
                                                 ELSE ledger[x].section])
    /\ UNCHANGED <<published, shown, media, scan, left>>

\* What the author does.
AuthorStep == Publish \/ \E p \in Post : Withdraw(p) \/ Return(p)

----------------------------------------------------------------------------
\* A post is flagged as removed only if it was off the provider since a judging
\* scan last saw it: no rate limit, resumed or incremental scan, failed download
\* or local deletion makes a post look removed; unless a listing came back short
\* unnoticed, or the scan passed over what it had listed
\* (evaluate_upstream_presence).
FlaggedWasGone == blame \cap {"short", "unseen"} = {} => Missing \subseteq left

\* What the user deleted is not downloaded again, whatever scan runs at the time
\* or later; unless it never reached the media ledger of a provider that goes by
\* it, or a running scan had chosen to fetch it anew (delete_source_media_files,
\* provider_deleted_media).
DeletedStaysDeleted == blame \cap {"unrecorded", "overtaken"} = {} => tombs \cap held = {}

\* A sync that ends as succeeded leaves nothing behind of what it answers for
\* (scan.span): all of it that the provider showed is here or was deleted by the
\* user, unless it was away for a time; and unless a listing came back short
\* unnoticed, a cutoff was raised past what was not listed, an unwanted video came
\* back and counted as seen, or an earlier sync hid what it did not get.
SucceededHolds ==
    (/\ scan.step = "succeeded"
     /\ blame \cap {"short", "limited", "raised", "unwanted", "hidden", "dropped"} = {}) =>
        (scan.span \cap shown) \ left \subseteq held \cup tombs
=============================================================================
