------------------------------ MODULE TikTokLikes ------------------------------
(***************************************************************************)
(* The videos that the owner of a TikTok account likes                     *)
(* (tiktok_likes_runtime.rs): a hidden window lists them page by page, the *)
(* newest first, and those without a file are downloaded.  Once a listing  *)
(* has reached the end, later ones stop at a row of pages whose videos all *)
(* have their files.                                                       *)
(***************************************************************************)
EXTENDS Naturals, FiniteSets

CONSTANTS
    LastLike,       \* likes ever given; a video's number is the order of the likes
    FirstLikes,
    KnownPageThreshold,
    ItemLimits,     \* what the user may have set the item limit to, 0 for none
    MaxScans, MaxErased

ASSUME LikesAssumption ==
    /\ FirstLikes \in 0..LastLike /\ KnownPageThreshold \in Nat \ {0}
    /\ ItemLimits \subseteq Nat /\ {LastLike, MaxScans, MaxErased} \subseteq Nat

VARIABLES
    liked, likes,   \* the videos liked now, and the likes so far
    clips,          \* the videos that have a file
    noted,          \* account_sync_media_ledger: the videos it lists
    full_scan,      \* full_scan_completed_at is set
    listing,        \* the sync that runs
    unfetched,      \* the liked videos that a sync which ended well left without a file
    gap,            \* "limited": a listing stopped at the item limit once one had reached the
                    \* end; "cut": a listed video was not downloaded and later listings stop
    discarded,      \* the videos whose files the user deleted
    scans

likes_vars == <<liked, likes, clips, noted, full_scan, listing, unfetched, gap, discarded, scans>>

Clip == 1..LastLike
NoListing == [step |-> "none"]

LikesTypeOK ==
    /\ liked \subseteq 1..likes /\ likes \in FirstLikes..LastLike
    /\ clips \subseteq Clip /\ noted \subseteq Clip
    /\ listing.step = "save" => listing.items # {}
    /\ full_scan \in BOOLEAN /\ listing.step \in {"none", "list", "fetch", "save"}
    /\ unfetched \subseteq Clip /\ gap \subseteq {"limited", "cut"}
    /\ discarded \subseteq Clip /\ scans \in 0..MaxScans

LikesInit ==
    /\ liked = 1..FirstLikes /\ likes = FirstLikes
    /\ clips = {} /\ noted = {} /\ full_scan = FALSE /\ listing = NoListing
    /\ unfetched = {} /\ gap = {} /\ discarded = {} /\ scans = 0
-----------------------------------------------------------------------------
\* The account's owner.
Like ==
    /\ likes < LastLike /\ likes' = likes + 1 /\ liked' = liked \cup {likes + 1}
    /\ UNCHANGED <<clips, noted, full_scan, listing, unfetched, gap, discarded, scans>>

Unlike(v) ==
    /\ v \in liked /\ liked' = liked \ {v}
    /\ UNCHANGED <<likes, clips, noted, full_scan, listing, unfetched, gap, discarded, scans>>

\* The gallery's deletion: the next sync looks for the file only.
DiscardClip(v) ==
    /\ v \in clips /\ Cardinality(discarded) < MaxErased
    /\ clips' = clips \ {v} /\ discarded' = discarded \cup {v}
    /\ UNCHANGED <<liked, likes, noted, full_scan, listing, unfetched, gap, scans>>
-----------------------------------------------------------------------------
\* What has a file: the files' names carry the videos' numbers.
WithFile == clips

\* Fault: listings stop at known pages before one has reached the end.
Eager(incremental, refresh) == incremental /\ ~refresh

Incremental(incremental, refresh) == incremental /\ full_scan /\ ~refresh

StartLikes(incremental, refresh, limit) ==
    /\ listing = NoListing /\ scans < MaxScans /\ scans' = scans + 1
    /\ listing' = [step |-> "list", stops |-> Incremental(incremental, refresh), limit |-> limit,
                known |-> WithFile, cursor |-> likes + 1, items |-> {}, streak |-> 0,
                failed |-> FALSE, ends |-> FALSE, liked |-> liked]
    /\ unfetched' = {}
    /\ UNCHANGED <<liked, likes, clips, noted, full_scan, gap, discarded>>

\* The videos after the cursor; a page has one.
After(cursor) == {v \in liked : v < cursor}
Page(cursor) == {v \in After(cursor) : \A w \in After(cursor) : w <= v}
Limited(items) == listing.limit > 0 /\ Cardinality(items) >= listing.limit

Streak(page) == IF listing.stops /\ page # {} /\ page \subseteq listing.known
                THEN listing.streak + 1 ELSE 0

\* One page; a listing that has ended is recorded at once, before the downloads.
ListPage ==
    /\ listing.step = "list" /\ ~Limited(listing.items)
    /\ LET page == Page(listing.cursor)
           items == listing.items \cup page
           next == IF page = {} THEN 0 ELSE CHOOSE v \in page : TRUE
           more == page # {} /\ After(next) # {}
           stopped == listing.stops /\ more /\ Streak(page) >= KnownPageThreshold
       IN IF ~more \/ stopped \/ Limited(items)
          THEN /\ listing' = [listing EXCEPT !.step = "fetch", !.items = items, !.ends = (~more \/ stopped)]
               /\ full_scan' = (full_scan \/ ~more)
               /\ gap' = IF more /\ ~stopped /\ full_scan THEN gap \cup {"limited"} ELSE gap
          ELSE /\ listing' = [listing EXCEPT !.items = items, !.cursor = next, !.streak = Streak(page)]
               /\ UNCHANGED <<full_scan, gap>>
    /\ UNCHANGED <<liked, likes, clips, noted, unfetched, discarded, scans>>

Newest(items) == CHOOSE v \in items : \A w \in items : w <= v
Rest == listing.items \ {Newest(listing.items)}

\* A video that had a file at the start is skipped, and the ledger repaired when it does not say so.
SkipClip ==
    /\ listing.step = "fetch" /\ listing.items # {} /\ Newest(listing.items) \in listing.known
    /\ noted' = noted \cup {Newest(listing.items)}
    /\ listing' = [listing EXCEPT !.items = Rest]
    /\ UNCHANGED <<liked, likes, clips, full_scan, unfetched, gap, discarded, scans>>

FetchClip ==
    /\ listing.step = "fetch" /\ listing.items # {} /\ Newest(listing.items) \notin listing.known
    /\ clips' = clips \cup {Newest(listing.items)}
    /\ listing' = [listing EXCEPT !.step = "save"]
    /\ UNCHANGED <<liked, likes, noted, full_scan, unfetched, gap, discarded, scans>>

\* Its rows: the account's ledger, and the profile's two.
SaveClip ==
    /\ listing.step = "save"
    /\ noted' = noted \cup {Newest(listing.items)}
    /\ listing' = [listing EXCEPT !.step = "fetch", !.items = Rest]
    /\ UNCHANGED <<liked, likes, clips, full_scan, unfetched, gap, discarded, scans>>

Cutting == IF full_scan THEN gap \cup {"cut"} ELSE gap

ClipFails ==
    /\ listing.step = "fetch" /\ listing.items # {} /\ Newest(listing.items) \notin listing.known
    /\ listing' = [listing EXCEPT !.items = Rest, !.failed = TRUE]
    /\ gap' = Cutting
    /\ UNCHANGED <<liked, likes, clips, noted, full_scan, unfetched, discarded, scans>>

\* No session, no window, a cancellation, or a listing that fails or takes too long.
ListFails ==
    /\ listing.step = "list" /\ listing' = NoListing
    /\ UNCHANGED <<liked, likes, clips, noted, full_scan, unfetched, gap, discarded, scans>>

\* A cancellation or a database error among the downloads.
FetchStops ==
    /\ listing.step \in {"fetch", "save"} /\ listing' = NoListing
    /\ gap' = IF listing.items \subseteq clips THEN gap ELSE Cutting
    /\ UNCHANGED <<liked, likes, clips, noted, full_scan, unfetched, discarded, scans>>

EndScan ==
    /\ listing.step = "fetch" /\ listing.items = {} /\ listing' = NoListing
    /\ unfetched' = IF listing.ends /\ ~listing.failed
                    THEN (listing.liked \cap liked) \ (clips \cup discarded) ELSE {}
    /\ UNCHANGED <<liked, likes, clips, noted, full_scan, gap, discarded, scans>>
-----------------------------------------------------------------------------
LikesNext ==
    \/ Like \/ ListPage \/ SkipClip \/ FetchClip \/ SaveClip \/ ClipFails
    \/ ListFails \/ FetchStops \/ EndScan
    \/ \E v \in Clip : Unlike(v) \/ DiscardClip(v)
    \/ \E b, c \in BOOLEAN, n \in ItemLimits : StartLikes(b, c, n)

LikesSpec == LikesInit /\ [][LikesNext]_likes_vars

\* A sync of the liked videos that ends well leaves none of them without a file, also
\* when its listing stopped at known pages, unless an earlier one, once a listing had
\* reached the end, stopped at the item limit or did not download what it had listed.
LikesAreFetched == gap = {} => unfetched = {}
=============================================================================
