----------------------------- MODULE InstagramScan -----------------------------
(***************************************************************************)
(* An Instagram sync (instagram_connector.rs and execute_instagram in      *)
(* sync.rs): the timeline and the reels are listed page by page, pinned    *)
(* posts first, until enough pages in a row are known; what is not known   *)
(* is downloaded, and the ledgers are written.  Pages hold one post.       *)
(* Stories, highlights, tagged posts and filters are not here, and the     *)
(* error policy is the default one: errors are skipped and logged.         *)
(***************************************************************************)
EXTENDS UpstreamPresence

CONSTANTS
    OnTop,     \* posts at the top of the profile whatever their age
    Clips,     \* posts that are reels
    KnownPages  \* INSTAGRAM_INCREMENTAL_KNOWN_PAGE_THRESHOLD

ASSUME InstagramAssumption ==
    /\ OnTop \subseteq Post /\ Clips \subseteq Post
    /\ KnownPages \in Nat \ {0}

KindOf == [p \in Post |-> IF p \in Clips THEN "reels" ELSE "timeline"]
OfKind(posts, kind) == {p \in posts : KindOf[p] = kind}

\* p is listed before q.
Before(p, q) ==
    IF (p \in OnTop) = (q \in OnTop) THEN p > q ELSE p \in OnTop

\* The page after post last of the feed of some posts; 0 is its start.
PageAfter(last, posts) ==
    LET later == {p \in posts : last # 0 => Before(last, p)}
    IN  {p \in later : \A q \in later \ {p} : Before(p, q)}

\* Where the listing stands after a page.
LastOf(page) == IF page = {} THEN 0 ELSE CHOOSE p \in page : TRUE

----------------------------------------------------------------------------
\* build_instagram_profile_sync_request, the preflights, and load_profile with
\* the first page of the feed.
InstagramStart(full, missing_only, gql) ==
    /\ NoScan
    /\ LET head == PageAfter(0, shown) IN
       scan' = [step |-> "timeline", from |-> published, span |-> 1..published,
                full |-> full, missing_only |-> missing_only, gql |-> gql,
                keys |-> Known, deleted |-> tombs, media |-> media, on_disk |-> held,
                head |-> head, via |-> gql,
                at |-> IF gql THEN 0 ELSE LastOf(head),
                streak |-> 0, listed |-> IF gql THEN {} ELSE OfKind(head, "timeline"),
                posts |-> {}, errors |-> FALSE, limited |-> FALSE, plan |-> {}, got |-> {}]
    /\ UNCHANGED <<published, shown, held, media, ledger, tombs, left, trouble, blame>>

Discovering == ~NoScan /\ scan.step \in {"timeline", "reels"}

\* What the next page is cut from: the timeline has the reels among its posts.
Feed == IF scan.step = "timeline" THEN shown ELSE OfKind(shown, "reels")

\* IncrementalDiscoveryStop::new.
StopsEarly ==
    /\ ~scan.full /\ ~scan.missing_only
    /\ scan.keys \cup scan.media \cup scan.on_disk # {}

\* page_fully_known: in the post ledger, deleted, or its medium is here.
PageKnown(p) ==
    /\ StopsEarly
    /\ KindOf[p] = scan.step
    /\ p \in scan.keys \cup scan.deleted \cup scan.media \cup scan.on_disk

EnoughKnown(streak) == StopsEarly /\ streak >= KnownPages

\* The sync goes on to the next section with what the current one listed.
NextSection(listed) ==
    IF scan.step = "timeline"
    THEN [scan EXCEPT !.step = "reels", !.posts = listed, !.via = scan.gql, !.at = 0, !.streak = 0,
                      !.listed = OfKind(scan.head, "reels")]
    ELSE [scan EXCEPT !.step = "plan", !.posts = @ \cup listed, !.via = FALSE, !.at = 0,
                      !.streak = 0, !.listed = {}, !.head = {}]

\* Of the rest of the section, nothing will be seen.
Cut(listed) ==
    blame' = IF OfKind(shown, scan.step) \subseteq listed THEN blame ELSE blame \cup {"short"}

\* A page of load_timeline_items or load_reel_items.  Over GraphQL a page of
\* nothing but reels is taken for the end of the timeline.
InstagramPage ==
    /\ Discovering
    /\ LET page == PageAfter(scan.at, Feed) IN
       \/ /\ page = {}
          /\ scan' = NextSection(scan.listed)
          /\ UNCHANGED blame
       \/ \E p \in page :
            IF scan.via /\ scan.step = "timeline" /\ p \in Clips
            THEN scan' = NextSection(scan.listed) /\ Cut(scan.listed)
            ELSE LET streak == IF PageKnown(p) THEN scan.streak + 1 ELSE 0
                     listed == scan.listed \cup OfKind({p}, scan.step)
                 IN  /\ scan' = IF EnoughKnown(streak) THEN NextSection(listed)
                                ELSE [scan EXCEPT !.at = p, !.streak = streak, !.listed = listed]
                     /\ UNCHANGED blame
    /\ UNCHANGED <<published, shown, held, media, ledger, tombs, left, trouble>>

\* A request that fails without failing the sync: GraphQL gives way to the other
\* interface, which starts over; a rate limit or an error drops the section, but
\* past the first page of the timeline an error is fatal (InstagramStop); a
\* refusal ends the reels where they are.
InstagramRefused ==
    /\ Discovering
    /\ Happens
    /\ \/ /\ scan.via
          /\ scan' = IF scan.step = "timeline"
                     THEN [scan EXCEPT !.via = FALSE, !.streak = 0,
                                       !.at = LastOf(scan.head),
                                       !.listed = OfKind(scan.head, "timeline")]
                     ELSE [scan EXCEPT !.via = FALSE, !.streak = 0, !.at = 0]
          /\ UNCHANGED blame
       \/ /\ ~scan.via
          /\ \E limited \in BOOLEAN :
               /\ limited \/ scan.step = "reels" \/ scan.at = 0
               /\ scan' = [NextSection({}) EXCEPT !.errors = TRUE, !.limited = @ \/ limited]
          /\ UNCHANGED blame
       \/ /\ ~scan.via /\ scan.step = "reels"
          /\ scan' = NextSection(scan.listed)
          /\ Cut(scan.listed)
    /\ UNCHANGED <<published, shown, held, media, ledger, tombs, left>>

----------------------------------------------------------------------------
\* normalize_profile_sync_manifest.  A post that is known is passed over; one whose
\* medium is here is seen; a scan for what is missing goes by the folder alone.
Suppressed == IF scan.missing_only THEN scan.deleted ELSE scan.keys
Present == IF scan.missing_only THEN scan.on_disk ELSE scan.on_disk \cup scan.media

InstagramPlan ==
    /\ ~NoScan /\ scan.step = "plan"
    /\ scan' = [step |-> "fetch", from |-> scan.from, span |-> scan.span, full |-> scan.full,
                missing_only |-> scan.missing_only, listed |-> scan.posts,
                posts |-> scan.posts \ Suppressed,
                plan |-> (scan.posts \ Suppressed) \ Present, got |-> {},
                errors |-> scan.errors, limited |-> scan.limited]
    /\ UNCHANGED <<published, shown, held, media, ledger, tombs, left, trouble, blame>>

\* What execute_manifest_section gets of a section: all, or what comes before the
\* post that fails.
Leading(posts) == {got \in SUBSET posts : \A p \in got, q \in posts \ got : Before(p, q)}

InstagramFetch ==
    /\ ~NoScan /\ scan.step = "fetch"
    /\ \E timeline \in Leading(OfKind(scan.plan, "timeline")),
          reels \in Leading(OfKind(scan.plan, "reels")), limited \in BOOLEAN :
         LET got == timeline \cup reels IN
         /\ limited => got # scan.plan
         /\ held' = held \cup got
         /\ scan' = [scan EXCEPT !.step = "media", !.got = got,
                                 !.errors = @ \/ got # scan.plan, !.limited = @ \/ limited]
         /\ IF got = scan.plan THEN UNCHANGED trouble ELSE Happens
    /\ UNCHANGED <<published, shown, media, ledger, tombs, left, blame>>

\* The media ledger comes first.
InstagramRecordMedia ==
    /\ ~NoScan /\ scan.step = "media"
    /\ media' = media \cup scan.got
    /\ scan' = [scan EXCEPT !.step = "posts"]
    /\ UNCHANGED <<published, shown, held, ledger, tombs, left, trouble, blame>>

\* evaluate_instagram_upstream_presence.
InstagramQualification ==
    [full      |-> scan.full,
     filtered  |-> scan.missing_only,
     truncated |-> scan.limited \/ scan.errors,
     sections  |-> {"timeline", "reels"},
     observed  |-> scan.posts]

\* The post ledger, with what was planned and never came, and the verdict, which
\* passes over what was known.
InstagramRecordPosts ==
    /\ ~NoScan /\ scan.step = "posts"
    /\ LET q == InstagramQualification
           rs == Recorded(scan.posts, KindOf)
       IN  /\ Presence(q, rs)
           /\ blame' = blame
                \cup (IF scan.plan \subseteq scan.got THEN {} ELSE {"dropped"})
                \cup (IF Qualifies(q) /\ (Judged(q, rs) \cap scan.listed) \ scan.posts # {}
                      THEN {"unseen"} ELSE {})
    /\ scan' = [scan EXCEPT !.step = IF scan.errors THEN "warning" ELSE "succeeded"]
    /\ UNCHANGED <<published, shown, held, media, tombs, trouble>>

InstagramEnd ==
    /\ ~NoScan /\ scan.step \in {"warning", "succeeded"}
    /\ scan' = Idle
    /\ UNCHANGED <<published, shown, held, media, ledger, tombs, left, trouble, blame>>

\* Cancelled, crashed or failed.  Nothing is recorded of what arrived, and with the
\* newest posts here the next scan stops before the ones that did not arrive.
InstagramStop ==
    /\ ~NoScan
    /\ Happens
    /\ \E timeline \in Leading(OfKind(scan.plan, "timeline")),
          reels \in Leading(OfKind(scan.plan, "reels")) :
         LET got == IF scan.step = "fetch" THEN timeline \cup reels ELSE scan.got IN
         /\ held' = IF scan.step = "fetch" THEN held \cup got ELSE held
         /\ blame' = IF got # {} /\ got # scan.plan THEN blame \cup {"hidden"} ELSE blame
    /\ scan' = Idle
    /\ UNCHANGED <<published, shown, media, ledger, tombs, left>>

\* What is in neither ledger is not known to be deleted.
InstagramDelete(p) ==
    /\ DeleteMedium(p, KindOf[p])
    /\ blame' = IF ledger'[p] = NoRow /\ p \notin media THEN blame \cup {"unrecorded"} ELSE blame

InstagramNext ==
    \/ \E full, missing_only, gql \in BOOLEAN : InstagramStart(full, missing_only, gql)
    \/ InstagramPage \/ InstagramRefused \/ InstagramPlan \/ InstagramFetch
    \/ InstagramRecordMedia \/ InstagramRecordPosts \/ InstagramEnd \/ InstagramStop
    \/ \E p \in Post : InstagramDelete(p)
    \/ AuthorStep

InstagramSpec == PresenceInit /\ [][InstagramNext]_profile_vars
=============================================================================
