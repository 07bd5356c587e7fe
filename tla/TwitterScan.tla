------------------------------ MODULE TwitterScan ------------------------------
(***************************************************************************)
(* A Twitter/X sync (twitter_connector.rs and execute_twitter in sync.rs): *)
(* the parser lists each model newest first and may be cut short, the      *)
(* media are downloaded, and then the resume cursors, the post ledger with *)
(* the verdict on missing posts, the media ledger and the baseline of the  *)
(* next incremental scan are written.  The search model behaves as likes.  *)
(***************************************************************************)
EXTENDS UpstreamPresence

CONSTANTS
    Models,  \* models the profile enables
    Videos,  \* posts whose medium is a video
    Liked,   \* the author's posts that he likes himself
    Overlap  \* TWITTER_INCREMENTAL_OVERLAP_SECS, in posts

ASSUME TwitterAssumption ==
    /\ Models \subseteq {"media", "likes"} /\ Models # {}
    /\ Videos \subseteq Post /\ Liked \subseteq Post
    /\ Overlap \in Nat
    /\ ScanSpan <= Overlap

VARIABLES
    resume,   \* provider_sync_resume_cursors, by model
    baseline, \* per selection of media, the cutoff of the last full scan that counts
    videos    \* whether the user wants videos

twitter_vars == <<resume, baseline, videos>>

\* A cursor k stands before post k: what is older is still to be listed.
NoCursor == 0
Cursor == 1..(MaxPost + 1)
Completed == MaxPost + 2
NoCutoff == MaxPost + 1

Model == {"media", "likes", "timeline"}

TwitterTypeOK ==
    /\ resume \in [Model -> {NoCursor, Completed} \cup Cursor]
    /\ baseline \in [BOOLEAN -> {NoCutoff} \cup 0..MaxPost]
    /\ videos \in BOOLEAN

TwitterInit ==
    /\ resume = [m \in Model |-> NoCursor]
    /\ baseline = [v \in BOOLEAN |-> NoCutoff]
    /\ videos = TRUE

\* twitter_model_selection_for_run: the timeline runs in a backfill only.
Phase(backfill) == IF backfill THEN {"timeline"} ELSE Models

\* clear_provider_sync_resume_scope.
Cleared(cursors, backfill) ==
    [m \in Model |-> IF m \in Phase(backfill) THEN NoCursor ELSE cursors[m]]

\* The next model of a run.
First(models) == CHOOSE m \in models : m = "likes" => models = {"likes"}

\* load_twitter_incremental_state, unless an earlier scan is to be completed.
CutoffFor(backfill) ==
    IF ~backfill /\ "media" \in Models /\ \A m \in Models : resume[m] = NoCursor
    THEN baseline[videos] ELSE NoCutoff

\* What a run of some models is asked for; one that goes on where an earlier one
\* was cut short answers for what is past the cursor only.
Asked(with_videos, models) ==
    {p \in 1..published : /\ with_videos \/ p \notin Videos
                          /\ models = {"likes"} => p \in Liked}

----------------------------------------------------------------------------
\* execute_twitter up to the connector.  With nothing left to complete the scan
\* starts over.
TwitterStart(backfill) ==
    /\ NoScan
    /\ LET left_over == {m \in Phase(backfill) : resume[m] # Completed}
           cursors == IF left_over = {} THEN Cleared(resume, backfill) ELSE resume
           models == IF left_over = {} THEN Phase(backfill) ELSE left_over
       IN  /\ resume' = cursors
           /\ scan' = [step |-> "list", backfill |-> backfill, from |-> published,
                       models |-> models, todo |-> models,
                       cursors |-> [m \in models |-> cursors[m]],
                       cutoff |-> CutoffFor(backfill), videos |-> videos, on_disk |-> held,
                       found |-> [p \in Post |-> "none"], got |-> {}, errors |-> FALSE,
                       done |-> {}, limit |-> "none", at |-> NoCursor,
                       newest |-> 0, redirected |-> FALSE,
                       span |-> {p \in Asked(videos, models) :
                                   \E m \in models :
                                     /\ m = "likes" => p \in Liked
                                     /\ cursors[m] # NoCursor => p < cursors[m]}]
    /\ UNCHANGED <<published, shown, held, media, ledger, tombs, left, trouble, blame,
                   baseline, videos>>

\* What a model lists when nothing cuts it short.
ListingOf(m) ==
    {p \in shown : /\ m = "likes" => p \in Liked
                   /\ m = "media" /\ scan.cutoff # NoCutoff => p >= scan.cutoff
                   /\ scan.cursors[m] # NoCursor => p < scan.cursors[m]}

\* The first model that lists a post owns it.
Owned(m, posts) == [p \in Post |-> IF p \in posts /\ scan.found[p] = "none" THEN m ELSE scan.found[p]]
NewestOf(times) == CHOOSE t \in times : \A u \in times : u <= t

\* The parser lists a model to its end.  A like may be of anybody's post; it counts
\* as the newest, past what an earlier scan listed of the media and did not get.
ListToEnd(m) ==
    /\ UNCHANGED trouble
    /\ \E t \in IF m = "likes" THEN 0..published ELSE {0} :
        LET newest == NewestOf({scan.newest, t} \cup ListingOf(m)) IN
        /\ scan' = [scan EXCEPT !.todo = @ \ {m}, !.done = @ \cup {m},
                                !.found = Owned(m, ListingOf(m)), !.newest = newest]
        /\ blame' = IF /\ m = "likes" /\ newest > scan.newest
                       /\ "media" \in scan.models /\ scan.cursors["media"] # NoCursor
                    THEN blame \cup {"raised"} ELSE blame

\* It dies after some pages, without a rate limit: they are taken for all there is.
DieMidway(m) ==
    \E k \in Cursor :
        LET posts == {p \in ListingOf(m) : p >= k} IN
        /\ posts # ListingOf(m)
        /\ Happens
        /\ scan' = [scan EXCEPT !.todo = @ \ {m}, !.done = @ \cup {m},
                                !.found = Owned(m, posts),
                                !.newest = NewestOf({@} \cup posts)]
        /\ blame' = blame \cup {"short"}

\* It fails without a page; the other models go on.
FailModel(m) ==
    /\ Happens
    /\ scan' = [scan EXCEPT !.todo = @ \ {m}, !.errors = TRUE]
    /\ blame' = blame \cup {"short"}

\* A rate limit ends the listing; the parser's last words have a cursor, or not.
HitLimit(m) ==
    /\ Happens
    /\ \E k \in Cursor :
        LET posts == {p \in ListingOf(m) : p >= k} IN
        \E stands \in {k, NoCursor} :
            scan' = [scan EXCEPT !.todo = {}, !.limit = m, !.at = stands,
                                 !.found = Owned(m, posts),
                                 !.newest = NewestOf({@} \cup posts)]
    /\ UNCHANGED blame

\* The posts of a page are another handle's once more: they are not planned, and
\* nobody follows the second redirect.
ListElsewhere(m) ==
    /\ scan.redirected /\ \A p \in Post : scan.found[p] = "none"
    /\ Happens
    /\ scan' = [scan EXCEPT !.todo = {}, !.done = @ \cup {m}]
    /\ blame' = blame \cup {"short"}

TwitterList ==
    /\ ~NoScan /\ scan.step = "list" /\ scan.todo # {}
    /\ LET m == First(scan.todo) IN
       ListToEnd(m) \/ DieMidway(m) \/ FailModel(m) \/ HitLimit(m) \/ ListElsewhere(m)
    /\ UNCHANGED <<published, shown, held, media, ledger, tombs, left, twitter_vars>>

\* The first posts of the owner, or his id, show that the handle changed: the
\* sync goes on with the new one from the start.
TwitterRedirect ==
    /\ ~NoScan /\ scan.step = "list"
    /\ ~scan.redirected /\ scan.limit = "none" /\ \A p \in Post : scan.found[p] = "none"
    /\ Happens
    /\ resume' = Cleared(resume, scan.backfill)
    /\ LET models == Phase(scan.backfill) IN
       scan' = [scan EXCEPT !.redirected = TRUE, !.models = models, !.todo = models,
                            !.cursors = [m \in models |-> NoCursor], !.cutoff = NoCutoff,
                            !.done = {}, !.newest = 0, !.errors = FALSE,
                            !.span = {p \in 1..scan.from : p \in Asked(scan.videos, models)}]
    /\ UNCHANGED <<published, shown, held, media, ledger, tombs, left, blame, baseline, videos>>

----------------------------------------------------------------------------
Wanted(p) == scan.found[p] # "none" /\ (scan.videos \/ p \notin Videos)
ToFetch == {p \in Post : Wanted(p) /\ p \notin media \cup scan.on_disk}
Listed == ~NoScan /\ scan.step = "list" /\ scan.todo = {} /\ (scan.done # {} \/ scan.limit # "none")

\* Each medium arrives or not; after a rate limit the user may want none.
TwitterDownload ==
    /\ Listed
    /\ \E got \in SUBSET ToFetch :
         /\ held' = held \cup got
         /\ scan' = [scan EXCEPT !.step = "posts", !.got = got,
                                 !.errors = @ \/ got # ToFetch]
         /\ IF got = ToFetch THEN UNCHANGED trouble ELSE Happens
    /\ UNCHANGED <<published, shown, media, ledger, tombs, left, blame, twitter_vars>>

\* Cancelled, crashed, or no model that could be listed: nothing is recorded of
\* what arrived.
TwitterStop ==
    /\ ~NoScan
    /\ Happens
    /\ \E got \in SUBSET (IF Listed THEN ToFetch ELSE {}) : held' = held \cup got
    /\ scan' = Idle
    /\ UNCHANGED <<published, shown, media, ledger, tombs, left, blame, twitter_vars>>

\* completed_observed_posts: a post counts once all the media of it the user wants
\* are here.
Complete == {p \in Post : /\ scan.found[p] # "none"
                          /\ Wanted(p) => p \in media \cup scan.on_disk \cup scan.got}
Incomplete == {p \in Post : scan.found[p] # "none"} \ Complete

\* evaluate_twitter_upstream_presence.
TwitterQualification ==
    [full      |-> scan.cutoff = NoCutoff /\ \A m \in scan.models : scan.cursors[m] = NoCursor,
     filtered  |-> FALSE,
     truncated |-> scan.limit # "none" \/ Incomplete # {},
     sections  |-> scan.models \ {"likes"},
     observed  |-> Complete]

\* The resume cursors, the post ledger and the verdict.  A video that came back
\* counts as seen although the user wants none now.
TwitterRecordPosts ==
    /\ ~NoScan /\ scan.step = "posts"
    /\ resume' = IF scan.limit = "none" THEN Cleared(resume, scan.backfill)
                 ELSE [m \in Model |-> IF m \in scan.done THEN Completed
                                       ELSE IF m = scan.limit /\ scan.at # NoCursor THEN scan.at
                                       ELSE resume[m]]
    /\ Presence(TwitterQualification, Recorded(Complete, scan.found))
    /\ blame' = IF left \ left' \subseteq held \cup tombs THEN blame ELSE blame \cup {"unwanted"}
    /\ scan' = [scan EXCEPT !.step = "media"]
    /\ UNCHANGED <<published, shown, held, media, tombs, trouble, baseline, videos>>

\* A scan is the baseline of the next ones when it listed all of the media model
\* and got all of it.
IsBaseline ==
    /\ "media" \in scan.models /\ scan.cutoff = NoCutoff
    /\ scan.limit = "none" /\ ~scan.errors /\ Incomplete = {} /\ "media" \in scan.done
    /\ scan.newest > 0

\* The media ledger and the status.
TwitterRecordMedia ==
    /\ ~NoScan /\ scan.step = "media"
    /\ media' = media \cup scan.got
    /\ scan' = [scan EXCEPT !.step = IF scan.errors \/ scan.limit # "none"
                                     THEN "warning" ELSE "succeeded"]
    /\ UNCHANGED <<published, shown, held, ledger, tombs, left, trouble, blame, twitter_vars>>

\* The run with its summary.
TwitterEnd ==
    /\ ~NoScan /\ scan.step \in {"warning", "succeeded"}
    /\ baseline' = IF ~IsBaseline THEN baseline
                   ELSE [baseline EXCEPT ![scan.videos] =
                            IF scan.newest > Overlap THEN scan.newest - Overlap ELSE 0]
    /\ scan' = Idle
    /\ UNCHANGED <<published, shown, held, media, ledger, tombs, left, trouble, blame,
                   resume, videos>>

----------------------------------------------------------------------------
\* The full scan of a baseline is a week old, or twenty runs.
TwitterForget(v) ==
    /\ baseline[v] # NoCutoff
    /\ Happens
    /\ baseline' = [baseline EXCEPT ![v] = NoCutoff]
    /\ UNCHANGED <<published, shown, held, media, ledger, tombs, scan, left, blame,
                   resume, videos>>

TwitterToggle ==
    /\ Happens
    /\ videos' = ~videos
    /\ UNCHANGED <<published, shown, held, media, ledger, tombs, scan, left, blame,
                   resume, baseline>>

\* A download goes by the media ledger, which a stopped sync does not write.
TwitterDelete ==
    /\ \E p \in Post : /\ DeleteMedium(p, "media")
                      /\ blame' = IF p \in media THEN blame ELSE blame \cup {"unrecorded"}
    /\ UNCHANGED twitter_vars

TwitterNext ==
    \/ \E backfill \in BOOLEAN : TwitterStart(backfill)
    \/ TwitterList \/ TwitterRedirect \/ TwitterDownload
    \/ TwitterRecordPosts \/ TwitterRecordMedia \/ TwitterEnd \/ TwitterStop
    \/ \E v \in BOOLEAN : TwitterForget(v)
    \/ TwitterToggle
    \/ TwitterDelete
    \/ AuthorStep /\ UNCHANGED twitter_vars

TwitterSpec == PresenceInit /\ TwitterInit /\ [][TwitterNext]_<<profile_vars, twitter_vars>>
=============================================================================
