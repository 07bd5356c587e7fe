------------------------- MODULE ProviderSuccessProofs -------------------------
(***************************************************************************)
(* What a sync that ends as succeeded leaves behind: nothing, of what it   *)
(* answers for. For every number of posts, every setting of a profile and  *)
(* every amount of trouble.                                                *)
(***************************************************************************)
EXTENDS ProviderScansProofs

-----------------------------------------------------------------------------
(***************************************************************************)
(* Twitter: the models a sync lists, the cutoffs and cursors it lists      *)
(* them from, and what its parser downloads.                               *)
(***************************************************************************)

\* What a profile has: the file, or the user's word that he does not want it.
Here == held \cup tombs

\* Nothing happened that a sync which ends well does not notice.
Faultless == blame \cap {"short", "limited", "raised", "unwanted", "hidden", "dropped"} = {}

WantedWith(with_videos, p) == with_videos \/ p \notin Videos

\* What a run of model m answers for.
Answers(m, p) ==
    /\ m = "likes" => p \in Liked
    /\ scan.cursors[m] # NoCursor => p < scan.cursors[m]

\* Nothing the syncs go by was lost.
TwitterHas ==
    /\ media \subseteq Here
    /\ TwitterRuns => scan.on_disk \cup scan.got \subseteq Here

\* The cursors, the cutoffs and the times of what is listed stay where they can be, and
\* a sync answers for no more than it is asked for.
TwitterBounds ==
    /\ resume \in [Model -> Nat] /\ baseline \in [BOOLEAN -> Nat] /\ videos \in BOOLEAN
    /\ \A v \in BOOLEAN : baseline[v] # NoCutoff => baseline[v] <= published
    /\ TwitterRuns =>
          /\ scan.from <= published /\ published <= scan.from + ScanSpan
          /\ scan.at \in Nat
          /\ scan.videos \in BOOLEAN /\ scan.newest \in 0..published
          /\ \A m \in scan.models : scan.cursors[m] \in Nat
          /\ scan.cutoff \in Nat
          /\ scan.cutoff # NoCutoff =>
                /\ scan.cutoff <= scan.from
                /\ \A m \in scan.models : scan.cursors[m] = NoCursor
          /\ "timeline" \in scan.models => "media" \notin scan.models
          /\ scan.todo \subseteq scan.models
          /\ scan.span \subseteq 1..scan.from
          /\ \A p \in scan.span : WantedWith(scan.videos, p) /\ \E m \in scan.models : Answers(m, p)
          /\ scan.step = "succeeded" => ~scan.errors /\ scan.limit = "none"

\* All that is older than a cutoff is here, or has left.
Settles(cutoff, with_videos) ==
    cutoff # NoCutoff =>
        \A p \in 1..published : p < cutoff /\ WantedWith(with_videos, p) => p \in Here \cup left

TwitterBased ==
    Faultless =>
        /\ \A v \in BOOLEAN : Settles(baseline[v], v)
        /\ TwitterRuns => Settles(scan.cutoff, scan.videos)

\* What the models that were listed answer for was found, is here or has left; and what
\* a run that goes on in the middle of the media found is behind the cursor.
TwitterListed ==
    TwitterRuns /\ Faultless /\ scan.limit = "none" =>
        /\ \A m \in scan.models \ scan.todo : \A p \in 1..scan.from :
              Answers(m, p) /\ WantedWith(scan.videos, p) => p \in FoundPosts \cup Here \cup left
        /\ "media" \in scan.models /\ scan.cursors["media"] # NoCursor =>
              scan.newest = 0 \/ scan.newest < scan.cursors["media"]

\* A sync without an error got what it found.
TwitterFetched ==
    TwitterRuns /\ scan.step # "list" /\ ~scan.errors =>
        \A p \in FoundPosts : WantedWith(scan.videos, p) => p \in Here

TwitterKept == TwitterHas /\ TwitterBounds /\ TwitterBased /\ TwitterListed /\ TwitterFetched

LEMMA NewestIsOne ==
    ASSUME NEW N \in Nat, NEW times \in SUBSET (0..N), times # {}
    PROVE  /\ NewestOf(times) \in times
           /\ \A u \in times : u <= NewestOf(times)
  <1>1. \E t \in times : \A u \in times : u <= t
    <2>1. CASE times \cap (1..N) = {}
      <3>1. 0..N = {0} \cup (1..N)
            OBVIOUS
      <3>2. times = {0}
            BY <2>1, <3>1
      <3> QED BY <3>2
    <2>2. CASE times \cap (1..N) # {}
      <3>1. times \cap (1..N) \in SUBSET (1..N)
            OBVIOUS
      <3>2. PICK t \in times \cap (1..N) : \A u \in times \cap (1..N) : u <= t
            BY <2>2, <3>1, GreatestBelow
      <3>3. ASSUME NEW u \in times PROVE u <= t
        <4>1. u \in 0..N /\ t \in 1..N
              OBVIOUS
        <4>2. CASE u = 0
              BY <4>1, <4>2
        <4>3. CASE u # 0
              BY <3>2, <4>1, <4>3
        <4> QED BY <4>2, <4>3
      <3> QED BY <3>3
    <2> QED BY <2>1, <2>2
  <1> QED BY <1>1 DEF NewestOf

LEMMA TwitterKeptInitial == PresenceInit /\ TwitterInit => TwitterKept
  <1> SUFFICES ASSUME PresenceInit, TwitterInit PROVE TwitterKept
      OBVIOUS
  <1>1. scan = Idle /\ ~TwitterRuns
        BY TwitterRunsOrIdle DEF PresenceInit
  <1>2. TwitterHas
        BY <1>1 DEF PresenceInit, TwitterHas
  <1>3. TwitterBounds
        BY <1>1, PresenceAssumption DEF TwitterInit, TwitterBounds, NoCursor, NoCutoff
  <1>4. TwitterBased
        BY <1>1 DEF TwitterInit, TwitterBased, Settles
  <1> QED BY <1>1, <1>2, <1>3, <1>4 DEF TwitterKept, TwitterListed, TwitterFetched

\* What is older than a cutoff stays here or gone.
LEMMA SettledStays ==
    ASSUME NEW cutoff \in Nat, NEW with_videos, Settles(cutoff, with_videos),
           cutoff # NoCutoff => cutoff <= published,
           published \in Nat, published' \in Nat, published <= published',
           Here \subseteq Here', left \subseteq left' \cup Here'
    PROVE  cutoff # NoCutoff =>
              \A p \in 1..published' :
                 p < cutoff /\ WantedWith(with_videos, p) => p \in Here' \cup left'
  <1> SUFFICES ASSUME cutoff # NoCutoff, NEW p \in 1..published', p < cutoff,
                      WantedWith(with_videos, p)
               PROVE  p \in Here' \cup left'
      OBVIOUS
  <1>1. p \in 1..published
        OBVIOUS
  <1> QED BY <1>1 DEF Settles

\* A step beside a Twitter sync.
LEMMA TwitterKeptBeside ==
    ASSUME TwitterInv, TwitterKept, scan' = scan, resume' = resume, videos' \in BOOLEAN,
           baseline' \in [BOOLEAN -> Nat],
           \A v \in BOOLEAN : baseline'[v] \in {baseline[v], NoCutoff},
           published' \in Nat, published <= published',
           TwitterRuns => published' <= scan.from + ScanSpan,
           Here \subseteq Here', media' \subseteq Here', left \subseteq left', blame \subseteq blame'
    PROVE  TwitterKept'
  <1> USE DEF TwitterKept
  <1>1. /\ published \in Nat /\ (Faultless' => Faultless)
        /\ (TwitterRuns' <=> TwitterRuns) /\ FoundPosts' = FoundPosts
        BY PresenceAssumption
        DEF TwitterInv, ProfileSound, PresenceTypeOK, Faultless, TwitterRuns, FoundPosts
  <1>2. TwitterHas'
        BY <1>1 DEF TwitterHas
  <1>3. TwitterBounds'
    <2>1. \A v \in BOOLEAN : baseline'[v] # NoCutoff => baseline'[v] <= published'
      <3> SUFFICES ASSUME NEW v \in BOOLEAN, baseline'[v] # NoCutoff
                   PROVE  baseline'[v] <= published'
          OBVIOUS
      <3>1. baseline'[v] = baseline[v] /\ baseline[v] <= published /\ baseline[v] \in Nat
            BY DEF TwitterBounds
      <3> QED BY <1>1, <3>1
    <2>2. TwitterRuns => scan.from <= published' /\ scan.newest \in 0..published'
      <3> SUFFICES ASSUME TwitterRuns PROVE scan.from <= published' /\ scan.newest \in 0..published'
          OBVIOUS
      <3>1. scan.from \in Nat /\ scan.from <= published /\ scan.newest \in 0..published
            BY PresenceAssumption DEF TwitterBounds, TwitterRuns
      <3> QED BY <1>1, <3>1
    <2> QED BY <1>1, <2>1, <2>2 DEF TwitterBounds, Answers
  <1>4. TwitterBased'
    <2> SUFFICES ASSUME Faultless'
                 PROVE  /\ \A v \in BOOLEAN : Settles(baseline[v], v)'
                        /\ TwitterRuns' => Settles(scan.cutoff, scan.videos)'
        BY DEF TwitterBased
    <2>1. ASSUME NEW v \in BOOLEAN PROVE Settles(baseline[v], v)'
      <3>1. CASE baseline'[v] = NoCutoff
            BY <3>1 DEF Settles
      <3>2. CASE baseline'[v] = baseline[v]
        <4>1. /\ baseline[v] \in Nat /\ Settles(baseline[v], v)
              /\ baseline[v] # NoCutoff => baseline[v] <= published
              BY <1>1 DEF TwitterBased, TwitterBounds
        <4>2. baseline[v] # NoCutoff =>
                 \A p \in 1..published' : p < baseline[v] /\ WantedWith(v, p) => p \in Here' \cup left'
              BY <1>1, <4>1, SettledStays
        <4> QED BY <3>2, <4>2 DEF Settles, WantedWith
      <3> QED BY <3>1, <3>2
    <2>2. ASSUME TwitterRuns' PROVE Settles(scan.cutoff, scan.videos)'
      <3>1. /\ scan.cutoff \in Nat /\ Settles(scan.cutoff, scan.videos)
            /\ scan.cutoff # NoCutoff => scan.cutoff <= published
        <4>1. /\ scan.cutoff \in Nat /\ scan.from \in Nat /\ scan.from <= published
              /\ scan.cutoff # NoCutoff => scan.cutoff <= scan.from
              BY <1>1, <2>2, PresenceAssumption DEF TwitterBounds, TwitterRuns
        <4> QED BY <1>1, <2>2, <4>1 DEF TwitterBased
      <3>2. scan.cutoff # NoCutoff =>
               \A p \in 1..published' :
                  p < scan.cutoff /\ WantedWith(scan.videos, p) => p \in Here' \cup left'
            BY <1>1, <3>1, SettledStays
      <3> QED BY <3>2 DEF Settles, WantedWith
    <2> QED BY <2>1, <2>2
  <1>5. TwitterListed'
        BY <1>1 DEF TwitterListed, Answers, WantedWith
  <1>6. TwitterFetched'
        BY <1>1 DEF TwitterFetched, WantedWith
  <1> QED BY <1>2, <1>3, <1>4, <1>5, <1>6

LEMMA TwitterKeptStarts ==
    ASSUME TwitterInv, TwitterKept, TwitterInv', NEW backfill \in BOOLEAN, TwitterStart(backfill)
    PROVE  TwitterKept'
  <1> USE DEF TwitterKept
  <1> DEFINE left_over == {m \in Phase(backfill) : resume[m] # Completed}
             cursors == IF left_over = {} THEN Cleared(resume, backfill) ELSE resume
             models == IF left_over = {} THEN Phase(backfill) ELSE left_over
             asked == {p \in Asked(videos, models) :
                         \E m \in models : /\ m = "likes" => p \in Liked
                                           /\ cursors[m] # NoCursor => p < cursors[m]}
             standing == [m \in models |-> cursors[m]]
             cutoff == CutoffFor(backfill)
  <1>1. /\ published' = published /\ tombs' = tombs /\ left' = left /\ blame' = blame
        /\ held' = held /\ media' = media /\ baseline' = baseline /\ videos' = videos
        /\ resume' = cursors
        BY DEF TwitterStart
  <1>2. scan' = [step |-> "list", backfill |-> backfill, from |-> published,
                 models |-> models, todo |-> models, cursors |-> standing, cutoff |-> cutoff,
                 videos |-> videos, on_disk |-> held,
                 found |-> [p \in Post |-> "none"], got |-> {}, errors |-> FALSE,
                 done |-> {}, limit |-> "none", at |-> NoCursor,
                 newest |-> 0, redirected |-> FALSE, span |-> asked]
        BY DEF TwitterStart
  <1>3. /\ resume \in [Model -> Nat] /\ baseline \in [BOOLEAN -> Nat] /\ videos \in BOOLEAN
        /\ published \in Nat
        BY PresenceAssumption DEF TwitterBounds, TwitterInv, ProfileSound, PresenceTypeOK
  <1>4. /\ Phase(backfill) \subseteq Model /\ models \subseteq Phase(backfill)
        /\ "timeline" \in models => "media" \notin models
        BY TwitterAssumption DEF Phase, Model
  <1>5. Cleared(resume, backfill) \in [Model -> Nat] /\ cursors \in [Model -> Nat]
        BY <1>3 DEF Cleared, NoCursor
  <1>6. /\ cutoff \in Nat
        /\ cutoff # NoCutoff => /\ cutoff = baseline[videos]
                                /\ \A m \in models : cursors[m] = NoCursor
    <2>1. CASE ~backfill /\ "media" \in Models /\ \A m \in Models : resume[m] = NoCursor
      <3>1. cutoff = baseline[videos] /\ Phase(backfill) = Models
            BY <2>1 DEF CutoffFor, Phase
      <3>2. \A m \in Models : cursors[m] = NoCursor
            BY <1>3, <1>4, <2>1, <3>1 DEF Cleared
      <3> QED BY <1>3, <1>4, <3>1, <3>2
    <2>2. CASE ~(~backfill /\ "media" \in Models /\ \A m \in Models : resume[m] = NoCursor)
          BY <2>2, PresenceAssumption DEF CutoffFor, NoCutoff
    <2> QED BY <2>1, <2>2
  <1>7. \A p \in asked : /\ p \in 1..published /\ WantedWith(videos, p)
                         /\ \E m \in models : /\ m = "likes" => p \in Liked
                                              /\ standing[m] # NoCursor => p < standing[m]
        BY DEF Asked, WantedWith
  <1>8. \A m \in models : standing[m] = cursors[m] /\ standing[m] \in Nat
        BY <1>4, <1>5
  <1> HIDE DEF models, cursors, asked, standing, cutoff
  <1>9. TwitterRuns' /\ Here' = Here /\ (Faultless' <=> Faultless)
    <2>1. ~NoScan'
          BY <1>2 DEF NoScan, Idle
    <2> QED BY <1>1, <2>1 DEF TwitterInv, Here, Faultless
  <1>10. TwitterHas'
        BY <1>1, <1>2, <1>9 DEF TwitterHas, Here
  <1>11. TwitterBounds'
    <2>1. cutoff # NoCutoff => cutoff <= published
          BY <1>3, <1>6 DEF TwitterBounds
    <2>2. /\ scan'.from = published /\ scan'.videos = videos /\ scan'.newest = 0
          /\ scan'.models = models /\ scan'.todo = models /\ scan'.cursors = standing
          /\ scan'.cutoff = cutoff /\ scan'.span = asked /\ scan'.step = "list"
          /\ scan'.at = NoCursor /\ NoCursor \in Nat
          BY <1>2 DEF NoCursor
    <2>3. published <= published + ScanSpan /\ 0 \in 0..published /\ published <= published
          BY <1>3, PresenceAssumption
    <2>4. \A p \in asked : WantedWith(videos, p)' <=> WantedWith(videos, p)
          BY <1>1 DEF WantedWith
    <2>5. resume' \in [Model -> Nat]
          BY <1>1, <1>5
    <2>6. \A p \in scan'.span : /\ p \in 1..scan'.from /\ WantedWith(scan.videos, p)'
                                /\ \E m \in scan'.models : Answers(m, p)'
          BY <1>7, <2>2 DEF Answers, WantedWith
    <2> QED BY <1>1, <1>3, <1>4, <1>6, <1>8, <2>1, <2>2, <2>3, <2>5, <2>6 DEF TwitterBounds
  <1>12. TwitterBased'
    <2>1. scan'.cutoff = cutoff /\ scan'.videos = videos
          BY <1>2
    <2> QED BY <1>1, <1>3, <1>6, <1>9, <2>1 DEF TwitterBased, Settles, WantedWith
  <1>13. TwitterListed'
    <2>1. scan'.models \ scan'.todo = {} /\ scan'.newest = 0
          BY <1>2
    <2> QED BY <2>1 DEF TwitterListed
  <1>14. TwitterFetched'
        BY <1>2 DEF TwitterFetched
  <1> QED BY <1>10, <1>11, <1>12, <1>13, <1>14

LEMMA TwitterKeptRedirects ==
    ASSUME TwitterInv, TwitterKept, TwitterInv', TwitterRedirect
    PROVE  TwitterKept'
  <1> USE DEF TwitterKept
  <1> DEFINE models == Phase(scan.backfill)
             asked == {p \in 1..scan.from : p \in Asked(scan.videos, models)}
             standing == [m \in models |-> NoCursor]
  <1>1. /\ published' = published /\ tombs' = tombs /\ left' = left /\ blame' = blame
        /\ held' = held /\ media' = media /\ baseline' = baseline /\ videos' = videos
        /\ resume' = Cleared(resume, scan.backfill)
        /\ scan.step = "list"
        /\ scan' = [scan EXCEPT !.redirected = TRUE, !.models = models, !.todo = models,
                                !.cursors = standing, !.cutoff = NoCutoff,
                                !.done = {}, !.newest = 0, !.errors = FALSE, !.span = asked]
        BY DEF TwitterRedirect
  <1>2. TwitterRuns /\ models \in SUBSET Model
        /\ ("timeline" \in models => "media" \notin models)
        /\ models # {}
        BY TwitterAssumption DEF TwitterInv, TwitterRedirect, Phase, Model
  <1>3. /\ resume' \in [Model -> Nat] /\ baseline \in [BOOLEAN -> Nat] /\ videos \in BOOLEAN
        /\ published \in Nat /\ scan.from \in Nat
    <2>1. resume \in [Model -> Nat] /\ baseline \in [BOOLEAN -> Nat] /\ videos \in BOOLEAN
          BY DEF TwitterBounds
    <2>2. Cleared(resume, scan.backfill) \in [Model -> Nat]
          BY <2>1 DEF Cleared, NoCursor
    <2>3. published \in Nat /\ scan.from \in Nat
          BY <1>2, PresenceAssumption DEF TwitterInv, ProfileSound, PresenceTypeOK, TwitterRuns
    <2> QED BY <1>1, <2>1, <2>2, <2>3
  <1>4. \A p \in asked : p \in 1..scan.from /\ WantedWith(scan.videos, p) /\ p \in Asked(scan.videos, models)
        BY DEF Asked, WantedWith
  <1>5. \A p \in asked : \E m \in models : m = "likes" => p \in Liked
        BY <1>2, <1>4 DEF Asked
  <1>6. \A m \in models : standing[m] = NoCursor
        OBVIOUS
  <1> HIDE DEF models, asked, standing
  <1>7. /\ scan'.from = scan.from /\ scan'.videos = scan.videos /\ scan'.newest = 0
        /\ scan'.models = models /\ scan'.todo = models /\ scan'.cursors = standing
        /\ scan'.cutoff = NoCutoff /\ scan'.span = asked /\ scan'.step = "list"
        /\ scan'.on_disk = scan.on_disk /\ scan'.got = scan.got /\ scan'.at = scan.at
        BY <1>1, <1>2 DEF TwitterRuns
  <1>8. TwitterRuns' /\ Here' = Here /\ (Faultless' <=> Faultless)
    <2>1. ~NoScan'
          BY <1>7 DEF NoScan, Idle
    <2> QED BY <1>1, <2>1 DEF TwitterInv, Here, Faultless
  <1>9. TwitterHas'
        BY <1>1, <1>2, <1>7, <1>8 DEF TwitterHas
  <1>10. TwitterBounds'
    <2>1. NoCutoff \in Nat /\ NoCursor \in Nat /\ 0 \in 0..published
          BY <1>3, PresenceAssumption DEF NoCutoff, NoCursor
    <2>2. \A p \in scan'.span : /\ p \in 1..scan'.from /\ WantedWith(scan.videos, p)'
                                /\ \E m \in scan'.models : Answers(m, p)'
          BY <1>4, <1>5, <1>6, <1>7 DEF Answers, WantedWith
    <2> QED BY <1>1, <1>2, <1>3, <1>6, <1>7, <2>1, <2>2 DEF TwitterBounds
  <1>11. TwitterBased'
        BY <1>1, <1>7, <1>8 DEF TwitterBased, Settles, WantedWith
  <1>12. TwitterListed'
    <2>1. scan'.models \ scan'.todo = {} /\ scan'.newest = 0
          BY <1>7
    <2> QED BY <2>1 DEF TwitterListed
  <1>13. TwitterFetched'
        BY <1>7 DEF TwitterFetched
  <1> QED BY <1>9, <1>10, <1>11, <1>12, <1>13

\* What a model answers for is in its listing, has left or was settled before.
LEMMA ListingIsWhole ==
    ASSUME TwitterInv, TwitterKept, TwitterRuns, Faultless, NEW m \in scan.models,
           NEW p \in 1..scan.from, Answers(m, p), WantedWith(scan.videos, p)
    PROVE  p \in ListingOf(m) \cup Here \cup left
  <1>1. /\ scan.from \in Nat /\ published \in Nat /\ scan.from <= published
        /\ scan.cutoff \in Nat
        BY PresenceAssumption
        DEF TwitterInv, ProfileSound, PresenceTypeOK, TwitterRuns, TwitterKept, TwitterBounds
  <1>2. p \in 1..published
        BY <1>1
  <1>3. CASE p \notin shown
        BY <1>2, <1>3 DEF TwitterInv, ProfileSound, HiddenHaveLeft
  <1>4. CASE scan.cutoff # NoCutoff /\ ~(p >= scan.cutoff)
    <2>1. p < scan.cutoff
          BY <1>1, <1>2, <1>4
    <2> QED BY <1>2, <1>4, <2>1 DEF TwitterKept, TwitterBased, Settles
  <1>5. CASE p \in shown /\ (scan.cutoff # NoCutoff => p >= scan.cutoff)
        BY <1>5 DEF ListingOf, Answers
  <1> QED BY <1>3, <1>4, <1>5

LEMMA OwnedArePosts ==
    ASSUME TwitterInv, TwitterRuns, NEW m \in Model, NEW posts \in SUBSET (1..published),
           scan'.found = Owned(m, posts)
    PROVE  FoundPosts' = FoundPosts \cup posts
  <1>1. posts \subseteq Post
        BY PresenceAssumption DEF TwitterInv, ProfileSound, PresenceTypeOK, Post
  <1>2. \A p \in Post : scan'.found[p] = IF p \in posts /\ scan.found[p] = "none" THEN m
                                         ELSE scan.found[p]
        BY DEF Owned
  <1> QED BY <1>1, <1>2 DEF FoundPosts, Model

\* A listing changes of a sync what it found; one that ends it says so, or is faulty.
LEMMA TwitterKeptListed ==
    ASSUME TwitterInv, TwitterKept, TwitterInv', TwitterRuns, scan.step = "list",
           published' = published, tombs' = tombs, left' = left, held' = held, media' = media,
           resume' = resume, baseline' = baseline, videos' = videos, blame \subseteq blame',
           scan'.step = "list", scan'.from = scan.from, scan'.models = scan.models,
           scan'.todo \subseteq scan.todo, scan'.cursors = scan.cursors,
           scan'.cutoff = scan.cutoff, scan'.videos = scan.videos,
           scan'.on_disk = scan.on_disk, scan'.got = scan.got, scan'.span = scan.span,
           scan'.newest \in 0..published, scan'.at \in Nat,
           NEW m \in scan.todo,
           Faultless' /\ scan'.limit = "none" =>
              /\ scan.limit = "none" /\ scan'.todo = scan.todo \ {m}
              /\ FoundPosts' = FoundPosts \cup ListingOf(m)
              /\ "media" \in scan.models /\ scan.cursors["media"] # NoCursor =>
                    scan'.newest = 0 \/ scan'.newest < scan.cursors["media"]
    PROVE  TwitterKept'
  <1> USE DEF TwitterKept
  <1>1. TwitterRuns' /\ Here' = Here /\ (Faultless' => Faultless)
    <2>1. ~NoScan'
          BY DEF NoScan, Idle
    <2> QED BY <2>1 DEF TwitterInv, Here, Faultless
  <1>2. TwitterHas'
        BY <1>1 DEF TwitterHas
  <1>3. TwitterBounds'
        BY <1>1 DEF TwitterBounds, Answers, WantedWith
  <1>4. TwitterBased'
        BY <1>1 DEF TwitterBased, Settles, WantedWith
  <1>5. TwitterListed'
    <2> SUFFICES ASSUME Faultless', scan'.limit = "none"
                 PROVE  /\ \A n \in scan.models \ scan'.todo : \A p \in 1..scan.from :
                              Answers(n, p) /\ WantedWith(scan.videos, p) =>
                                  p \in FoundPosts' \cup Here \cup left
                        /\ "media" \in scan.models /\ scan.cursors["media"] # NoCursor =>
                              scan'.newest = 0 \/ scan'.newest < scan.cursors["media"]
        BY <1>1 DEF TwitterListed, Answers, WantedWith
    <2>1. /\ scan.limit = "none" /\ scan'.todo = scan.todo \ {m} /\ Faultless
          /\ FoundPosts' = FoundPosts \cup ListingOf(m)
          BY <1>1
    <2>2. ASSUME NEW n \in scan.models \ scan'.todo, NEW p \in 1..scan.from, Answers(n, p),
                 WantedWith(scan.videos, p)
          PROVE  p \in FoundPosts' \cup Here \cup left
      <3>1. CASE n = m
        <4>1. p \in ListingOf(m) \cup Here \cup left
              BY <2>1, <2>2, <3>1, ListingIsWhole
        <4> QED BY <2>1, <4>1
      <3>2. CASE n # m
        <4>1. n \in scan.models \ scan.todo
              BY <2>1, <3>2
        <4> QED BY <2>1, <2>2, <4>1 DEF TwitterListed
      <3> QED BY <3>1, <3>2
    <2> QED BY <2>2
  <1>6. TwitterFetched'
        BY DEF TwitterFetched
  <1> QED BY <1>2, <1>3, <1>4, <1>5, <1>6

LEMMA TwitterKeptLists ==
    ASSUME TwitterInv, TwitterKept, TwitterInv', TwitterList
    PROVE  TwitterKept'
  <1> DEFINE m == First(scan.todo)
  <1>1. /\ published' = published /\ tombs' = tombs /\ left' = left /\ held' = held
        /\ media' = media /\ resume' = resume /\ baseline' = baseline /\ videos' = videos
        BY DEF TwitterList, twitter_vars
  <1>2. /\ TwitterRuns /\ scan.step = "list" /\ scan.todo # {} /\ scan.todo \in SUBSET Model
        /\ published \in Nat
        BY PresenceAssumption
        DEF TwitterInv, TwitterList, TwitterRuns, ProfileSound, PresenceTypeOK
  <1>3. m \in scan.todo /\ m \in Model
        BY <1>2, FirstOfModels
  <1>4. ListToEnd(m) \/ DieMidway(m) \/ FailModel(m) \/ HitLimit(m) \/ ListElsewhere(m)
        BY DEF TwitterList
  <1> HIDE DEF m
  <1>5. /\ scan.newest \in 0..published /\ ListingOf(m) \subseteq 1..published
        /\ scan.todo \subseteq scan.models
        /\ "timeline" \in scan.models => "media" \notin scan.models
        /\ \A n \in scan.models : scan.cursors[n] \in Nat
        /\ scan.at \in Nat
    <2>1. ListingOf(m) \subseteq shown
          BY DEF ListingOf
    <2> QED BY <1>2, <2>1
            DEF TwitterKept, TwitterBounds, TwitterInv, ProfileSound, PresenceTypeOK
  <1>6. ASSUME NEW posts \in SUBSET ListingOf(m)
        PROVE  NewestOf({scan.newest} \cup posts) \in 0..published
    <2>1. {scan.newest} \cup posts \in SUBSET (0..published) /\ {scan.newest} \cup posts # {}
          BY <1>2, <1>5
    <2>2. NewestOf({scan.newest} \cup posts) \in {scan.newest} \cup posts
          BY <1>2, <2>1, NewestIsOne
    <2> QED BY <2>1, <2>2
  <1>7. blame \cup {"short"} = blame' => ~Faultless'
        BY DEF Faultless
  <1>8. CASE ListToEnd(m)
    <2>1. PICK t \in (IF m = "likes" THEN 0..published ELSE {0}) :
             LET newest == NewestOf({scan.newest, t} \cup ListingOf(m)) IN
             /\ scan' = [scan EXCEPT !.todo = @ \ {m}, !.done = @ \cup {m},
                                     !.found = Owned(m, ListingOf(m)), !.newest = newest]
             /\ blame' = IF /\ m = "likes" /\ newest > scan.newest
                            /\ "media" \in scan.models /\ scan.cursors["media"] # NoCursor
                         THEN blame \cup {"raised"} ELSE blame
          BY <1>8 DEF ListToEnd
    <2> DEFINE times == {scan.newest, t} \cup ListingOf(m)
               newest == NewestOf(times)
    <2>2. times \in SUBSET (0..published) /\ times # {}
          BY <1>2, <1>5
    <2>3. newest \in times
          BY <1>2, <2>2, NewestIsOne
    <2>4. blame' = IF /\ m = "likes" /\ newest > scan.newest
                      /\ "media" \in scan.models /\ scan.cursors["media"] # NoCursor
                   THEN blame \cup {"raised"} ELSE blame
          BY <2>1
    <2>5. scan' = [scan EXCEPT !.todo = @ \ {m}, !.done = @ \cup {m},
                               !.found = Owned(m, ListingOf(m)), !.newest = newest]
          BY <2>1
    <2> HIDE DEF newest
    <2>6. /\ scan'.step = "list" /\ scan'.from = scan.from /\ scan'.models = scan.models
          /\ scan'.todo = scan.todo \ {m} /\ scan'.cursors = scan.cursors
          /\ scan'.cutoff = scan.cutoff /\ scan'.videos = scan.videos
          /\ scan'.on_disk = scan.on_disk /\ scan'.got = scan.got /\ scan'.span = scan.span
          /\ scan'.newest = newest /\ scan'.limit = scan.limit /\ scan'.at = scan.at
          /\ scan'.found = Owned(m, ListingOf(m))
          BY <1>2, <2>5 DEF TwitterRuns
    <2>7. blame \subseteq blame' /\ FoundPosts' = FoundPosts \cup ListingOf(m)
          BY <1>2, <1>3, <1>5, <2>4, <2>6, OwnedArePosts
    <2>8. ASSUME Faultless', scan.limit = "none", "media" \in scan.models,
                 scan.cursors["media"] # NoCursor
          PROVE  newest = 0 \/ newest < scan.cursors["media"]
      <3>1. /\ scan.newest \in Nat /\ newest \in Nat /\ scan.cursors["media"] \in Nat
            /\ scan.newest = 0 \/ scan.newest < scan.cursors["media"]
        <4>1. Faultless
              BY <2>7, <2>8 DEF Faultless
        <4>2. scan.newest = 0 \/ scan.newest < scan.cursors["media"]
              BY <1>2, <2>8, <4>1 DEF TwitterKept, TwitterListed
        <4> QED BY <1>2, <1>5, <2>2, <2>3, <2>8, <4>2
      <3>2. CASE m = "media"
        <4>1. t = 0 /\ \A p \in ListingOf(m) : p < scan.cursors["media"]
              BY <2>8, <3>2 DEF ListingOf
        <4> QED BY <2>3, <3>1, <4>1
      <3>3. CASE m = "likes"
        <4>1. ~(newest > scan.newest)
          <5>1. "raised" \notin blame'
                BY <2>8 DEF Faultless
          <5> QED BY <2>4, <2>8, <3>3, <5>1
        <4> QED BY <3>1, <4>1
      <3>4. m # "timeline"
            BY <1>3, <1>5, <2>8
      <3> QED BY <1>3, <3>2, <3>3, <3>4 DEF Model
    <2>9. newest \in 0..published /\ scan'.todo \subseteq scan.todo
          BY <2>2, <2>3, <2>6
    <2> QED BY <1>1, <1>2, <1>3, <1>5, <2>6, <2>7, <2>8, <2>9, TwitterKeptListed
  <1>9. CASE DieMidway(m)
    <2>1. PICK k \in Cursor :
             /\ blame' = blame \cup {"short"}
             /\ scan' = [scan EXCEPT !.todo = @ \ {m}, !.done = @ \cup {m},
                                     !.found = Owned(m, {p \in ListingOf(m) : p >= k}),
                                     !.newest = NewestOf({@} \cup {p \in ListingOf(m) : p >= k})]
          BY <1>9 DEF DieMidway
    <2>2. /\ scan'.step = "list" /\ scan'.from = scan.from /\ scan'.models = scan.models
          /\ scan'.todo = scan.todo \ {m} /\ scan'.cursors = scan.cursors
          /\ scan'.cutoff = scan.cutoff /\ scan'.videos = scan.videos
          /\ scan'.on_disk = scan.on_disk /\ scan'.got = scan.got /\ scan'.span = scan.span
          /\ scan'.newest = NewestOf({scan.newest} \cup {p \in ListingOf(m) : p >= k})
          /\ scan'.at = scan.at
          BY <1>2, <2>1 DEF TwitterRuns
    <2>3. scan'.newest \in 0..published /\ scan'.todo \subseteq scan.todo
          /\ blame \subseteq blame' /\ ~Faultless'
      <3>1. {p \in ListingOf(m) : p >= k} \in SUBSET ListingOf(m)
            OBVIOUS
      <3> QED BY <1>6, <1>7, <2>1, <2>2, <3>1
    <2> QED BY <1>1, <1>2, <1>3, <1>5, <2>2, <2>3, TwitterKeptListed
  <1>10. CASE FailModel(m)
    <2>1. blame' = blame \cup {"short"} /\ scan' = [scan EXCEPT !.todo = @ \ {m}, !.errors = TRUE]
          BY <1>10 DEF FailModel
    <2>2. /\ scan'.step = "list" /\ scan'.from = scan.from /\ scan'.models = scan.models
          /\ scan'.todo = scan.todo \ {m} /\ scan'.cursors = scan.cursors
          /\ scan'.cutoff = scan.cutoff /\ scan'.videos = scan.videos
          /\ scan'.on_disk = scan.on_disk /\ scan'.got = scan.got /\ scan'.span = scan.span
          /\ scan'.newest = scan.newest /\ scan'.at = scan.at
          BY <1>2, <2>1 DEF TwitterRuns
    <2>3. scan'.newest \in 0..published /\ scan'.todo \subseteq scan.todo
          /\ blame \subseteq blame' /\ ~Faultless'
          BY <1>5, <1>7, <2>1, <2>2
    <2> QED BY <1>1, <1>2, <1>3, <1>5, <2>2, <2>3, TwitterKeptListed
  <1>11. CASE HitLimit(m)
    <2>1. blame' = blame
          BY <1>11 DEF HitLimit
    <2>2. PICK k \in Cursor, stands \in Cursor \cup {NoCursor} :
             scan' = [scan EXCEPT !.todo = {}, !.limit = m, !.at = stands,
                                  !.found = Owned(m, {p \in ListingOf(m) : p >= k}),
                                  !.newest = NewestOf({@} \cup {p \in ListingOf(m) : p >= k})]
          BY <1>11 DEF HitLimit
    <2>3. /\ scan'.step = "list" /\ scan'.from = scan.from /\ scan'.models = scan.models
          /\ scan'.todo = {} /\ scan'.cursors = scan.cursors
          /\ scan'.cutoff = scan.cutoff /\ scan'.videos = scan.videos
          /\ scan'.on_disk = scan.on_disk /\ scan'.got = scan.got /\ scan'.span = scan.span
          /\ scan'.newest = NewestOf({scan.newest} \cup {p \in ListingOf(m) : p >= k})
          /\ scan'.limit = m /\ scan'.at = stands
          BY <1>2, <2>2 DEF TwitterRuns
    <2>4. scan'.newest \in 0..published /\ scan'.todo \subseteq scan.todo
          /\ blame \subseteq blame' /\ scan'.limit # "none" /\ scan'.at \in Nat
      <3>1. {p \in ListingOf(m) : p >= k} \in SUBSET ListingOf(m) /\ m # "none"
            BY <1>3 DEF Model
      <3>2. stands \in Nat
            BY PresenceAssumption DEF Cursor, NoCursor
      <3> QED BY <1>6, <2>1, <2>3, <3>1, <3>2
    <2> QED BY <1>1, <1>2, <1>3, <2>3, <2>4, TwitterKeptListed
  <1>12. CASE ListElsewhere(m)
    <2>1. /\ blame' = blame \cup {"short"}
          /\ scan' = [scan EXCEPT !.todo = {}, !.done = @ \cup {m}]
          BY <1>12 DEF ListElsewhere
    <2>2. /\ scan'.step = "list" /\ scan'.from = scan.from /\ scan'.models = scan.models
          /\ scan'.todo = {} /\ scan'.cursors = scan.cursors
          /\ scan'.cutoff = scan.cutoff /\ scan'.videos = scan.videos
          /\ scan'.on_disk = scan.on_disk /\ scan'.got = scan.got /\ scan'.span = scan.span
          /\ scan'.newest = scan.newest /\ scan'.at = scan.at
          BY <1>2, <2>1 DEF TwitterRuns
    <2>3. scan'.newest \in 0..published /\ scan'.todo \subseteq scan.todo
          /\ blame \subseteq blame' /\ ~Faultless'
          BY <1>5, <1>7, <2>1, <2>2
    <2> QED BY <1>1, <1>2, <1>3, <1>5, <2>2, <2>3, TwitterKeptListed
  <1> QED BY <1>4, <1>8, <1>9, <1>10, <1>11, <1>12

\* A sync that is over says nothing but what it leaves.
LEMMA TwitterKeptOver ==
    ASSUME TwitterInv, TwitterKept, TwitterInv', scan' = Idle,
           published' = published, left' = left, resume' = resume, videos' = videos,
           Here \subseteq Here', media' \subseteq Here', blame' = blame,
           baseline' \in [BOOLEAN -> Nat],
           \A v \in BOOLEAN :
              \/ baseline'[v] = baseline[v]
              \/ /\ baseline'[v] <= published
                 /\ Faultless => \A p \in 1..published : p < baseline'[v] /\ WantedWith(v, p) =>
                                     p \in Here' \cup left
    PROVE  TwitterKept'
  <1> USE DEF TwitterKept
  <1>1. ~TwitterRuns'
    <2>1. TwitterRuns' => scan'.step \in TwitterStep
          BY DEF TwitterRuns
    <2> QED BY <2>1 DEF Idle, TwitterStep
  <1>2. Faultless' <=> Faultless
        BY DEF Faultless
  <1>3. TwitterHas'
        BY <1>1 DEF TwitterHas
  <1>4. TwitterBounds'
        BY <1>1 DEF TwitterBounds
  <1>5. TwitterBased'
    <2> SUFFICES ASSUME Faultless, NEW v \in BOOLEAN, baseline'[v] # NoCutoff,
                        NEW p \in 1..published, p < baseline'[v], WantedWith(v, p)
                 PROVE  p \in Here' \cup left
        BY <1>1, <1>2 DEF TwitterBased, Settles, WantedWith
    <2>1. CASE baseline'[v] = baseline[v]
          BY <2>1 DEF TwitterBased, Settles
    <2> QED BY <2>1
  <1> QED BY <1>1, <1>3, <1>4, <1>5 DEF TwitterListed, TwitterFetched

LEMMA TwitterKeptFetches ==
    ASSUME TwitterInv, TwitterKept, TwitterInv', TwitterDownload \/ TwitterStop
    PROVE  TwitterKept'
  <1> USE DEF TwitterKept
  <1>1. /\ published' = published /\ tombs' = tombs /\ left' = left /\ media' = media
        /\ blame' = blame /\ resume' = resume /\ baseline' = baseline /\ videos' = videos
        BY DEF TwitterDownload, TwitterStop, twitter_vars
  <1>2. TwitterRuns
        BY DEF TwitterInv, TwitterDownload, TwitterStop, Listed
  <1>3. media' \subseteq Here' /\ Here \subseteq Here'
    <2>1. held \subseteq held'
          BY DEF TwitterDownload, TwitterStop
    <2> QED BY <1>1, <2>1 DEF TwitterHas, Here
  <1>4. CASE TwitterStop
    <2>1. scan' = Idle /\ baseline \in [BOOLEAN -> Nat]
          BY <1>4 DEF TwitterStop, TwitterBounds
    <2> QED BY <1>1, <1>3, <2>1, TwitterKeptOver
  <1>5. CASE TwitterDownload
    <2>1. PICK got \in SUBSET ToFetch :
             /\ held' = held \cup got
             /\ scan' = [scan EXCEPT !.step = "posts", !.got = got, !.errors = @ \/ got # ToFetch]
          BY <1>5 DEF TwitterDownload
    <2>2. scan.step = "list" /\ scan.todo = {}
          BY <1>5 DEF TwitterDownload, Listed
    <2>3. /\ scan'.step = "posts" /\ scan'.from = scan.from /\ scan'.models = scan.models
          /\ scan'.todo = scan.todo /\ scan'.cursors = scan.cursors
          /\ scan'.cutoff = scan.cutoff /\ scan'.videos = scan.videos
          /\ scan'.on_disk = scan.on_disk /\ scan'.span = scan.span
          /\ scan'.newest = scan.newest /\ scan'.limit = scan.limit /\ scan'.at = scan.at
          /\ scan'.found = scan.found /\ scan'.got = got
          /\ scan'.errors = (scan.errors \/ got # ToFetch)
          BY <1>2, <2>1 DEF TwitterRuns
    <2>4. TwitterRuns' /\ (Faultless' <=> Faultless) /\ FoundPosts' = FoundPosts
      <3>1. ~NoScan'
            BY <2>3 DEF NoScan, Idle
      <3> QED BY <1>1, <2>3, <3>1 DEF TwitterInv, Faultless, FoundPosts
    <2>5. TwitterHas'
          BY <1>2, <1>3, <2>1, <2>3 DEF TwitterHas, Here
    <2>6. TwitterBounds'
          BY <1>1, <1>2, <2>3 DEF TwitterBounds, Answers, WantedWith
    <2>7. TwitterBased'
          BY <1>1, <1>2, <1>3, <2>3, <2>4 DEF TwitterBased, Settles, WantedWith
    <2>8. TwitterListed'
          BY <1>1, <1>2, <1>3, <2>3, <2>4 DEF TwitterListed, Answers, WantedWith
    <2>9. TwitterFetched'
      <3> SUFFICES ASSUME ~scan'.errors, NEW p \in FoundPosts, WantedWith(scan.videos, p)
                   PROVE  p \in Here'
          BY <2>3, <2>4 DEF TwitterFetched, WantedWith
      <3>1. got = ToFetch
            BY <2>3
      <3>2. p \in media \cup scan.on_disk \/ p \in ToFetch
            BY DEF ToFetch, Wanted, FoundPosts, WantedWith
      <3> QED BY <1>2, <1>3, <2>1, <3>1, <3>2 DEF TwitterHas, Here
    <2> QED BY <2>5, <2>6, <2>7, <2>8, <2>9
  <1> QED BY <1>4, <1>5

LEMMA TwitterKeptRecords ==
    ASSUME TwitterInv, TwitterKept, TwitterInv', TwitterRecordPosts \/ TwitterRecordMedia
    PROVE  TwitterKept'
  <1> USE DEF TwitterKept
  <1>1. /\ published' = published /\ tombs' = tombs /\ held' = held /\ baseline' = baseline
        /\ videos' = videos /\ blame \subseteq blame'
        BY DEF TwitterRecordPosts, TwitterRecordMedia, twitter_vars
  <1>2. TwitterRuns /\ Here' = Here /\ (Faultless' => Faultless)
        BY <1>1 DEF TwitterInv, TwitterRecordPosts, TwitterRecordMedia, Here, Faultless
  <1>3. /\ scan.step \in {"posts", "media"}
        /\ \E step \in {"media", "warning", "succeeded"} :
              /\ scan' = [scan EXCEPT !.step = step]
              /\ step = "succeeded" => ~scan.errors /\ scan.limit = "none"
        BY DEF TwitterRecordPosts, TwitterRecordMedia
  <1>4. PICK step \in {"media", "warning", "succeeded"} :
           /\ scan' = [scan EXCEPT !.step = step]
           /\ step = "succeeded" => ~scan.errors /\ scan.limit = "none"
        BY <1>3
  <1>5. /\ scan'.step = step /\ scan'.from = scan.from /\ scan'.models = scan.models
        /\ scan'.todo = scan.todo /\ scan'.cursors = scan.cursors
        /\ scan'.cutoff = scan.cutoff /\ scan'.videos = scan.videos
        /\ scan'.on_disk = scan.on_disk /\ scan'.span = scan.span
        /\ scan'.newest = scan.newest /\ scan'.limit = scan.limit /\ scan'.at = scan.at
        /\ scan'.found = scan.found /\ scan'.got = scan.got /\ scan'.errors = scan.errors
        BY <1>2, <1>4 DEF TwitterRuns
  <1>6. TwitterRuns' /\ FoundPosts' = FoundPosts
    <2>1. ~NoScan'
          BY <1>5 DEF NoScan, Idle
    <2> QED BY <1>5, <2>1 DEF TwitterInv, FoundPosts
  <1>7. media' \subseteq Here
        BY <1>2 DEF TwitterRecordPosts, TwitterRecordMedia, TwitterHas
  <1>8. Faultless' => left \subseteq left' \cup Here
    <2>1. CASE TwitterRecordPosts
      <3>1. blame' = IF left \ left' \subseteq held \cup tombs THEN blame ELSE blame \cup {"unwanted"}
            BY <2>1 DEF TwitterRecordPosts
      <3> QED BY <3>1 DEF Faultless, Here
    <2>2. CASE TwitterRecordMedia
          BY <2>2 DEF TwitterRecordMedia
    <2> QED BY <2>1, <2>2
  <1>9. resume' \in [Model -> Nat]
    <2>1. resume \in [Model -> Nat]
          BY DEF TwitterBounds
    <2>2. CASE TwitterRecordMedia
          BY <2>1, <2>2 DEF TwitterRecordMedia, twitter_vars
    <2>3. CASE TwitterRecordPosts
      <3>1. Cleared(resume, scan.backfill) \in [Model -> Nat]
            BY <2>1 DEF Cleared, NoCursor
      <3>2. Completed \in Nat /\ scan.at \in Nat
            BY <1>2, PresenceAssumption DEF TwitterBounds, Completed
      <3>3. resume' = IF scan.limit = "none" THEN Cleared(resume, scan.backfill)
                      ELSE [m \in Model |-> IF m \in scan.done THEN Completed
                                            ELSE IF m = scan.limit /\ scan.at # NoCursor THEN scan.at
                                            ELSE resume[m]]
            BY <2>3 DEF TwitterRecordPosts
      <3> QED BY <2>1, <3>1, <3>2, <3>3
    <2> QED BY <2>2, <2>3
  <1>10. TwitterHas'
        BY <1>2, <1>5, <1>7 DEF TwitterHas
  <1>11. TwitterBounds'
        BY <1>1, <1>2, <1>4, <1>5, <1>9 DEF TwitterBounds, Answers, WantedWith
  <1>12. TwitterBased'
        BY <1>1, <1>2, <1>5, <1>8 DEF TwitterBased, Settles, WantedWith
  <1>13. TwitterListed'
        BY <1>1, <1>2, <1>5, <1>6, <1>8 DEF TwitterListed, Answers, WantedWith
  <1>14. TwitterFetched'
        BY <1>2, <1>3, <1>5, <1>6 DEF TwitterFetched, WantedWith
  <1> QED BY <1>10, <1>11, <1>12, <1>13, <1>14

\* The run becomes the baseline of the next ones: it found, or settled, all that is
\* older than its newest post less the overlap.
LEMMA TwitterKeptEnds ==
    ASSUME TwitterInv, TwitterKept, TwitterInv', TwitterEnd
    PROVE  TwitterKept'
  <1> USE DEF TwitterKept
  <1> DEFINE cutoff == IF scan.newest > Overlap THEN scan.newest - Overlap ELSE 0
  <1>1. /\ published' = published /\ tombs' = tombs /\ left' = left /\ media' = media
        /\ blame' = blame /\ resume' = resume /\ videos' = videos /\ held' = held
        /\ scan' = Idle /\ scan.step \in {"warning", "succeeded"}
        /\ baseline' = IF ~IsBaseline THEN baseline ELSE [baseline EXCEPT ![scan.videos] = cutoff]
        BY DEF TwitterEnd
  <1>2. TwitterRuns
        BY DEF TwitterInv, TwitterEnd
  <1>3. /\ scan.newest \in 0..published /\ published \in Nat /\ scan.from \in Nat
        /\ published <= scan.from + ScanSpan /\ scan.from <= published
        /\ Overlap \in Nat /\ ScanSpan \in Nat /\ ScanSpan <= Overlap
        /\ scan.videos \in BOOLEAN /\ baseline \in [BOOLEAN -> Nat]
        BY <1>2, PresenceAssumption, TwitterAssumption
        DEF TwitterBounds, TwitterInv, ProfileSound, PresenceTypeOK, TwitterRuns
  <1>4. cutoff \in Nat /\ cutoff <= published /\ cutoff <= scan.from
        /\ (cutoff <= scan.newest)
    <2>1. scan.newest \in Nat /\ scan.newest <= published
          BY <1>3
    <2>2. CASE scan.newest > Overlap
          BY <1>3, <2>1, <2>2
    <2>3. CASE ~(scan.newest > Overlap)
          BY <1>3, <2>1, <2>3
    <2> QED BY <2>2, <2>3
  <1>5. ASSUME IsBaseline, Faultless, NEW p \in 1..published, p < cutoff, WantedWith(scan.videos, p)
        PROVE  p \in Here \cup left
    <2>1. /\ "media" \in scan.models /\ scan.limit = "none" /\ ~scan.errors
          BY <1>5 DEF IsBaseline
    <2>2. scan.todo = {} /\ p \in 1..scan.from
          BY <1>1, <1>2, <1>3, <1>4, <1>5 DEF TwitterInv, TwitterOrderly
    <2>3. Answers("media", p)
      <3> SUFFICES ASSUME scan.cursors["media"] # NoCursor PROVE p < scan.cursors["media"]
          BY DEF Answers
      <3>1. /\ scan.newest = 0 \/ scan.newest < scan.cursors["media"]
            /\ scan.cursors["media"] \in Nat
            BY <1>2, <1>5, <2>1 DEF TwitterListed, TwitterBounds
      <3>2. p \in Nat /\ scan.newest \in Nat /\ p >= 1
            BY <1>3
      <3> HIDE DEF cutoff
      <3> QED BY <1>4, <1>5, <3>1, <3>2
    <2>4. p \in FoundPosts \cup Here \cup left
          BY <1>2, <1>5, <2>1, <2>2, <2>3 DEF TwitterListed
    <2>5. p \in FoundPosts => p \in Here
          BY <1>1, <1>2, <1>5, <2>1 DEF TwitterFetched
    <2> QED BY <2>4, <2>5
  <1> HIDE DEF cutoff
  <1>6. baseline' \in [BOOLEAN -> Nat]
        BY <1>1, <1>3, <1>4
  <1>7. Here' = Here /\ media' \subseteq Here'
        BY <1>1 DEF Here, TwitterHas
  <1>8. \A v \in BOOLEAN :
           \/ baseline'[v] = baseline[v]
           \/ IsBaseline /\ v = scan.videos /\ baseline'[v] = cutoff
        BY <1>1, <1>3
  <1> QED BY <1>1, <1>4, <1>5, <1>6, <1>7, <1>8, TwitterKeptOver

LEMMA TwitterKeptOutside ==
    ASSUME TwitterInv, TwitterKept,
           \/ AuthorStep /\ UNCHANGED twitter_vars
           \/ TwitterToggle
           \/ \E v \in BOOLEAN : TwitterForget(v)
           \/ TwitterDelete
    PROVE  TwitterKept'
  <1>1. /\ published \in Nat /\ videos \in BOOLEAN /\ baseline \in [BOOLEAN -> Nat]
        /\ NoCutoff \in Nat /\ media \subseteq Here
        /\ TwitterRuns => scan.from \in Nat /\ published <= scan.from + ScanSpan /\ ~NoScan
        BY PresenceAssumption, TwitterRunsOrIdle
        DEF TwitterInv, ProfileSound, PresenceTypeOK, TwitterKept, TwitterBounds, TwitterHas,
            NoCutoff, TwitterRuns, NoScan
  <1>2. CASE AuthorStep /\ UNCHANGED twitter_vars
    <2>1. /\ scan' = scan /\ held' = held /\ tombs' = tombs /\ blame' = blame /\ media' = media
          /\ resume' = resume /\ baseline' = baseline /\ videos' = videos
          /\ left \subseteq left' /\ published <= published'
          BY <1>2, AuthorOutside DEF TwitterInv, Outside, twitter_vars
    <2>2. Here' = Here
          BY <2>1 DEF Here
    <2>3. published' \in Nat /\ (TwitterRuns => published' <= scan.from + ScanSpan)
      <3>1. CASE Publish
        <4>1. published' = published + 1 /\ (~NoScan => published - scan.from < ScanSpan)
              BY <3>1 DEF Publish
        <4> QED BY <1>1, <4>1, PresenceAssumption
      <3>2. CASE \E p \in Post : Withdraw(p) \/ Return(p)
            BY <1>1, <3>2 DEF Withdraw, Return
      <3> QED BY <1>2, <3>1, <3>2 DEF AuthorStep
    <2> QED BY <1>1, <2>1, <2>2, <2>3, TwitterKeptBeside
  <1>3. CASE TwitterToggle \/ \E v \in BOOLEAN : TwitterForget(v)
    <2>1. /\ published' = published /\ held' = held /\ media' = media /\ tombs' = tombs
          /\ scan' = scan /\ left' = left /\ blame' = blame /\ resume' = resume
          BY <1>3 DEF TwitterToggle, TwitterForget
    <2>2. Here' = Here
          BY <2>1 DEF Here
    <2>3. /\ videos' \in BOOLEAN /\ baseline' \in [BOOLEAN -> Nat]
          /\ \A v \in BOOLEAN : baseline'[v] \in {baseline[v], NoCutoff}
          BY <1>1, <1>3 DEF TwitterToggle, TwitterForget
    <2>4. published <= published /\ blame \subseteq blame'
          BY <1>1, <2>1
    <2> QED BY <1>1, <2>1, <2>2, <2>3, <2>4, TwitterKeptBeside
  <1>4. CASE TwitterDelete
    <2>1. PICK p \in Post : /\ DeleteMedium(p, "media")
                            /\ blame' = IF p \in media THEN blame ELSE blame \cup {"unrecorded"}
          BY <1>4 DEF TwitterDelete
    <2>2. /\ published' = published /\ held' = held \ {p} /\ media' = media
          /\ tombs' = tombs \cup {p} /\ scan' = scan /\ left' = left /\ resume' = resume
          /\ baseline' = baseline /\ videos' = videos
          BY <1>4, <2>1 DEF TwitterDelete, DeleteMedium, twitter_vars
    <2>3. Here \subseteq Here' /\ blame \subseteq blame' /\ published <= published
          BY <1>1, <2>1, <2>2 DEF Here
    <2> QED BY <1>1, <2>2, <2>3, TwitterKeptBeside
  <1> QED BY <1>2, <1>3, <1>4

LEMMA TwitterKeptInductive ==
    ASSUME TwitterInv, TwitterKept, TwitterInv', [TwitterNext]_<<profile_vars, twitter_vars>>
    PROVE  TwitterKept'
  <1>1. ASSUME NEW backfill \in BOOLEAN, TwitterStart(backfill)
        PROVE  TwitterKept'
        BY <1>1, TwitterKeptStarts
  <1>2. CASE TwitterList
        BY <1>2, TwitterKeptLists
  <1>3. CASE TwitterRedirect
        BY <1>3, TwitterKeptRedirects
  <1>4. CASE TwitterDownload \/ TwitterStop
        BY <1>4, TwitterKeptFetches
  <1>5. CASE TwitterRecordPosts \/ TwitterRecordMedia
        BY <1>5, TwitterKeptRecords
  <1>6. CASE TwitterEnd
        BY <1>6, TwitterKeptEnds
  <1>7. CASE \/ AuthorStep /\ UNCHANGED twitter_vars
             \/ TwitterToggle
             \/ \E v \in BOOLEAN : TwitterForget(v)
             \/ TwitterDelete
        BY <1>7, TwitterKeptOutside
  <1>8. CASE UNCHANGED <<profile_vars, twitter_vars>>
    <2>1. /\ published' = published /\ held' = held /\ media' = media /\ tombs' = tombs
          /\ scan' = scan /\ left' = left /\ blame' = blame
          /\ resume' = resume /\ baseline' = baseline /\ videos' = videos
          BY <1>8 DEF profile_vars, twitter_vars
    <2>2. /\ published \in Nat /\ videos \in BOOLEAN /\ baseline \in [BOOLEAN -> Nat]
          /\ media \subseteq Here
          /\ TwitterRuns => published <= scan.from + ScanSpan
          BY PresenceAssumption
          DEF TwitterInv, ProfileSound, PresenceTypeOK, TwitterKept, TwitterBounds, TwitterHas
    <2>3. Here' = Here
          BY <2>1 DEF Here
    <2>4. published <= published /\ blame \subseteq blame'
          BY <2>1, <2>2
    <2> QED BY <2>1, <2>2, <2>3, <2>4, TwitterKeptBeside
  <1> QED BY <1>1, <1>2, <1>3, <1>4, <1>5, <1>6, <1>7, <1>8 DEF TwitterNext

\* A sync of Twitter that ends as succeeded left nothing behind of what it answers for,
\* whether it listed all, went on where a limit had cut an earlier one short, or stopped
\* at the cutoff of a baseline: unless a listing was short unnoticed, a like raised the
\* cutoff of a run that had gone on in the middle, or a video came back while the user
\* wanted none.
THEOREM TwitterSuccessIsWhole == TwitterSpec => []SucceededHolds
  <1>1. PresenceInit /\ TwitterInit => TwitterKept
        BY TwitterKeptInitial
  <1>2. TwitterInv /\ TwitterInv' /\ TwitterKept /\ [TwitterNext]_<<profile_vars, twitter_vars>>
           => TwitterKept'
        BY TwitterKeptInductive
  <1>3. TwitterInv /\ TwitterKept => SucceededHolds
    <2> SUFFICES ASSUME TwitterInv, TwitterKept, scan.step = "succeeded", Faultless,
                        NEW p \in scan.span, p \notin left
                 PROVE  p \in Here
        BY DEF SucceededHolds, Faultless, Here
    <2>1. TwitterRuns
      <3>1. ~NoScan
            BY DEF NoScan, Idle
      <3> QED BY <3>1 DEF TwitterInv
    <2>2. /\ scan.todo = {} /\ scan.limit = "none" /\ ~scan.errors
          /\ p \in 1..scan.from /\ WantedWith(scan.videos, p)
          BY <2>1 DEF TwitterInv, TwitterOrderly, TwitterKept, TwitterBounds
    <2>3. PICK m \in scan.models : Answers(m, p)
          BY <2>1 DEF TwitterKept, TwitterBounds
    <2>4. p \in FoundPosts \cup Here
          BY <2>1, <2>2, <2>3 DEF TwitterKept, TwitterListed
    <2> QED BY <2>1, <2>2, <2>4 DEF TwitterKept, TwitterFetched
  <1> QED BY <1>1, <1>2, <1>3, TwitterAlways, PTL DEF TwitterSpec

-----------------------------------------------------------------------------
(***************************************************************************)
(* TikTok: what a sync lists is fetched, found on disk or tried again.     *)
(***************************************************************************)

\* TikTok's syncs.  What a sync takes for done, and what came, is here, but for what the
\* folder lost; and what it answers for was published when it began.
TikTokHas ==
    /\ TikTokRecovers =>
          scan.span \subseteq 1..published /\ Known \cap scan.span \subseteq Here
    /\ TikTokRuns =>
          scan.span \subseteq 1..published /\ (scan.keys \cup scan.got) \cap scan.span \subseteq Here

\* The listing is there, and stands.
TikTokHeard ==
    /\ scan.step \notin {"list", "fallback"}
    /\ scan.step = "settle" => scan.posts # {} \/ scan.resolved

\* What the sync answers for was listed or has left.
TikTokWhole ==
    TikTokRuns /\ Faultless =>
        /\ scan.step = "settle" => ~scan.limited
        /\ TikTokHeard => scan.span \subseteq scan.posts \cup left

\* A sync without an error got what it listed and did not have.
TikTokFetched ==
    TikTokRuns =>
        /\ scan.step \in {"posts", "media", "succeeded"} /\ ~scan.errors =>
              scan.posts \subseteq scan.keys \cup scan.got
        /\ scan.step = "succeeded" => ~scan.errors

TikTokKept == TikTokHas /\ TikTokWhole /\ TikTokFetched

LEMMA TikTokKeptVoid ==
    ASSUME NoScan' \/ (TikTokRecovers' /\ TikTokHas')
    PROVE  TikTokKept'
  <1>1. TikTokRuns' => scan'.step \in TikTokStep
        BY TikTokAfterwards
  <1>2. /\ NoScan' => scan'.step = "idle"
        /\ TikTokRecovers' => scan'.step = "recover"
        BY DEF NoScan, Idle, TikTokRecovers
  <1>3. ~TikTokRuns'
        BY <1>1, <1>2 DEF TikTokStep
  <1>4. NoScan' => ~TikTokRecovers'
        BY <1>2
  <1> QED BY <1>3, <1>4 DEF TikTokKept, TikTokHas, TikTokWhole, TikTokFetched

\* A step beside a sync: nothing that is here is lost.
LEMMA TikTokKeptBeside ==
    ASSUME TikTokKept, scan' = scan, Here \subseteq Here', left \subseteq left',
           1..published \subseteq 1..published', blame \subseteq blame',
           Known' \subseteq Known \cup Here'
    PROVE  TikTokKept'
  <1>1. (TikTokRuns' <=> TikTokRuns) /\ (TikTokRecovers' <=> TikTokRecovers)
        BY DEF TikTokRuns, TikTokRecovers
  <1>2. Faultless' => Faultless
        BY DEF Faultless
  <1>3. TikTokHas'
        BY <1>1 DEF TikTokKept, TikTokHas
  <1>4. TikTokWhole'
        BY <1>1, <1>2 DEF TikTokKept, TikTokWhole, TikTokHeard
  <1>5. TikTokFetched'
        BY <1>1 DEF TikTokKept, TikTokFetched
  <1> QED BY <1>3, <1>4, <1>5 DEF TikTokKept

LEMMA TikTokKeptOutside ==
    ASSUME TikTokInv, TikTokKept,
           \/ AuthorStep
           \/ Rename
           \/ \E p \in Post : TikTokDelete(p)
    PROVE  TikTokKept'
  <1>1. CASE AuthorStep
    <2>1. /\ Outside /\ ledger' = ledger /\ held' = held /\ tombs' = tombs /\ blame' = blame
          BY <1>1, AuthorOutside DEF TikTokInv
    <2>2. 1..published \subseteq 1..published'
      <3>1. published <= published' /\ published \in Nat /\ published' \in Nat
            BY <1>1, AuthorOutside, PresenceAssumption
            DEF Outside, TikTokInv, ProfileSound, PresenceTypeOK
      <3> QED BY <3>1
    <2>3. Here' = Here /\ Known' = Known
          BY <2>1 DEF Here, Known
    <2>4. scan' = scan /\ left \subseteq left' /\ blame \subseteq blame'
          BY <2>1 DEF Outside
    <2> QED BY <2>2, <2>3, <2>4, TikTokKeptBeside
  <1>2. CASE Rename
    <2>1. /\ published' = published /\ held' = held /\ ledger' = ledger /\ tombs' = tombs
          /\ scan' = scan /\ left' = left /\ blame' = blame
          BY <1>2 DEF Rename
    <2>2. Here' = Here /\ Known' = Known
          BY <2>1 DEF Here, Known
    <2>3. /\ left \subseteq left' /\ blame \subseteq blame'
          /\ 1..published \subseteq 1..published'
          BY <2>1
    <2> QED BY <2>1, <2>2, <2>3, TikTokKeptBeside
  <1>3. ASSUME NEW p \in Post, TikTokDelete(p)
        PROVE  TikTokKept'
    <2>1. DeleteMedium(p, "timeline") /\ blame' = blame
          BY <1>3 DEF TikTokDelete
    <2>2. /\ published' = published /\ left' = left /\ scan' = scan
          /\ held' = held \ {p} /\ tombs' = tombs \cup {p}
          BY <2>1 DEF DeleteMedium
    <2>3. Known' \subseteq Known \cup {p}
      <3>1. "timeline" \in Section /\ blame \subseteq blame'
            BY <2>1 DEF Section
      <3> QED BY <2>1, <3>1, DeletionOutside DEF TikTokInv
    <2>4. Here \subseteq Here' /\ p \in Here'
          BY <2>2 DEF Here
    <2>5. left \subseteq left' /\ blame \subseteq blame' /\ 1..published \subseteq 1..published'
          BY <2>1, <2>2
    <2> QED BY <2>2, <2>3, <2>4, <2>5, TikTokKeptBeside
  <1> QED BY <1>1, <1>2, <1>3

\* What goes by itself, no sync answers for any more.
LEMMA TikTokKeptVanishes ==
    ASSUME TikTokInv, TikTokKept, NEW p \in Post, Vanish(p)
    PROVE  TikTokKept'
  <1>1. /\ published' = published /\ ledger' = ledger /\ tombs' = tombs /\ left' = left
        /\ blame' = blame /\ held' = held \ {p}
        /\ scan' = IF NoScan THEN scan ELSE [scan EXCEPT !.span = @ \ {p}]
        BY DEF Vanish
  <1>2. /\ \A s : s \subseteq Here => s \ {p} \subseteq Here'
        /\ Known' = Known /\ (Faultless' <=> Faultless)
        BY <1>1 DEF Here, Known, Faultless
  <1>3. CASE NoScan
    <2>1. NoScan'
          BY <1>1, <1>3 DEF NoScan
    <2> QED BY <2>1, TikTokKeptVoid
  <1>4. CASE TikTokRecovers
    <2>1. scan' = [scan EXCEPT !.span = @ \ {p}]
          BY <1>1, <1>4, TikTokKinds
    <2>2. scan'.span = scan.span \ {p} /\ TikTokRecovers'
          BY <1>4, <2>1 DEF TikTokRecovers
    <2>3. ~TikTokRuns'
      <3>1. scan'.step = "recover"
            BY <2>2 DEF TikTokRecovers
      <3> QED BY <3>1, TikTokAfterwards DEF TikTokStep
    <2>4. TikTokHas'
      <3>1. scan.span \subseteq 1..published /\ Known \cap scan.span \subseteq Here
            BY <1>4 DEF TikTokKept, TikTokHas
      <3>2. (Known \cap scan.span) \ {p} \subseteq Here'
            BY <1>2, <3>1
      <3> QED BY <1>1, <1>2, <2>2, <2>3, <3>1, <3>2 DEF TikTokHas
    <2> QED BY <2>2, <2>4, TikTokKeptVoid
  <1>5. CASE TikTokRuns
    <2>1. scan' = [scan EXCEPT !.span = @ \ {p}]
          BY <1>1, <1>5, TikTokKinds
    <2>2. /\ scan'.span = scan.span \ {p} /\ TikTokRuns' /\ ~TikTokRecovers'
          /\ scan'.step = scan.step /\ scan'.keys = scan.keys /\ scan'.posts = scan.posts
          /\ scan'.got = scan.got /\ scan'.resolved = scan.resolved
          /\ scan'.limited = scan.limited /\ scan'.errors = scan.errors
          BY <1>5, <2>1, TikTokKinds DEF TikTokRuns, TikTokRecovers
    <2>3. TikTokHas'
      <3>1. scan.span \subseteq 1..published
            /\ (scan.keys \cup scan.got) \cap scan.span \subseteq Here
            BY <1>5 DEF TikTokKept, TikTokHas
      <3>2. ((scan.keys \cup scan.got) \cap scan.span) \ {p} \subseteq Here'
            BY <1>2, <3>1
      <3> QED BY <1>1, <2>2, <3>1, <3>2 DEF TikTokHas
    <2>4. TikTokWhole'
          BY <1>1, <1>2, <1>5, <2>2 DEF TikTokKept, TikTokWhole, TikTokHeard
    <2>5. TikTokFetched'
          BY <1>5, <2>2 DEF TikTokKept, TikTokFetched
    <2> QED BY <2>3, <2>4, <2>5 DEF TikTokKept
  <1> QED BY <1>3, <1>4, <1>5 DEF TikTokInv

\* A sync takes for done what has a row and a file, and what was deleted.
LEMMA TikTokKeptBegins ==
    ASSUME TikTokInv, TikTokKept, TikTokStart \/ TikTokRecover
    PROVE  TikTokKept'
  <1>1. CASE TikTokStart
    <2>1. /\ published' = published /\ held' = held /\ tombs' = tombs
          /\ ledger' = [p \in Post |-> IF p \in held THEN ledger[p] ELSE NoRow]
          /\ scan' = [step |-> "recover", from |-> published, span |-> 1..published]
          BY <1>1 DEF TikTokStart, PurgeMissing
    <2>2. TikTokRecovers' /\ scan'.step = "recover" /\ scan'.span = 1..published
          BY <2>1 DEF TikTokRecovers
    <2>3. ~TikTokRuns'
          BY <2>2, TikTokAfterwards DEF TikTokStep
    <2>4. Known' \subseteq Here'
          BY <2>1 DEF Known, Here
    <2>5. TikTokHas'
          BY <2>1, <2>2, <2>3, <2>4 DEF TikTokHas
    <2> QED BY <2>2, <2>5, TikTokKeptVoid
  <1>2. CASE TikTokRecover
    <2> DEFINE rs == Recorded(held, Timeline)
               keys == DoneKeys(rs)
               some == held \cup keys # {}
    <2>1. /\ published' = published /\ held' = held /\ tombs' = tombs /\ scan.step = "recover"
          /\ ~NoScan
          BY <1>2 DEF TikTokRecover
    <2>2. scan' = [step |-> "list", from |-> scan.from, span |-> scan.span,
                   keys |-> keys, deleted |-> tombs, flawed |-> flawed,
                   history |-> some,
                   hinted |-> hint, posts |-> {}, limited |-> FALSE, error |-> "none",
                   resolved |-> FALSE, queue |-> {}, chosen |-> {}, got |-> {},
                   errors |-> FALSE, aborted |-> FALSE, observed |-> {}]
          BY <1>2 DEF TikTokRecover
    <2>3. keys \subseteq Known \cup Here
          BY DEF DoneKeys, Recorded, Known, Here
    <2> HIDE DEF rs, keys, some
    <2>4. /\ scan'.step = "list" /\ scan'.span = scan.span /\ scan'.keys = keys /\ scan'.got = {}
          BY <2>2
    <2>5. TikTokRecovers
          BY <2>1, TikTokKinds DEF TikTokInv, TikTokStep
    <2>6. scan.span \subseteq 1..published /\ Known \cap scan.span \subseteq Here
          BY <2>5 DEF TikTokKept, TikTokHas
    <2>7. Here' = Here /\ ~TikTokRecovers'
          BY <2>1, <2>4 DEF Here, TikTokRecovers
    <2>8. TikTokHas'
      <3>1. keys \cap scan.span \subseteq Here
            BY <2>3, <2>6
      <3> QED BY <2>1, <2>4, <2>6, <2>7, <3>1 DEF TikTokHas
    <2>9. TikTokWhole' /\ TikTokFetched'
          BY <2>4 DEF TikTokWhole, TikTokHeard, TikTokFetched
    <2> QED BY <2>8, <2>9 DEF TikTokKept
  <1> QED BY <1>1, <1>2

\* A step of a sync that goes on.
LEMMA TikTokKeptOn ==
    ASSUME TikTokInv', TikTokKept, TikTokRuns, scan'.step \in TikTokStep,
           published' = published, tombs' = tombs, held \subseteq held',
           scan'.span = scan.span, scan'.keys = scan.keys, scan'.got \subseteq scan.got \cup held',
           TikTokWhole', TikTokFetched'
    PROVE  TikTokKept'
  <1>1. ~TikTokRecovers'
        BY DEF TikTokRecovers, TikTokStep
  <1>2. Here \subseteq Here' /\ held' \subseteq Here'
        BY DEF Here
  <1>3. scan.span \subseteq 1..published
        /\ (scan.keys \cup scan.got) \cap scan.span \subseteq Here
        BY DEF TikTokKept, TikTokHas
  <1>4. TikTokHas'
        BY <1>1, <1>2, <1>3 DEF TikTokHas
  <1> QED BY <1>4 DEF TikTokKept

\* A listing stands if it brought all the provider shows.
LEMMA TikTokKeptHears ==
    ASSUME TikTokInv, TikTokInv', TikTokKept, TikTokRuns, scan'.step \in {"settle", "fallback"},
           published' = published, tombs' = tombs, held' = held, left' = left,
           scan'.span = scan.span, scan'.keys = scan.keys, scan'.got = scan.got,
           Faultless' /\ scan'.step = "settle" =>
              /\ ~scan'.limited
              /\ scan'.posts # shown => scan'.posts = {} /\ ~scan'.resolved
    PROVE  TikTokKept'
  <1>1. scan.span \subseteq shown \cup left
        BY DEF TikTokKept, TikTokHas, TikTokInv, ProfileSound, HiddenHaveLeft
  <1>2. TikTokWhole'
        BY <1>1 DEF TikTokWhole, TikTokHeard
  <1>3. TikTokFetched'
        BY DEF TikTokFetched
  <1>4. scan'.step \in TikTokStep
        BY DEF TikTokStep
  <1> QED BY <1>2, <1>3, <1>4, TikTokKeptOn

LEMMA TikTokKeptLists ==
    ASSUME TikTokInv, TikTokInv', TikTokKept, TikTokList
    PROVE  TikTokKept'
  <1>1. /\ published' = published /\ shown' = shown /\ tombs' = tombs
        /\ left' = left /\ held' = held /\ scan.step = "list" /\ ~NoScan
        BY DEF TikTokList
  <1>2. TikTokRuns
        BY <1>1, TikTokKinds DEF TikTokInv
  <1>3. scan.posts = {} /\ ~scan.resolved /\ ~scan.limited
        BY <1>1, <1>2 DEF TikTokInv, TikTokOrderly
  <1>4. CASE scan' = [scan EXCEPT !.step = "settle", !.posts = shown]
    <2>1. /\ scan'.step = "settle" /\ scan'.posts = shown /\ scan'.limited = scan.limited
          /\ scan'.span = scan.span /\ scan'.keys = scan.keys /\ scan'.got = scan.got
          BY <1>2, <1>4 DEF TikTokRuns
    <2> QED BY <1>1, <1>2, <1>3, <2>1, TikTokKeptHears
  <1>5. ASSUME NEW posts \in SUBSET shown,
               scan' = [scan EXCEPT !.step = "settle", !.posts = posts, !.limited = TRUE],
               blame' = blame \cup {"limited"}
        PROVE  TikTokKept'
    <2>1. /\ scan'.step = "settle"
          /\ scan'.span = scan.span /\ scan'.keys = scan.keys /\ scan'.got = scan.got
          BY <1>2, <1>5 DEF TikTokRuns
    <2>2. ~Faultless'
          BY <1>5 DEF Faultless
    <2> QED BY <1>1, <1>2, <2>1, <2>2, TikTokKeptHears
  <1>6. ASSUME NEW posts \in SUBSET shown,
               scan' = [scan EXCEPT !.step = "settle", !.posts = posts],
               blame' = IF posts = {} THEN blame ELSE blame \cup {"short"}
        PROVE  TikTokKept'
    <2>1. /\ scan'.step = "settle" /\ scan'.posts = posts
          /\ scan'.limited = scan.limited /\ scan'.resolved = scan.resolved
          /\ scan'.span = scan.span /\ scan'.keys = scan.keys /\ scan'.got = scan.got
          BY <1>2, <1>6 DEF TikTokRuns
    <2>2. posts = {} \/ ~Faultless'
          BY <1>6 DEF Faultless
    <2> QED BY <1>1, <1>2, <1>3, <2>1, <2>2, TikTokKeptHears
  <1>7. ASSUME NEW error, NEW step \in {"settle", "fallback"},
               scan' = [scan EXCEPT !.step = step, !.error = error]
        PROVE  TikTokKept'
    <2>1. /\ scan'.step = step /\ scan'.posts = scan.posts
          /\ scan'.limited = scan.limited /\ scan'.resolved = scan.resolved
          /\ scan'.span = scan.span /\ scan'.keys = scan.keys /\ scan'.got = scan.got
          BY <1>2, <1>7 DEF TikTokRuns
    <2> QED BY <1>1, <1>2, <1>3, <2>1, TikTokKeptHears
  <1>8. \/ scan' = [scan EXCEPT !.step = "settle", !.posts = shown]
        \/ \E posts \in SUBSET shown :
              /\ scan' = [scan EXCEPT !.step = "settle", !.posts = posts, !.limited = TRUE]
              /\ blame' = blame \cup {"limited"}
        \/ \E posts \in SUBSET shown :
              /\ scan' = [scan EXCEPT !.step = "settle", !.posts = posts]
              /\ blame' = IF posts = {} THEN blame ELSE blame \cup {"short"}
        \/ \E error \in {"secuid", "other"} :
              scan' = [scan EXCEPT !.step = IF error = "secuid" \/ scan.hinted
                                            THEN "fallback" ELSE "settle",
                                   !.error = error]
        BY Zenon DEF TikTokList
  <1>9. ASSUME NEW error \in {"secuid", "other"},
               scan' = [scan EXCEPT !.step = IF error = "secuid" \/ scan.hinted
                                            THEN "fallback" ELSE "settle",
                                   !.error = error]
        PROVE  TikTokKept'
    <2>1. CASE error = "secuid" \/ scan.hinted
          BY <1>7, <1>9, <2>1
    <2>2. CASE ~(error = "secuid" \/ scan.hinted)
          BY <1>7, <1>9, <2>2
    <2> QED BY <2>1, <2>2
  <1> QED BY <1>4, <1>5, <1>6, <1>8, <1>9

LEMMA TikTokKeptFallsBack ==
    ASSUME TikTokInv, TikTokInv', TikTokKept, TikTokFallback
    PROVE  TikTokKept'
  <1>1. /\ published' = published /\ shown' = shown /\ tombs' = tombs
        /\ left' = left /\ held' = held /\ scan.step = "fallback" /\ ~NoScan
        BY DEF TikTokFallback
  <1>2. TikTokRuns
        BY <1>1, TikTokKinds DEF TikTokInv
  <1>3. scan.posts = {} /\ ~scan.resolved /\ ~scan.limited
        BY <1>1, <1>2 DEF TikTokInv, TikTokOrderly
  <1>4. CASE ListAgain
    <2>1. PICK posts \in SUBSET shown :
              /\ scan' = [scan EXCEPT !.step = "settle", !.posts = posts, !.resolved = TRUE,
                                      !.error = "none"]
              /\ IF posts = shown THEN UNCHANGED <<trouble, blame>>
                 ELSE Happens /\ blame' = blame \cup {"short"}
          BY <1>4 DEF ListAgain
    <2>2. /\ scan'.step = "settle" /\ scan'.posts = posts /\ scan'.limited = scan.limited
          /\ scan'.span = scan.span /\ scan'.keys = scan.keys /\ scan'.got = scan.got
          BY <1>2, <2>1 DEF TikTokRuns
    <2>3. posts = shown \/ ~Faultless'
          BY <2>1 DEF Faultless
    <2> QED BY <1>1, <1>2, <1>3, <2>2, <2>3, TikTokKeptHears
  <1>5. CASE \E error \in {"gone", "other"} : scan' = [scan EXCEPT !.step = "settle", !.error = error]
    <2>1. /\ scan'.step = "settle" /\ scan'.posts = scan.posts
          /\ scan'.limited = scan.limited /\ scan'.resolved = scan.resolved
          /\ scan'.span = scan.span /\ scan'.keys = scan.keys /\ scan'.got = scan.got
          BY <1>2, <1>5 DEF TikTokRuns
    <2> QED BY <1>1, <1>2, <1>3, <2>1, TikTokKeptHears
  <1> QED BY <1>4, <1>5 DEF TikTokFallback

\* An empty listing is taken for a profile without posts only when nothing is shown, or
\* the blame says so.
LEMMA TikTokKeptSettles ==
    ASSUME TikTokInv, TikTokInv', TikTokKept, TikTokSettle
    PROVE  TikTokKept'
  <1>1. /\ published' = published /\ shown' = shown /\ tombs' = tombs
        /\ left' = left /\ held' = held /\ scan.step = "settle" /\ ~NoScan
        BY DEF TikTokSettle
  <1>2. TikTokRuns
        BY <1>1, TikTokKinds DEF TikTokInv
  <1>3. \/ scan' = Idle
        \/ /\ TikTokSelect
           /\ blame \subseteq blame'
           /\ ListedNothing /\ ~scan.resolved => shown = {} \/ ~Faultless'
    <2>1. CASE ListedNothing /\ ~scan.resolved
      <3>1. PICK probe \in {"public", "private", "gone", "unclear"} :
              IF scan.error = "none" /\ LegitimatelyEmpty(probe)
              THEN /\ TikTokSelect
                   /\ blame' = IF shown # {} /\ (probe = "private" \/ ~scan.history)
                               THEN blame \cup {"short"} ELSE blame
              ELSE TikTokBlocked
            BY <2>1 DEF TikTokSettle
      <3>2. CASE ~(scan.error = "none" /\ LegitimatelyEmpty(probe))
            BY <3>1, <3>2 DEF TikTokBlocked
      <3>3. CASE scan.error = "none" /\ LegitimatelyEmpty(probe)
        <4>1. probe = "private" \/ ~scan.history
              BY <3>3 DEF LegitimatelyEmpty
        <4>2. TikTokSelect /\ blame' = IF shown # {} THEN blame \cup {"short"} ELSE blame
              BY <3>1, <3>3, <4>1
        <4> QED BY <4>2 DEF Faultless
      <3> QED BY <3>2, <3>3
    <2>2. CASE ~(ListedNothing /\ ~scan.resolved)
          BY <2>2 DEF TikTokSettle
    <2> QED BY <2>1, <2>2
  <1>4. CASE scan' = Idle
        BY <1>4, TikTokAfterwards, TikTokKeptVoid
  <1>5. CASE /\ TikTokSelect
             /\ blame \subseteq blame'
             /\ ListedNothing /\ ~scan.resolved => shown = {} \/ ~Faultless'
    <2>1. /\ scan'.step = "batch" /\ scan'.posts = scan.posts
          /\ scan'.span = scan.span /\ scan'.keys = scan.keys /\ scan'.got = scan.got
          BY <1>2, <1>5 DEF TikTokSelect, TikTokRuns
    <2>2. ASSUME Faultless' PROVE scan.span \subseteq scan.posts \cup left
      <3>1. Faultless
            BY <1>5, <2>2 DEF Faultless
      <3>2. CASE scan.posts # {} \/ scan.resolved
            BY <1>1, <1>2, <3>1, <3>2 DEF TikTokKept, TikTokWhole, TikTokHeard
      <3>3. CASE scan.posts = {} /\ ~scan.resolved
        <4>1. shown = {}
              BY <1>1, <1>2, <1>5, <2>2, <3>1, <3>3 DEF TikTokKept, TikTokWhole, ListedNothing
        <4> QED BY <1>2, <4>1
                DEF TikTokKept, TikTokHas, TikTokInv, ProfileSound, HiddenHaveLeft
      <3> QED BY <3>2, <3>3
    <2>3. TikTokWhole'
          BY <1>1, <2>1, <2>2 DEF TikTokWhole
    <2>4. TikTokFetched'
          BY <2>1 DEF TikTokFetched
    <2>5. scan'.step \in TikTokStep
          BY <2>1 DEF TikTokStep
    <2> QED BY <1>1, <1>2, <2>1, <2>3, <2>4, <2>5, TikTokKeptOn
  <1> QED BY <1>3, <1>4, <1>5

\* The batches and the rounds after them: what did not come is an error.
LEMMA TikTokKeptFetches ==
    ASSUME TikTokInv, TikTokInv', TikTokKept, TikTokBatch \/ TikTokRetry
    PROVE  TikTokKept'
  <1>1. /\ published' = published /\ tombs' = tombs /\ left' = left
        /\ scan.step = "batch" /\ ~NoScan
        BY DEF TikTokBatch, TikTokRetry
  <1>2. TikTokRuns
        BY <1>1, TikTokKinds DEF TikTokInv
  <1>3. PICK got : /\ Arrive(got) /\ scan'.got = scan.got \cup got
                   /\ scan'.step \in {"batch", "posts"} /\ scan'.posts = scan.posts
                   /\ scan'.span = scan.span /\ scan'.keys = scan.keys
    <2>1. CASE TikTokBatch
      <3>1. PICK got \in SUBSET Batch, limited \in BOOLEAN, failed \in BOOLEAN :
              /\ Arrive(got)
              /\ LET rest == scan.queue \ Batch
                     gives_up == limited /\ rest # {}
                 IN  scan' = [scan EXCEPT !.queue = IF gives_up THEN {} ELSE rest,
                                          !.got = @ \cup got,
                                          !.limited = @ \/ limited,
                                          !.aborted = gives_up,
                                          !.errors = @ \/ failed \/ gives_up]
            BY <2>1, Zenon DEF TikTokBatch
      <3>2. /\ scan'.got = scan.got \cup got /\ scan'.step \in {"batch", "posts"}
            /\ scan'.posts = scan.posts /\ scan'.span = scan.span /\ scan'.keys = scan.keys
            BY <1>1, <1>2, <3>1 DEF TikTokRuns
      <3> QED BY <3>1, <3>2
    <2>2. CASE TikTokRetry
      <3>1. PICK got \in SUBSET (IF scan.aborted THEN {} ELSE scan.chosen \ scan.got) :
              /\ Arrive(got)
              /\ scan' = [scan EXCEPT !.step = "posts", !.got = @ \cup got,
                                      !.errors = @ \/ scan.chosen \ (scan.got \cup got) # {}]
            BY <2>2 DEF TikTokRetry
      <3>2. /\ scan'.got = scan.got \cup got /\ scan'.step \in {"batch", "posts"}
            /\ scan'.posts = scan.posts /\ scan'.span = scan.span /\ scan'.keys = scan.keys
            BY <1>1, <1>2, <3>1 DEF TikTokRuns
      <3> QED BY <3>1, <3>2
    <2> QED BY <2>1, <2>2
  <1>4. scan'.step # "idle" /\ scan'.step # "recover"
        BY <1>3
  <1>5. /\ held' = held \cup got
        /\ Faultless' => Faultless
        BY <1>3 DEF Arrive, Faultless
  <1>6. TikTokRuns'
        BY <1>4 DEF TikTokInv, NoScan, Idle, TikTokRecovers
  <1>7. TikTokWhole'
    <2>1. Faultless => scan.span \subseteq scan.posts \cup left
          BY <1>1, <1>2 DEF TikTokKept, TikTokWhole, TikTokHeard
    <2> QED BY <1>1, <1>3, <1>5, <2>1 DEF TikTokWhole
  <1>8. TikTokFetched'
        BY <1>3, <1>6 DEF TikTokFetched, TikTokInv, TikTokThorough
  <1>9. scan'.step \in TikTokStep
        BY <1>3 DEF TikTokStep
  <1> QED BY <1>1, <1>2, <1>3, <1>5, <1>7, <1>8, <1>9, TikTokKeptOn

\* The last writes of a sync, and the ends it may come to.  What the verdict settles was
\* listed.
LEMMA TikTokKeptCloses ==
    ASSUME TikTokInv, TikTokInv', TikTokKept,
           \/ TikTokRecordPosts \/ TikTokRecordMedia
           \/ TikTokRename \/ TikTokEnd \/ TikTokStop
    PROVE  TikTokKept'
  <1>1. CASE TikTokRename \/ TikTokEnd \/ TikTokStop
    <2>1. scan' = Idle
          BY <1>1 DEF TikTokRename, Rehandle, TikTokEnd, TikTokStop
    <2> QED BY <2>1, TikTokAfterwards, TikTokKeptVoid
  <1>2. CASE TikTokRecordPosts
    <2>1. /\ published' = published /\ tombs' = tombs /\ held' = held /\ blame' = blame
          /\ scan.step = "posts" /\ ~NoScan
          /\ scan' = [scan EXCEPT !.step = "media"]
          /\ Presence(TikTokQualification, Recorded(Observed, Timeline))
          BY <1>2 DEF TikTokRecordPosts
    <2>2. TikTokRuns
          BY <2>1, TikTokKinds DEF TikTokInv
    <2>3. /\ scan'.step = "media" /\ scan'.posts = scan.posts /\ scan'.errors = scan.errors
          /\ scan'.span = scan.span /\ scan'.keys = scan.keys /\ scan'.got = scan.got
          BY <2>1, <2>2 DEF TikTokRuns
    <2>4. left \subseteq left' \cup scan.posts
      <3>1. Observed \subseteq scan.posts
            BY <2>2 DEF Observed, TikTokInv, TikTokOrderly
      <3> QED BY <2>1, <3>1 DEF Presence, TikTokQualification
    <2>5. TikTokWhole'
      <3>1. Faultless => scan.span \subseteq scan.posts \cup left
            BY <2>1, <2>2 DEF TikTokKept, TikTokWhole, TikTokHeard
      <3>2. Faultless' => Faultless
            BY <2>1 DEF Faultless
      <3> QED BY <2>3, <2>4, <3>1, <3>2 DEF TikTokWhole
    <2>6. TikTokFetched'
          BY <2>1, <2>2, <2>3 DEF TikTokKept, TikTokFetched
    <2>7. scan'.step \in TikTokStep
          BY <2>3 DEF TikTokStep
    <2> QED BY <2>1, <2>2, <2>3, <2>5, <2>6, <2>7, TikTokKeptOn
  <1>3. CASE TikTokRecordMedia
    <2>1. /\ published' = published /\ tombs' = tombs /\ held' = held /\ blame' = blame
          /\ left' = left /\ scan.step = "media" /\ ~NoScan
          /\ scan' = [scan EXCEPT !.step = IF scan.errors \/ scan.aborted THEN "warning"
                                           ELSE "succeeded"]
          BY <1>3 DEF TikTokRecordMedia
    <2>2. TikTokRuns
          BY <2>1, TikTokKinds DEF TikTokInv
    <2>3. /\ scan'.step \in {"warning", "succeeded"} /\ (scan'.step = "succeeded" => ~scan.errors)
          /\ scan'.posts = scan.posts /\ scan'.errors = scan.errors
          /\ scan'.span = scan.span /\ scan'.keys = scan.keys /\ scan'.got = scan.got
          BY <2>1, <2>2 DEF TikTokRuns
    <2>4. TikTokWhole'
      <3>1. Faultless => scan.span \subseteq scan.posts \cup left
            BY <2>1, <2>2 DEF TikTokKept, TikTokWhole, TikTokHeard
      <3>2. Faultless' => Faultless
            BY <2>1 DEF Faultless
      <3> QED BY <2>1, <2>3, <3>1, <3>2 DEF TikTokWhole
    <2>5. TikTokFetched'
          BY <2>1, <2>2, <2>3 DEF TikTokKept, TikTokFetched
    <2>6. scan'.step \in TikTokStep
          BY <2>3 DEF TikTokStep
    <2> QED BY <2>1, <2>2, <2>3, <2>4, <2>5, <2>6, TikTokKeptOn
  <1> QED BY <1>1, <1>2, <1>3

LEMMA TikTokKeptInductive ==
    ASSUME TikTokInv, TikTokInv', TikTokKept, [TikTokNext]_<<profile_vars, tiktok_vars>>
    PROVE  TikTokKept'
  <1>1. CASE TikTokStart \/ TikTokRecover
        BY <1>1, TikTokKeptBegins
  <1>2. CASE TikTokList
        BY <1>2, TikTokKeptLists
  <1>3. CASE TikTokFallback
        BY <1>3, TikTokKeptFallsBack
  <1>4. CASE TikTokSettle
        BY <1>4, TikTokKeptSettles
  <1>5. CASE TikTokBatch \/ TikTokRetry
        BY <1>5, TikTokKeptFetches
  <1>6. CASE \/ TikTokRecordPosts \/ TikTokRecordMedia
             \/ TikTokRename \/ TikTokEnd \/ TikTokStop
        BY <1>6, TikTokKeptCloses
  <1>7. CASE \/ AuthorStep
             \/ Rename
             \/ \E p \in Post : TikTokDelete(p)
        BY <1>7, TikTokKeptOutside
  <1>8. ASSUME NEW p \in Post, Vanish(p)
        PROVE  TikTokKept'
        BY <1>8, TikTokKeptVanishes
  <1>9. CASE UNCHANGED <<profile_vars, tiktok_vars>>
    <2>1. /\ published' = published /\ held' = held /\ ledger' = ledger /\ tombs' = tombs
          /\ scan' = scan /\ left' = left /\ blame' = blame
          BY <1>9 DEF profile_vars
    <2>2. /\ Here \subseteq Here' /\ left \subseteq left' /\ blame \subseteq blame'
          /\ 1..published \subseteq 1..published' /\ Known' \subseteq Known \cup Here'
          BY <2>1 DEF Here, Known
    <2> QED BY <2>1, <2>2, TikTokKeptBeside
  <1> QED BY <1>1, <1>2, <1>3, <1>4, <1>5, <1>6, <1>7, <1>8, <1>9 DEF TikTokNext

\* A sync of TikTok that ends as succeeded left nothing behind of what was published when
\* it began, whatever the handle, the fallback and the retries came to: unless a listing
\* was short or cut by a limit, or the file went by itself meanwhile.
THEOREM TikTokSuccessIsWhole == TikTokSpec => []SucceededHolds
  <1>1. PresenceInit /\ TikTokInit => TikTokKept
    <2>1. PresenceInit => NoScan
          BY DEF PresenceInit, NoScan
    <2>2. NoScan => ~TikTokRuns /\ ~TikTokRecovers
          BY TikTokKinds
    <2> QED BY <2>1, <2>2 DEF TikTokKept, TikTokHas, TikTokWhole, TikTokFetched
  <1>2. TikTokInv /\ TikTokInv' /\ TikTokKept /\ [TikTokNext]_<<profile_vars, tiktok_vars>>
           => TikTokKept'
        BY TikTokKeptInductive
  <1>3. TikTokInv /\ TikTokKept => SucceededHolds
    <2> SUFFICES ASSUME TikTokInv, TikTokKept, scan.step = "succeeded", Faultless,
                        NEW p \in scan.span, p \notin left
                 PROVE  p \in Here
        BY DEF SucceededHolds, Faultless, Here
    <2>1. TikTokRuns
          BY TikTokKinds DEF TikTokInv
    <2>2. p \in scan.posts
          BY <2>1 DEF TikTokKept, TikTokWhole, TikTokHeard
    <2>3. p \in scan.keys \cup scan.got
          BY <2>1, <2>2 DEF TikTokKept, TikTokFetched
    <2> QED BY <2>1, <2>3 DEF TikTokKept, TikTokHas
  <1> QED BY <1>1, <1>2, <1>3, TikTokAlways, PTL DEF TikTokSpec

-----------------------------------------------------------------------------
(***************************************************************************)
(* Instagram: its listings stop at pages of posts that are known, which    *)
(* says something of the older posts only as long as the profile has no    *)
(* gaps.                                                                   *)
(***************************************************************************)

\* Instagram's syncs.  Posts p of a section are due to be listed if the sync answers for
\* them, or if it listed a newer one; pinned posts come in no order.
Due == IF scan.errors THEN {} ELSE scan.span
Owed(posts, kind, due) ==
    {q \in OfKind(Post, kind) :
        q \in due \/ (q \notin OnTop /\ \E p \in OfKind(posts, kind) \ OnTop : q < p)}

Listing == InstagramLooks /\ scan.step \in {"timeline", "reels"}

\* What the ledgers name is here, and so is what a sync takes for known, for present and
\* for fetched; and one that ends without an error fetched all it planned.
InstagramHas ==
    /\ media \subseteq Here /\ (Faultless => Known \subseteq Here)
    /\ InstagramLooks /\ Faultless =>
          scan.keys \cup scan.deleted \cup scan.media \cup scan.on_disk \subseteq Here
    /\ InstagramGets =>
          /\ scan.got \subseteq Here
          /\ Faultless => scan.listed \subseteq scan.plan \cup Here
          /\ scan.step # "fetch" /\ ~scan.errors => scan.plan \subseteq scan.got
          /\ scan.step = "succeeded" => ~scan.errors

\* The pinned posts that are listed when the listing stands at one of them.
PinnedUpTo(at) == {q \in OnTop : q >= at}

\* Pages come in order, so that a run of known ones among the pinned posts is no longer
\* than these.
InstagramPaged ==
    /\ InstagramLooks =>
          /\ scan.from \in 0..published /\ scan.span = 1..scan.from
          /\ scan.head \subseteq scan.span
    /\ Listing =>
          /\ scan.at \in {0} \cup Post /\ scan.streak \in Nat
          /\ scan.at = 0 => scan.streak = 0
          /\ scan.at \in OnTop => scan.streak <= Cardinality(PinnedUpTo(scan.at))
          /\ scan.listed \subseteq OfKind(Post, scan.step)
          /\ scan.step = "reels" => scan.posts \subseteq OfKind(Post, "timeline")

\* What is owed of a section was listed, has left, or is ahead as long as it is listed;
\* where the listing stopped early, it is here.
InstagramCovers ==
    Faultless =>
        /\ InstagramLooks /\ scan.step = "timeline" =>
              \A q \in scan.span : q \in scan.head \cup left \/ Ahead(LastOf(scan.head), q)
        /\ Listing =>
              \A q \in Owed(scan.listed, scan.step, Due) :
                  q \in scan.listed \cup left \/ Ahead(scan.at, q)
        /\ InstagramLooks /\ scan.step # "timeline" =>
              Owed(scan.posts, "timeline", Due) \subseteq scan.posts \cup left \cup Here
        /\ InstagramLooks /\ scan.step = "plan" =>
              Owed(scan.posts, "reels", Due) \subseteq scan.posts \cup left \cup Here
        /\ InstagramGets =>
              \A kind \in {"timeline", "reels"} :
                  Owed(scan.listed, kind, Due) \subseteq scan.listed \cup left \cup Here

\* Part of what was planned came, and the sync has not told yet.
Halfway ==
    InstagramGets /\ scan.step \in {"media", "posts"} /\ scan.got # {} /\ scan.got # scan.plan

\* With a post all the older ones of its kind are here, or have left: this is what lets
\* a listing stop at pages that are known.
NoGaps ==
    \A p \in Here \ OnTop : \A q \in Post \ OnTop :
        p > q /\ KindOf[p] = KindOf[q] => q \in Here \cup left
InstagramGapless == Faultless /\ ~Halfway => NoGaps

InstagramKept == InstagramHas /\ InstagramPaged /\ InstagramCovers /\ InstagramGapless

LEMMA InstagramBecomes ==
    ASSUME InstagramInv'
    PROVE  /\ scan'.step \in {"timeline", "reels", "plan"} => InstagramLooks' /\ ~InstagramGets'
           /\ scan'.step \in {"fetch", "media", "posts", "warning", "succeeded"} =>
                 InstagramGets' /\ ~InstagramLooks'
  <1>1. NoScan' => scan'.step = "idle"
        BY DEF NoScan, Idle
  <1> QED BY <1>1, InstagramAfterwards DEF InstagramInv

LEMMA PinnedCount ==
    ASSUME NEW at
    PROVE  /\ IsFiniteSet(PinnedUpTo(at)) /\ Cardinality(PinnedUpTo(at)) \in Nat
           /\ Cardinality(OnTop) \in Nat
           /\ Cardinality(PinnedUpTo(at)) <= Cardinality(OnTop)
  <1>1. IsFiniteSet(Post)
        BY PresenceAssumption, FS_Interval DEF Post
  <1>2. IsFiniteSet(OnTop)
        BY <1>1, InstagramAssumption, FS_Subset
  <1>3. PinnedUpTo(at) \in SUBSET OnTop
        BY DEF PinnedUpTo
  <1>4. IsFiniteSet(PinnedUpTo(at)) /\ Cardinality(PinnedUpTo(at)) <= Cardinality(OnTop)
        BY <1>2, <1>3, FS_Subset
  <1> QED BY <1>2, <1>4, FS_CardinalityType

\* The pinned posts up to one are one more than those up to any before it.
LEMMA PinnedGrows ==
    ASSUME NEW p \in OnTop, NEW S \in SUBSET PinnedUpTo(p), p \notin S
    PROVE  Cardinality(S) \in Nat /\ Cardinality(S) + 1 <= Cardinality(PinnedUpTo(p))
  <1>1. IsFiniteSet(PinnedUpTo(p)) /\ p \in PinnedUpTo(p)
    <2>1. p \in Nat
          BY InstagramAssumption, PresenceAssumption DEF Post
    <2> QED BY <2>1, PinnedCount DEF PinnedUpTo
  <1>2. IsFiniteSet(S)
        BY <1>1, FS_Subset
  <1>3. Cardinality(S \cup {p}) = Cardinality(S) + 1
        BY <1>2, FS_AddElement
  <1>4. S \cup {p} \in SUBSET PinnedUpTo(p)
        BY <1>1
  <1>5. Cardinality(S \cup {p}) <= Cardinality(PinnedUpTo(p))
        BY <1>1, <1>4, FS_Subset
  <1> QED BY <1>2, <1>3, <1>5, FS_CardinalityType

\* What is owed goes by the posts of the kind alone.
LEMMA OwedByKind ==
    ASSUME NEW posts, NEW more, NEW kind, NEW due, NEW fewer \in SUBSET due,
           OfKind(more, kind) \subseteq OfKind(posts, kind)
    PROVE  Owed(more, kind, fewer) \subseteq Owed(posts, kind, due)
  BY DEF Owed

\* What is owed is published: it is shown or has left.
LEMMA OwedShown ==
    ASSUME InstagramInv, NEW posts \in SUBSET (1..published), NEW due \in SUBSET (1..published),
           NEW kind, NEW q \in Owed(posts, kind, due)
    PROVE  q \in 1..published /\ q \in shown \cup left /\ KindOf[q] = kind
  <1>1. published \in Nat /\ q \in Post /\ q \in Nat /\ q >= 1
        BY PresenceAssumption DEF InstagramInv, ProfileSound, PresenceTypeOK, Owed, OfKind, Post
  <1>2. q \in due \/ \E p \in posts : q < p
        BY DEF Owed, OfKind
  <1>3. q \in 1..published
        BY <1>1, <1>2
  <1> QED BY <1>3 DEF Owed, OfKind, InstagramInv, ProfileSound, HiddenHaveLeft

LEMMA InstagramGaplessStill ==
    ASSUME InstagramKept, Faultless' => Faultless /\ ~Halfway, Here' = Here, left \subseteq left'
    PROVE  InstagramGapless'
  BY DEF InstagramKept, InstagramGapless, NoGaps

LEMMA InstagramKeptOver ==
    ASSUME scan' = Idle, media' \subseteq Here', Faultless' => Known' \subseteq Here',
           InstagramGapless'
    PROVE  InstagramKept'
  <1>1. ~InstagramLooks' /\ ~InstagramGets'
        BY InstagramAfterwards
  <1> QED BY <1>1 DEF InstagramKept, InstagramHas, InstagramPaged, InstagramCovers, Listing

LEMMA InstagramKeptInitial == PresenceInit => InstagramKept
  <1> SUFFICES ASSUME PresenceInit PROVE InstagramKept
      OBVIOUS
  <1>1. NoScan /\ Here = {} /\ media = {} /\ Known = {}
        BY DEF PresenceInit, NoScan, Here, Known
  <1>2. ~InstagramLooks /\ ~InstagramGets
        BY <1>1, InstagramKinds
  <1> QED BY <1>1, <1>2
          DEF InstagramKept, InstagramHas, InstagramPaged, InstagramCovers, InstagramGapless,
              NoGaps, Listing

\* A step beside a sync: what is here stays, or is given up by the user.
LEMMA InstagramKeptBeside ==
    ASSUME InstagramKept, scan' = scan, Here' = Here, left \subseteq left', media' = media,
           0..published \subseteq 0..published', blame \subseteq blame', Known' \subseteq Known \cup Here
    PROVE  InstagramKept'
  <1>1. /\ InstagramLooks' <=> InstagramLooks
        /\ InstagramGets' <=> InstagramGets
        /\ Listing' <=> Listing
        /\ Due' = Due
        BY DEF InstagramLooks, LooksAs, InstagramGets, Listing, Due
  <1>2. Faultless' => Faultless
        BY DEF Faultless
  <1>3. InstagramHas'
        BY <1>1, <1>2 DEF InstagramKept, InstagramHas
  <1>4. InstagramPaged'
        BY <1>1 DEF InstagramKept, InstagramPaged
  <1>5. InstagramCovers'
        BY <1>1, <1>2 DEF InstagramKept, InstagramCovers
  <1>6. InstagramGapless'
        BY <1>1, <1>2 DEF InstagramKept, InstagramGapless, NoGaps, Halfway
  <1> QED BY <1>3, <1>4, <1>5, <1>6 DEF InstagramKept

LEMMA InstagramKeptOutside ==
    ASSUME InstagramInv, InstagramKept, AuthorStep \/ \E p \in Post : InstagramDelete(p)
    PROVE  InstagramKept'
  <1>1. CASE AuthorStep
    <2>1. /\ Outside /\ ledger' = ledger /\ held' = held /\ tombs' = tombs /\ blame' = blame
          BY <1>1, AuthorOutside DEF InstagramInv
    <2>2. 0..published \subseteq 0..published'
      <3>1. published <= published' /\ published \in Nat /\ published' \in Nat
            BY <1>1, AuthorOutside, PresenceAssumption
            DEF Outside, InstagramInv, ProfileSound, PresenceTypeOK
      <3> QED BY <3>1
    <2>3. Here' = Here /\ Known' = Known
          BY <2>1 DEF Here, Known
    <2>4. scan' = scan /\ left \subseteq left' /\ blame \subseteq blame' /\ media' = media
          BY <2>1 DEF Outside
    <2> QED BY <2>2, <2>3, <2>4, InstagramKeptBeside
  <1>2. ASSUME NEW p \in Post, InstagramDelete(p)
        PROVE  InstagramKept'
    <2>1. DeleteMedium(p, KindOf[p]) /\ blame \subseteq blame' /\ KindOf[p] \in Section
          BY <1>2 DEF InstagramDelete, KindOf, Section
    <2>2. /\ published' = published /\ left' = left /\ scan' = scan /\ media' = media
          /\ p \in held /\ held' = held \ {p} /\ tombs' = tombs \cup {p}
          BY <2>1 DEF DeleteMedium
    <2>3. Known' \subseteq Known \cup {p}
          BY <2>1, DeletionOutside DEF InstagramInv
    <2>4. Here' = Here /\ p \in Here
          BY <2>2 DEF Here
    <2>5. left \subseteq left' /\ 0..published \subseteq 0..published'
          BY <2>2
    <2> QED BY <2>1, <2>2, <2>3, <2>4, <2>5, InstagramKeptBeside
  <1> QED BY <1>1, <1>2

LEMMA InstagramKeptStarts ==
    ASSUME InstagramInv, InstagramInv', InstagramKept, NEW full \in BOOLEAN,
           NEW missing_only \in BOOLEAN, NEW gql \in BOOLEAN,
           InstagramStart(full, missing_only, gql)
    PROVE  InstagramKept'
  <1> DEFINE head == PageAfter(0, shown)
             at == IF gql THEN 0 ELSE LastOf(head)
             listed == IF gql THEN {} ELSE OfKind(head, "timeline")
  <1>1. /\ published' = published /\ ledger' = ledger /\ tombs' = tombs
        /\ left' = left /\ held' = held /\ media' = media /\ blame' = blame /\ NoScan
        BY DEF InstagramStart
  <1>2. scan' = [step |-> "timeline", from |-> published, span |-> 1..published,
                 full |-> full, missing_only |-> missing_only, gql |-> gql,
                 keys |-> Known, deleted |-> tombs, media |-> media, on_disk |-> held,
                 head |-> head, via |-> gql, at |-> at, streak |-> 0, listed |-> listed,
                 posts |-> {}, errors |-> FALSE, limited |-> FALSE, plan |-> {}, got |-> {}]
        BY DEF InstagramStart
  <1>3. shown \subseteq 1..published /\ published \in Nat /\ 1..published \subseteq Post
        BY PresenceAssumption DEF InstagramInv, ProfileSound, PresenceTypeOK, Post
  <1>4. /\ head \subseteq shown
        /\ \A p \in head : \A q \in shown : Ahead(0, q) => q = p \/ Before(p, q)
        BY <1>3, PageIsNext
  <1>5. /\ \A q \in shown : q \in head \/ Ahead(LastOf(head), q)
        /\ LastOf(head) \in {0} \cup head
    <2>1. CASE head = {}
          BY <2>1 DEF LastOf, Ahead
    <2>2. CASE head # {}
      <3>1. LastOf(head) \in head
            BY <2>2 DEF LastOf
      <3> QED BY <1>4, <3>1 DEF Ahead
    <2> QED BY <2>1, <2>2
  <1>6. \A q \in 1..published : q \in head \cup left \/ Ahead(LastOf(head), q)
        BY <1>5 DEF InstagramInv, ProfileSound, HiddenHaveLeft
  <1>7. /\ listed \subseteq OfKind(Post, "timeline") /\ listed \subseteq 1..published
        /\ at \in {0} \cup Post /\ head \subseteq 1..published
        BY <1>3, <1>4, <1>5 DEF OfKind
  <1>8. \A q \in 1..published : KindOf[q] = "timeline" =>
            q \in listed \cup left \/ Ahead(at, q)
        BY <1>6 DEF OfKind, Ahead
  <1> HIDE DEF head, at, listed
  <1>9. InstagramLooks' /\ ~InstagramGets'
        BY <1>2, InstagramBecomes
  <1>10. Here' = Here /\ Known' = Known /\ (Faultless' <=> Faultless)
        BY <1>1 DEF Here, Known, Faultless
  <1>11. ~Halfway /\ ~Halfway'
        BY <1>1, <1>9, InstagramKinds DEF Halfway
  <1>12. InstagramHas'
        BY <1>1, <1>2, <1>9, <1>10 DEF InstagramKept, InstagramHas, Here
  <1>13. InstagramPaged'
    <2>1. Cardinality(PinnedUpTo(at)) \in Nat
          BY PinnedCount
    <2>2. /\ scan'.step = "timeline" /\ scan'.from = published /\ scan'.span = 1..published
          /\ scan'.head = head /\ scan'.at = at /\ scan'.streak = 0 /\ scan'.listed = listed
          BY <1>2
    <2>3. 0 <= Cardinality(PinnedUpTo(at)) /\ 0 \in Nat
          BY <2>1
    <2> QED BY <1>1, <1>3, <1>7, <1>9, <2>2, <2>3 DEF InstagramPaged, Listing, PinnedUpTo
  <1>14. InstagramCovers'
    <2>1. /\ scan'.step = "timeline" /\ scan'.span = 1..published /\ scan'.head = head
          /\ scan'.at = at /\ scan'.listed = listed /\ ~scan'.errors
          BY <1>2
    <2>2. \A q \in Owed(listed, "timeline", 1..published) :
              q \in listed \cup left \/ Ahead(at, q)
          BY <1>7, <1>8, OwedShown
    <2> QED BY <1>1, <1>6, <1>9, <2>1, <2>2 DEF InstagramCovers, Listing, Due
  <1>15. InstagramGapless'
    <2>1. left \subseteq left'
          BY <1>1
    <2> QED BY <1>10, <1>11, <2>1, InstagramGaplessStill
  <1> QED BY <1>12, <1>13, <1>14, <1>15 DEF InstagramKept

\* The sync goes on with the section it lists.
LEMMA InstagramKeptStays ==
    ASSUME InstagramInv, InstagramInv', InstagramKept, Listing,
           published' = published, ledger' = ledger, tombs' = tombs, left' = left,
           held' = held, media' = media, blame' = blame,
           NEW at \in {0} \cup Post, NEW streak \in Nat, NEW via,
           NEW listed \in SUBSET OfKind(Post, scan.step),
           scan' = [scan EXCEPT !.at = at, !.streak = streak, !.via = via, !.listed = listed],
           at = 0 => streak = 0,
           at \in OnTop => streak <= Cardinality(PinnedUpTo(at)),
           Faultless => \A q \in Owed(listed, scan.step, Due) :
               q \in listed \cup left \/ Ahead(at, q)
    PROVE  InstagramKept'
  <1>1. InstagramLooks /\ scan.step \in {"timeline", "reels"} /\ ~InstagramGets
        BY InstagramKinds DEF Listing
  <1>2. /\ scan'.step = scan.step /\ scan'.head = scan.head /\ scan'.posts = scan.posts
        /\ scan'.from = scan.from /\ scan'.span = scan.span
        /\ scan'.keys = scan.keys /\ scan'.deleted = scan.deleted
        /\ scan'.media = scan.media /\ scan'.on_disk = scan.on_disk
        /\ scan'.errors = scan.errors
        /\ scan'.listed = listed /\ scan'.at = at /\ scan'.streak = streak
        BY <1>1 DEF InstagramLooks, LooksAs
  <1>3. InstagramLooks' /\ ~InstagramGets' /\ Listing' /\ Due' = Due
        BY <1>1, <1>2, InstagramBecomes DEF Listing, Due
  <1>4. Here' = Here /\ Known' = Known /\ (Faultless' <=> Faultless) /\ ~Halfway
        BY <1>1 DEF Here, Known, Faultless, Halfway
  <1>5. InstagramHas'
        BY <1>1, <1>2, <1>3, <1>4 DEF InstagramKept, InstagramHas
  <1>6. InstagramPaged'
        BY <1>1, <1>2, <1>3 DEF InstagramKept, InstagramPaged, Listing, PinnedUpTo
  <1>7. InstagramCovers'
        BY <1>1, <1>2, <1>3, <1>4 DEF InstagramKept, InstagramCovers
  <1>8. InstagramGapless'
        BY <1>4, InstagramGaplessStill
  <1> QED BY <1>5, <1>6, <1>7, <1>8 DEF InstagramKept

\* It turns to the next one; unless an error made it do so, what it owes of this one was
\* listed, has left or is here.
LEMMA InstagramKeptTurns ==
    ASSUME InstagramInv, InstagramInv', InstagramKept, Listing,
           published' = published, ledger' = ledger, tombs' = tombs, left' = left,
           held' = held, media' = media, blame \subseteq blame',
           NEW listed \in SUBSET OfKind(Post, scan.step), NEW errors \in BOOLEAN, NEW limited,
           \/ scan' = NextSection(listed) /\ errors = scan.errors
           \/ scan' = [NextSection(listed) EXCEPT !.errors = errors, !.limited = limited],
           scan.errors => errors,
           Faultless' => \A q \in Owed(listed, scan.step, IF errors THEN {} ELSE scan.span) :
               q \in listed \cup left \cup Here
    PROVE  InstagramKept'
  <1> DEFINE due == IF errors THEN {} ELSE scan.span
  <1>1. InstagramLooks /\ scan.step \in {"timeline", "reels"} /\ ~InstagramGets
        BY InstagramKinds DEF Listing
  <1>2. Here' = Here /\ Known' = Known /\ (Faultless' => Faultless) /\ ~Halfway
        BY <1>1 DEF Here, Known, Faultless, Halfway
  <1>3. InstagramGapless'
        BY <1>2, InstagramGaplessStill
  <1>4. /\ scan.from \in 0..published /\ scan.span = 1..scan.from /\ scan.head \subseteq scan.span
        /\ 1..published \subseteq Post /\ published \in Nat
        BY <1>1, PresenceAssumption
        DEF InstagramKept, InstagramPaged, InstagramInv, ProfileSound, PresenceTypeOK, Post
  <1>5. CASE scan.step = "timeline"
    <2> DEFINE next == [scan EXCEPT !.step = "reels", !.posts = listed, !.via = scan.gql,
                                    !.at = 0, !.streak = 0,
                                    !.listed = OfKind(scan.head, "reels")]
    <2>1. next = NextSection(listed)
          BY <1>5 DEF NextSection
    <2>2. \/ scan' = next /\ errors = scan.errors
          \/ scan' = [next EXCEPT !.errors = errors, !.limited = limited]
          BY <2>1
    <2>3. /\ scan'.step = "reels" /\ scan'.head = scan.head /\ scan'.posts = listed
          /\ scan'.from = scan.from /\ scan'.span = scan.span
          /\ scan'.keys = scan.keys /\ scan'.deleted = scan.deleted
          /\ scan'.media = scan.media /\ scan'.on_disk = scan.on_disk
          /\ scan'.listed = OfKind(scan.head, "reels") /\ scan'.at = 0 /\ scan'.streak = 0
          /\ scan'.errors = errors
      <3>1. CASE scan' = next /\ errors = scan.errors
            BY <1>1, <3>1 DEF InstagramLooks, LooksAs
      <3>2. CASE scan' = [next EXCEPT !.errors = errors, !.limited = limited]
            BY <1>1, <3>2 DEF InstagramLooks, LooksAs
      <3> QED BY <2>2, <3>1, <3>2
    <2> HIDE DEF next
    <2>4. InstagramLooks' /\ ~InstagramGets' /\ Listing' /\ Due' = due
          BY <2>3, InstagramBecomes DEF Listing, Due
    <2>5. InstagramHas'
          BY <1>1, <1>2, <2>3, <2>4 DEF InstagramKept, InstagramHas
    <2>6. InstagramPaged'
      <3>1. scan'.listed \subseteq OfKind(Post, "reels")
            BY <1>4, <2>3 DEF OfKind
      <3>2. 0 \notin OnTop
            BY InstagramAssumption DEF Post
      <3> QED BY <1>4, <1>5, <2>3, <2>4, <3>1, <3>2 DEF InstagramPaged
    <2>7. InstagramCovers'
      <3>1. \A q : Ahead(0, q)
            BY DEF Ahead
      <3> QED BY <1>2, <1>5, <2>3, <2>4, <3>1 DEF InstagramCovers
    <2> QED BY <1>3, <2>5, <2>6, <2>7 DEF InstagramKept
  <1>6. CASE scan.step = "reels"
    <2> DEFINE next == [scan EXCEPT !.step = "plan", !.posts = scan.posts \cup listed,
                                    !.via = FALSE, !.at = 0, !.streak = 0, !.listed = {},
                                    !.head = {}]
    <2>1. next = NextSection(listed)
          BY <1>1, <1>6 DEF NextSection, InstagramLooks, LooksAs
    <2>2. \/ scan' = next /\ errors = scan.errors
          \/ scan' = [next EXCEPT !.errors = errors, !.limited = limited]
          BY <2>1
    <2>3. /\ scan'.step = "plan" /\ scan'.head = {} /\ scan'.posts = scan.posts \cup listed
          /\ scan'.from = scan.from /\ scan'.span = scan.span
          /\ scan'.keys = scan.keys /\ scan'.deleted = scan.deleted
          /\ scan'.media = scan.media /\ scan'.on_disk = scan.on_disk
          /\ scan'.errors = errors
      <3>1. CASE scan' = next /\ errors = scan.errors
            BY <1>1, <3>1 DEF InstagramLooks, LooksAs
      <3>2. CASE scan' = [next EXCEPT !.errors = errors, !.limited = limited]
            BY <1>1, <3>2 DEF InstagramLooks, LooksAs
      <3> QED BY <2>2, <3>1, <3>2
    <2> HIDE DEF next
    <2>4. InstagramLooks' /\ ~InstagramGets' /\ ~Listing' /\ Due' = due
          BY <2>3, InstagramBecomes DEF Listing, Due
    <2>5. InstagramHas'
          BY <1>1, <1>2, <2>3, <2>4 DEF InstagramKept, InstagramHas
    <2>6. InstagramPaged'
          BY <1>4, <2>3, <2>4 DEF InstagramPaged
    <2>7. scan.posts \subseteq OfKind(Post, "timeline")
          BY <1>6 DEF InstagramKept, InstagramPaged
    <2>8. Faultless' => Owed(scan.posts \cup listed, "timeline", due)
                           \subseteq scan.posts \cup listed \cup left \cup Here
      <3>1. due \in SUBSET Due
            BY DEF Due
      <3>2. OfKind(scan.posts \cup listed, "timeline") \subseteq OfKind(scan.posts, "timeline")
            BY <1>6 DEF OfKind
      <3>3. Owed(scan.posts \cup listed, "timeline", due) \subseteq Owed(scan.posts, "timeline", Due)
            BY <3>1, <3>2, OwedByKind
      <3> QED BY <1>1, <1>2, <1>6, <3>3 DEF InstagramKept, InstagramCovers
    <2>9. Faultless' => Owed(scan.posts \cup listed, "reels", due)
                           \subseteq scan.posts \cup listed \cup left \cup Here
      <3>1. OfKind(scan.posts \cup listed, "reels") \subseteq OfKind(listed, "reels")
            BY <2>7 DEF OfKind
      <3>2. Owed(scan.posts \cup listed, "reels", due) \subseteq Owed(listed, "reels", due)
            BY <3>1, OwedByKind
      <3> QED BY <1>6, <3>2
    <2> HIDE DEF due
    <2>10. InstagramCovers'
          BY <1>2, <2>3, <2>4, <2>8, <2>9 DEF InstagramCovers
    <2> QED BY <1>3, <2>5, <2>6, <2>10 DEF InstagramKept
  <1> QED BY <1>1, <1>5, <1>6

\* A page is the next of its feed, and is counted among the pinned ones.
LEMMA PageCounts ==
    ASSUME InstagramKept, Listing, NEW posts \in SUBSET Post, NEW p \in PageAfter(scan.at, posts),
           p \in OnTop, NEW streak \in {0, scan.streak + 1}
    PROVE  streak <= Cardinality(PinnedUpTo(p))
  <1>1. p \in Post /\ Ahead(scan.at, p)
        BY DEF PageAfter, Ahead
  <1>2. scan.at \in {0} \cup Post /\ scan.streak \in Nat
        BY DEF InstagramKept, InstagramPaged
  <1>3. Cardinality(PinnedUpTo(p)) \in Nat
        BY PinnedCount
  <1>4. CASE scan.at = 0
    <2>1. scan.streak = 0
          BY <1>4 DEF InstagramKept, InstagramPaged
    <2>2. Cardinality({}) + 1 <= Cardinality(PinnedUpTo(p)) /\ Cardinality({}) \in Nat
          BY PinnedGrows
    <2> QED BY <1>3, <2>1, <2>2
  <1>5. CASE scan.at # 0
    <2>1. scan.at \in OnTop /\ scan.at > p
          BY <1>1, <1>5 DEF Ahead, Before
    <2>2. scan.streak <= Cardinality(PinnedUpTo(scan.at))
          BY <2>1 DEF InstagramKept, InstagramPaged
    <2>3. PinnedUpTo(scan.at) \in SUBSET PinnedUpTo(p) /\ p \notin PinnedUpTo(scan.at)
      <3>1. \A q \in OnTop : q \in Nat
            BY InstagramAssumption, PresenceAssumption DEF Post
      <3>2. p \in Nat /\ scan.at \in Nat
            BY <2>1, <3>1
      <3>3. \A q \in OnTop : q >= scan.at => q >= p
            BY <2>1, <3>1, <3>2
      <3>4. ~(p >= scan.at)
            BY <2>1, <3>2
      <3> QED BY <3>3, <3>4 DEF PinnedUpTo
    <2>4. /\ Cardinality(PinnedUpTo(scan.at)) + 1 <= Cardinality(PinnedUpTo(p))
          /\ Cardinality(PinnedUpTo(scan.at)) \in Nat
          BY <2>3, PinnedGrows
    <2> QED BY <1>2, <1>3, <2>2, <2>4
  <1> QED BY <1>4, <1>5

\* Where as many pages in a row are known as there may be pinned posts, and one more, the
\* last is known and not pinned: with it all the older ones of its section are here.
LEMMA InstagramKeptPages ==
    ASSUME Cardinality(OnTop) < KnownPages,
           InstagramInv, InstagramInv', InstagramKept, InstagramPage
    PROVE  InstagramKept'
  <1> DEFINE page == PageAfter(scan.at, Feed)
  <1>1. /\ published' = published /\ shown' = shown /\ ledger' = ledger /\ tombs' = tombs
        /\ left' = left /\ held' = held /\ media' = media
        /\ ~NoScan /\ scan.step \in {"timeline", "reels"}
        BY DEF InstagramPage, Discovering
  <1>2. InstagramLooks /\ Listing
        BY <1>1, InstagramKinds DEF InstagramInv, Listing
  <1>3. /\ scan.listed \subseteq 1..published /\ shown \subseteq 1..published
        /\ published \in Nat /\ 1..published \subseteq Post
        BY <1>2, PresenceAssumption
        DEF InstagramInv, InstagramOrderly, ProfileSound, PresenceTypeOK, Post
  <1>4. /\ Feed \subseteq shown
        /\ \A p \in shown : KindOf[p] = scan.step => p \in Feed
        BY <1>1 DEF Feed, OfKind
  <1>5. /\ page \subseteq Feed
        /\ \A p \in page : \A q \in Feed : Ahead(scan.at, q) => q = p \/ Before(p, q)
        /\ page = {} => \A q \in Feed : ~Ahead(scan.at, q)
    <2>1. Feed \in SUBSET (1..published)
          BY <1>3, <1>4
    <2> QED BY <1>3, <2>1, PageIsNext
  <1>6. /\ Due \in SUBSET (1..published)
        /\ Due = (IF scan.errors THEN {} ELSE scan.span)
        /\ scan.errors \in BOOLEAN /\ scan.limited \in BOOLEAN
    <2>1. scan.span = 1..scan.from /\ scan.from \in 0..published
          BY <1>2 DEF InstagramKept, InstagramPaged
    <2> QED BY <1>2, <1>3, <2>1 DEF Due, InstagramLooks, LooksAs
  <1>7. scan.listed \subseteq OfKind(Post, scan.step)
        BY <1>2 DEF InstagramKept, InstagramPaged
  <1>8. Faultless => \A q \in Owed(scan.listed, scan.step, Due) :
            q \in scan.listed \cup left \/ Ahead(scan.at, q)
        BY <1>2 DEF InstagramKept, InstagramCovers
  <1>9. CASE page = {} /\ scan' = NextSection(scan.listed) /\ blame' = blame
    <2>1. Faultless => \A q \in Owed(scan.listed, scan.step, Due) : q \in scan.listed \cup left
          BY <1>3, <1>4, <1>5, <1>6, <1>8, <1>9, OwedShown
    <2>2. blame \subseteq blame' /\ (Faultless' => Faultless)
          BY <1>9 DEF Faultless
    <2> QED BY <1>1, <1>2, <1>6, <1>7, <1>9, <2>1, <2>2, InstagramKeptTurns
  <1>10. ASSUME NEW p \in page, scan' = NextSection(scan.listed), Cut(scan.listed)
         PROVE  InstagramKept'
    <2>1. blame \subseteq blame'
          BY <1>10 DEF Cut
    <2>2. Faultless' => OfKind(shown, scan.step) \subseteq scan.listed
          BY <1>10 DEF Cut, Faultless
    <2>3. Faultless' => \A q \in Owed(scan.listed, scan.step, Due) : q \in scan.listed \cup left
          BY <1>3, <1>6, <2>2, OwedShown DEF OfKind
    <2> QED BY <1>1, <1>2, <1>6, <1>7, <1>10, <2>1, <2>3, InstagramKeptTurns
  <1>11. ASSUME NEW p \in page, NEW streak \in {0, scan.streak + 1}, blame' = blame,
                PageKnown(p) \/ streak = 0,
                scan' = IF EnoughKnown(streak)
                        THEN NextSection(scan.listed \cup OfKind({p}, scan.step))
                        ELSE [scan EXCEPT !.at = p, !.streak = streak,
                                          !.listed = scan.listed \cup OfKind({p}, scan.step)]
         PROVE  InstagramKept'
    <2> DEFINE listed == scan.listed \cup OfKind({p}, scan.step)
    <2>1. /\ listed \in SUBSET OfKind(Post, scan.step) /\ listed \in SUBSET (1..published)
          /\ scan.listed \subseteq listed /\ p \in 1..published /\ p \in Post /\ p \in Nat
          BY <1>3, <1>4, <1>5, <1>7, <1>11 DEF OfKind
    <2>2. KindOf[p] = scan.step => p \in listed
          BY DEF OfKind
    <2>3. scan' = IF EnoughKnown(streak) THEN NextSection(listed)
                  ELSE [scan EXCEPT !.at = p, !.streak = streak, !.listed = listed]
          BY <1>11
    <2>4. \A q \in Owed(listed, scan.step, Due) :
              \/ q \in Owed(scan.listed, scan.step, Due)
              \/ q \notin OnTop /\ p \notin OnTop /\ q < p
          BY DEF Owed, OfKind
    <2> HIDE DEF listed
    <2>5. ASSUME Faultless, NEW q \in Owed(listed, scan.step, Due), q \notin listed \cup left
          PROVE  Before(p, q) /\ q # p /\ KindOf[q] = scan.step
      <3>1. q \in 1..published /\ q \in shown \cup left /\ KindOf[q] = scan.step
            BY <1>6, <2>1, OwedShown
      <3>2. q \in Feed /\ q # p
            BY <1>4, <2>2, <2>5, <3>1
      <3>3. CASE q \in Owed(scan.listed, scan.step, Due)
        <4>1. Ahead(scan.at, q)
              BY <1>8, <2>1, <2>5, <3>3
        <4>2. q = p \/ Before(p, q)
              BY <1>5, <1>11, <3>2, <4>1
        <4> QED BY <3>1, <3>2, <4>2
      <3>4. CASE q \notin OnTop /\ p \notin OnTop /\ q < p
            BY <2>1, <3>1, <3>2, <3>4 DEF Before
      <3> QED BY <2>4, <3>1, <3>2, <3>3, <3>4
    <2>6. scan.streak \in Nat /\ streak \in Nat
          BY <1>2, <1>11 DEF InstagramKept, InstagramPaged
    <2>7. p \in OnTop => streak <= Cardinality(PinnedUpTo(p))
      <3>1. Feed \in SUBSET Post
            BY <1>3, <1>4
      <3> QED BY <1>2, <1>11, <3>1, PageCounts
    <2>8. CASE EnoughKnown(streak)
      <3>1. streak >= KnownPages /\ StopsEarly
            BY <2>8 DEF EnoughKnown
      <3>2. p \notin OnTop
        <4>1. /\ Cardinality(PinnedUpTo(p)) \in Nat /\ Cardinality(OnTop) \in Nat
              /\ Cardinality(PinnedUpTo(p)) <= Cardinality(OnTop)
              BY PinnedCount
        <4>2. KnownPages \in Nat
              BY InstagramAssumption
        <4>3. ~(streak <= Cardinality(PinnedUpTo(p)))
              BY <2>6, <3>1, <4>1, <4>2
        <4> QED BY <2>7, <4>3
      <3>3. PageKnown(p)
        <4>1. streak # 0
              BY <2>6, <3>1, InstagramAssumption
        <4> QED BY <1>11, <4>1
      <3>4. Faultless => p \in Here
            BY <1>2, <3>3 DEF PageKnown, InstagramKept, InstagramHas
      <3>5. Faultless => \A q \in Owed(listed, scan.step, Due) : q \in listed \cup left \cup Here
        <4> SUFFICES ASSUME Faultless, NEW q \in Owed(listed, scan.step, Due),
                            q \notin listed \cup left
                     PROVE  q \in Here \cup left
            OBVIOUS
        <4>1. Before(p, q) /\ KindOf[q] = scan.step /\ KindOf[p] = scan.step
              BY <2>5, <3>3 DEF PageKnown
        <4>2. q \in Post \ OnTop /\ p > q
              BY <3>2, <4>1 DEF Before, Owed, OfKind
        <4>3. ~Halfway
              BY <1>2, InstagramKinds DEF Halfway
        <4>4. NoGaps
              BY <4>3 DEF InstagramKept, InstagramGapless
        <4> QED BY <3>2, <3>4, <4>1, <4>2, <4>4 DEF NoGaps
      <3>6. scan' = NextSection(listed) /\ blame \subseteq blame' /\ (Faultless' => Faultless)
            BY <1>11, <2>3, <2>8 DEF Faultless
      <3> QED BY <1>1, <1>2, <1>6, <2>1, <3>5, <3>6, InstagramKeptTurns
    <2>9. CASE ~EnoughKnown(streak)
      <3>1. scan' = [scan EXCEPT !.at = p, !.streak = streak, !.via = scan.via, !.listed = listed]
            BY <1>2, <2>3, <2>9 DEF InstagramLooks, LooksAs
      <3>2. p \in {0} \cup Post /\ p # 0
            BY <2>1 DEF Post
      <3>3. Faultless => \A q \in Owed(listed, scan.step, Due) :
                q \in listed \cup left \/ Ahead(p, q)
            BY <2>5 DEF Ahead
      <3> QED BY <1>1, <1>2, <1>11, <2>1, <2>6, <2>7, <3>1, <3>2, <3>3, InstagramKeptStays
    <2> QED BY <2>8, <2>9
  <1>12. \/ page = {} /\ scan' = NextSection(scan.listed) /\ blame' = blame
         \/ \E p \in page :
              IF scan.via /\ scan.step = "timeline" /\ p \in Clips
              THEN scan' = NextSection(scan.listed) /\ Cut(scan.listed)
              ELSE LET streak == IF PageKnown(p) THEN scan.streak + 1 ELSE 0
                       listed == scan.listed \cup OfKind({p}, scan.step)
                   IN  /\ scan' = IF EnoughKnown(streak) THEN NextSection(listed)
                                  ELSE [scan EXCEPT !.at = p, !.streak = streak, !.listed = listed]
                       /\ UNCHANGED blame
        BY DEF InstagramPage
  <1> HIDE DEF page
  <1>13. ASSUME NEW p \in page,
                IF scan.via /\ scan.step = "timeline" /\ p \in Clips
                THEN scan' = NextSection(scan.listed) /\ Cut(scan.listed)
                ELSE LET streak == IF PageKnown(p) THEN scan.streak + 1 ELSE 0
                         listed == scan.listed \cup OfKind({p}, scan.step)
                     IN  /\ scan' = IF EnoughKnown(streak) THEN NextSection(listed)
                                    ELSE [scan EXCEPT !.at = p, !.streak = streak, !.listed = listed]
                         /\ UNCHANGED blame
         PROVE  InstagramKept'
    <2>1. CASE scan.via /\ scan.step = "timeline" /\ p \in Clips
          BY <1>10, <1>13, <2>1
    <2>2. CASE ~(scan.via /\ scan.step = "timeline" /\ p \in Clips)
      <3> DEFINE streak == IF PageKnown(p) THEN scan.streak + 1 ELSE 0
      <3>1. /\ scan' = IF EnoughKnown(streak)
                       THEN NextSection(scan.listed \cup OfKind({p}, scan.step))
                       ELSE [scan EXCEPT !.at = p, !.streak = streak,
                                         !.listed = scan.listed \cup OfKind({p}, scan.step)]
            /\ blame' = blame
            BY <1>13, <2>2
      <3>2. streak \in {0, scan.streak + 1} /\ (PageKnown(p) \/ streak = 0)
            OBVIOUS
      <3> HIDE DEF streak
      <3> QED BY <1>11, <1>13, <3>1, <3>2
    <2> QED BY <2>1, <2>2
  <1> QED BY <1>9, <1>12, <1>13

LEMMA InstagramKeptRefused ==
    ASSUME InstagramInv, InstagramInv', InstagramKept, InstagramRefused
    PROVE  InstagramKept'
  <1>1. /\ published' = published /\ shown' = shown /\ ledger' = ledger /\ tombs' = tombs
        /\ left' = left /\ held' = held /\ media' = media
        /\ ~NoScan /\ scan.step \in {"timeline", "reels"}
        BY DEF InstagramRefused, Discovering
  <1>2. InstagramLooks /\ Listing
        BY <1>1, InstagramKinds DEF InstagramInv, Listing
  <1>3. /\ scan.listed \subseteq 1..published /\ scan.head \subseteq 1..published
        /\ published \in Nat /\ 1..published \subseteq Post
        BY <1>2, PresenceAssumption
        DEF InstagramInv, InstagramOrderly, ProfileSound, PresenceTypeOK, Post
  <1>4. /\ Due \in SUBSET (1..published)
        /\ Due = (IF scan.errors THEN {} ELSE scan.span)
        /\ scan.errors \in BOOLEAN
        /\ scan.span = 1..scan.from /\ scan.from \in 0..published /\ scan.head \subseteq scan.span
    <2>1. scan.span = 1..scan.from /\ scan.from \in 0..published /\ scan.head \subseteq scan.span
          BY <1>2 DEF InstagramKept, InstagramPaged
    <2> QED BY <1>2, <1>3, <2>1 DEF Due, InstagramLooks, LooksAs
  <1>5. scan.listed \in SUBSET OfKind(Post, scan.step)
        BY <1>2 DEF InstagramKept, InstagramPaged
  <1>6. CASE scan.step = "timeline" /\ blame' = blame
             /\ scan' = [scan EXCEPT !.via = FALSE, !.streak = 0, !.at = LastOf(scan.head),
                                     !.listed = OfKind(scan.head, "timeline")]
    <2> DEFINE start == 0
               last == LastOf(scan.head)
               listed == OfKind(scan.head, "timeline")
    <2>1. scan' = [scan EXCEPT !.at = last, !.streak = start, !.via = FALSE, !.listed = listed]
          BY <1>2, <1>6 DEF InstagramLooks, LooksAs
    <2>2. last \in {0} \cup Post /\ listed \in SUBSET OfKind(Post, "timeline")
          BY <1>3 DEF LastOf, OfKind
    <2>3. Faultless => \A q \in Owed(listed, "timeline", Due) :
              q \in listed \cup left \/ Ahead(last, q)
      <3> SUFFICES ASSUME Faultless, NEW q \in Owed(listed, "timeline", Due)
                   PROVE  q \in listed \cup left \/ Ahead(last, q)
          OBVIOUS
      <3>1. q \in scan.span /\ KindOf[q] = "timeline"
        <4>1. q \in Post /\ KindOf[q] = "timeline"
              BY DEF Owed, OfKind
        <4>2. q \in Due \/ \E p \in scan.head : q < p
              BY DEF Owed, OfKind
        <4>3. scan.from \in Nat /\ q \in Nat /\ q >= 1
              BY <1>3, <1>4, <4>1, PresenceAssumption DEF Post
        <4>4. q \in scan.span
              BY <1>4, <4>2, <4>3
        <4> QED BY <4>1, <4>4
      <3>2. q \in scan.head \cup left \/ Ahead(last, q)
            BY <1>2, <1>6, <3>1 DEF InstagramKept, InstagramCovers
      <3> QED BY <3>1, <3>2 DEF OfKind
    <2>4. start \in Nat /\ start = 0 /\ start <= Cardinality(PinnedUpTo(last))
      <3>1. Cardinality(PinnedUpTo(last)) \in Nat
            BY PinnedCount
      <3> QED BY <3>1
    <2> HIDE DEF start, last, listed
    <2> QED BY <1>1, <1>2, <1>6, <2>1, <2>2, <2>3, <2>4, InstagramKeptStays
  <1>7. CASE blame' = blame /\ scan' = [scan EXCEPT !.via = FALSE, !.streak = 0, !.at = 0]
    <2> DEFINE start == 0
               listed == scan.listed
    <2>1. scan' = [scan EXCEPT !.at = start, !.streak = start, !.via = FALSE, !.listed = listed]
          BY <1>2, <1>7 DEF InstagramLooks, LooksAs
    <2>2. listed \in SUBSET OfKind(Post, scan.step) /\ blame' = blame
          BY <1>5, <1>7
    <2>3. Faultless => \A q \in Owed(listed, scan.step, Due) :
              q \in listed \cup left \/ Ahead(start, q)
          BY DEF Ahead
    <2>4. start \in Nat /\ start \in {0} \cup Post /\ start = 0 /\ start \notin OnTop
          BY InstagramAssumption DEF Post
    <2> HIDE DEF start, listed
    <2> QED BY <1>1, <1>2, <2>1, <2>2, <2>3, <2>4, InstagramKeptStays
  <1>8. ASSUME NEW limited \in BOOLEAN, blame' = blame,
               scan' = [NextSection({}) EXCEPT !.errors = TRUE, !.limited = @ \/ limited]
        PROVE  InstagramKept'
    <2> DEFINE either == NextSection({}).limited \/ limited
    <2>1. scan' = [NextSection({}) EXCEPT !.errors = TRUE, !.limited = either]
          BY <1>8 DEF NextSection
    <2> HIDE DEF either
    <2>2. blame \subseteq blame' /\ {} \in SUBSET OfKind(Post, scan.step)
          BY <1>8
    <2>3. \A q \in Owed({}, scan.step, IF TRUE THEN {} ELSE scan.span) : q \in {} \cup left \cup Here
          BY DEF Owed, OfKind
    <2>4. TRUE \in BOOLEAN
          OBVIOUS
    <2> QED BY <1>1, <1>2, <2>1, <2>2, <2>3, <2>4, InstagramKeptTurns
  <1>9. CASE scan' = NextSection(scan.listed) /\ Cut(scan.listed)
    <2>1. blame \subseteq blame'
          BY <1>9 DEF Cut
    <2>2. Faultless' => OfKind(shown, scan.step) \subseteq scan.listed
          BY <1>9 DEF Cut, Faultless
    <2>3. Faultless' => \A q \in Owed(scan.listed, scan.step, Due) : q \in scan.listed \cup left
          BY <1>3, <1>4, <2>2, OwedShown DEF OfKind
    <2> QED BY <1>1, <1>2, <1>4, <1>5, <1>9, <2>1, <2>3, InstagramKeptTurns
  <1>10. \/ /\ scan' = IF scan.step = "timeline"
                       THEN [scan EXCEPT !.via = FALSE, !.streak = 0,
                                         !.at = LastOf(scan.head),
                                         !.listed = OfKind(scan.head, "timeline")]
                       ELSE [scan EXCEPT !.via = FALSE, !.streak = 0, !.at = 0]
            /\ blame' = blame
         \/ \E limited \in BOOLEAN :
               /\ scan' = [NextSection({}) EXCEPT !.errors = TRUE, !.limited = @ \/ limited]
               /\ blame' = blame
         \/ scan' = NextSection(scan.listed) /\ Cut(scan.listed)
        BY Zenon DEF InstagramRefused
  <1> QED BY <1>1, <1>6, <1>7, <1>8, <1>9, <1>10

LEMMA InstagramKeptPlans ==
    ASSUME InstagramInv, InstagramInv', InstagramKept, InstagramPlan
    PROVE  InstagramKept'
  <1> DEFINE posts == scan.posts \ Suppressed
             plan == posts \ Present
  <1>1. /\ published' = published /\ ledger' = ledger /\ tombs' = tombs
        /\ left' = left /\ held' = held /\ media' = media /\ blame' = blame
        /\ ~NoScan /\ scan.step = "plan"
        BY DEF InstagramPlan
  <1>2. scan' = [step |-> "fetch", from |-> scan.from, span |-> scan.span, full |-> scan.full,
                 missing_only |-> scan.missing_only, listed |-> scan.posts,
                 posts |-> posts, plan |-> plan, got |-> {},
                 errors |-> scan.errors, limited |-> scan.limited]
        BY DEF InstagramPlan
  <1>3. InstagramLooks /\ ~InstagramGets
        BY <1>1, InstagramKinds DEF InstagramInv
  <1>4. Faultless => scan.posts \subseteq plan \cup Here
    <2>1. Faultless => scan.keys \cup scan.deleted \cup scan.media \cup scan.on_disk \subseteq Here
          BY <1>3 DEF InstagramKept, InstagramHas
    <2> QED BY <2>1 DEF Suppressed, Present
  <1> HIDE DEF posts, plan
  <1>5. /\ scan'.step = "fetch" /\ scan'.span = scan.span /\ scan'.listed = scan.posts
        /\ scan'.plan = plan /\ scan'.got = {} /\ scan'.errors = scan.errors
        BY <1>2
  <1>6. InstagramGets' /\ ~InstagramLooks' /\ ~Listing' /\ Due' = Due
        BY <1>5, InstagramBecomes DEF Listing, Due
  <1>7. Here' = Here /\ Known' = Known /\ (Faultless' <=> Faultless) /\ ~Halfway
        BY <1>1, <1>3 DEF Here, Known, Faultless, Halfway
  <1>8. InstagramHas'
        BY <1>1, <1>4, <1>5, <1>6, <1>7 DEF InstagramKept, InstagramHas
  <1>9. InstagramPaged'
        BY <1>6 DEF InstagramPaged
  <1>10. InstagramCovers'
        BY <1>1, <1>3, <1>5, <1>6, <1>7 DEF InstagramKept, InstagramCovers
  <1>11. InstagramGapless'
    <2>1. left \subseteq left'
          BY <1>1
    <2> QED BY <1>7, <2>1, InstagramGaplessStill
  <1> QED BY <1>8, <1>9, <1>10, <1>11 DEF InstagramKept

\* When all that was planned comes, no gap is left below a post that came; nor when none
\* of it does.
LEMMA WholePlanLeavesNoGap ==
    ASSUME InstagramInv, InstagramKept, InstagramGets, scan.step = "fetch", Faultless,
           NEW got \in {{}, scan.plan}, held' = held \cup got, tombs' = tombs, left' = left
    PROVE  NoGaps'
  <1>1. Here' = Here \cup got
        BY DEF Here
  <1>2. NoGaps
        BY DEF InstagramKept, InstagramGapless, Halfway
  <1>3. CASE got = {}
        BY <1>1, <1>2, <1>3 DEF NoGaps
  <1>4. CASE got = scan.plan
    <2> SUFFICES ASSUME NEW p \in Here' \ OnTop, NEW q \in Post \ OnTop,
                        p > q, KindOf[p] = KindOf[q]
                 PROVE  q \in Here' \cup left
        BY DEF NoGaps
    <2>1. CASE p \in Here
          BY <1>1, <1>2, <2>1 DEF NoGaps
    <2>2. CASE p \in scan.plan
      <3>1. p \in scan.listed /\ p \in Post /\ q \in Nat /\ p \in Nat
            BY <2>2, PresenceAssumption DEF InstagramInv, InstagramOrderly, InstagramGets, Post
      <3>2. q \in Owed(scan.listed, KindOf[q], Due)
            BY <3>1 DEF Owed, OfKind
      <3>3. q \in scan.listed \cup left \cup Here
            BY <3>2, KindsOfPosts DEF InstagramKept, InstagramCovers
      <3>4. scan.listed \subseteq scan.plan \cup Here
            BY DEF InstagramKept, InstagramHas
      <3> QED BY <1>1, <1>4, <3>3, <3>4
    <2> QED BY <1>1, <1>4, <2>1, <2>2
  <1> QED BY <1>3, <1>4

LEMMA InstagramKeptFetches ==
    ASSUME InstagramInv, InstagramInv', InstagramKept, InstagramFetch
    PROVE  InstagramKept'
  <1>1. /\ published' = published /\ ledger' = ledger /\ tombs' = tombs
        /\ left' = left /\ media' = media /\ blame' = blame
        /\ ~NoScan /\ scan.step = "fetch"
        BY DEF InstagramFetch
  <1>2. InstagramGets /\ ~InstagramLooks
        BY <1>1, InstagramKinds DEF InstagramInv
  <1>3. PICK timeline \in Leading(OfKind(scan.plan, "timeline")),
             reels \in Leading(OfKind(scan.plan, "reels")), limited \in BOOLEAN :
           LET got == timeline \cup reels IN
           /\ limited => got # scan.plan
           /\ held' = held \cup got
           /\ scan' = [scan EXCEPT !.step = "media", !.got = got,
                                   !.errors = @ \/ got # scan.plan, !.limited = @ \/ limited]
           /\ IF got = scan.plan THEN UNCHANGED trouble ELSE Happens
        BY Zenon DEF InstagramFetch
  <1> DEFINE got == timeline \cup reels
             errors == scan.errors \/ got # scan.plan
             now_limited == scan.limited \/ limited
  <1>4. /\ held' = held \cup got
        /\ scan' = [scan EXCEPT !.step = "media", !.got = got, !.errors = errors,
                                !.limited = now_limited]
        BY <1>2, <1>3 DEF InstagramGets
  <1>5. ~errors => ~scan.errors /\ got = scan.plan
        OBVIOUS
  <1> HIDE DEF got, errors, now_limited
  <1>6. /\ scan'.step = "media" /\ scan'.span = scan.span /\ scan'.listed = scan.listed
        /\ scan'.plan = scan.plan /\ scan'.got = got /\ scan'.errors = errors
        BY <1>2, <1>4 DEF InstagramGets
  <1>7. InstagramGets' /\ ~InstagramLooks' /\ ~Listing'
        BY <1>6, InstagramBecomes DEF Listing
  <1>8. Here \subseteq Here' /\ got \subseteq Here' /\ Known' = Known /\ (Faultless' <=> Faultless)
        BY <1>1, <1>4 DEF Here, Known, Faultless
  <1>9. InstagramHas'
        BY <1>1, <1>2, <1>5, <1>6, <1>7, <1>8 DEF InstagramKept, InstagramHas
  <1>10. InstagramPaged'
        BY <1>7 DEF InstagramPaged
  <1>11. InstagramCovers'
    <2> SUFFICES ASSUME Faultless, NEW kind \in {"timeline", "reels"}
                 PROVE  Owed(scan.listed, kind, Due') \subseteq scan.listed \cup left \cup Here'
        BY <1>1, <1>6, <1>7, <1>8 DEF InstagramCovers
    <2>1. Due' \in SUBSET Due
          BY <1>5, <1>6 DEF Due
    <2>2. Owed(scan.listed, kind, Due') \subseteq Owed(scan.listed, kind, Due)
          BY <2>1, OwedByKind
    <2> QED BY <1>2, <1>8, <2>2 DEF InstagramKept, InstagramCovers
  <1>12. InstagramGapless'
    <2> SUFFICES ASSUME Faultless, got = {} \/ got = scan.plan PROVE NoGaps'
        BY <1>6, <1>7, <1>8 DEF InstagramGapless, Halfway
    <2> QED BY <1>1, <1>2, <1>4, WholePlanLeavesNoGap
  <1> QED BY <1>9, <1>10, <1>11, <1>12 DEF InstagramKept

\* What was planned and never came is recorded as seen, and blamed for it.
LEMMA InstagramKeptRecords ==
    ASSUME InstagramInv, InstagramInv', InstagramKept, InstagramRecordMedia \/ InstagramRecordPosts
    PROVE  InstagramKept'
  <1>1. CASE InstagramRecordMedia
    <2>1. /\ ledger' = ledger /\ tombs' = tombs /\ left' = left /\ held' = held
          /\ media' = media \cup scan.got /\ blame' = blame
          /\ scan' = [scan EXCEPT !.step = "posts"] /\ ~NoScan /\ scan.step = "media"
          BY <1>1 DEF InstagramRecordMedia
    <2>2. InstagramGets
          BY <2>1, InstagramKinds DEF InstagramInv
    <2>3. /\ scan'.step = "posts" /\ scan'.span = scan.span /\ scan'.listed = scan.listed
          /\ scan'.plan = scan.plan /\ scan'.got = scan.got /\ scan'.errors = scan.errors
          BY <2>1, <2>2 DEF InstagramGets
    <2>4. InstagramGets' /\ ~InstagramLooks' /\ ~Listing' /\ Due' = Due
          BY <2>3, InstagramBecomes DEF Listing, Due
    <2>5. Here' = Here /\ Known' = Known /\ (Faultless' <=> Faultless)
          BY <2>1 DEF Here, Known, Faultless
    <2>6. InstagramHas'
          BY <2>1, <2>2, <2>3, <2>4, <2>5 DEF InstagramKept, InstagramHas
    <2>7. InstagramPaged'
          BY <2>4 DEF InstagramPaged
    <2>8. InstagramCovers'
          BY <2>1, <2>2, <2>3, <2>4, <2>5 DEF InstagramKept, InstagramCovers
    <2>9. InstagramGapless'
      <3>1. Halfway' <=> Halfway
            BY <2>1, <2>2, <2>3, <2>4 DEF Halfway
      <3> QED BY <2>1, <2>5, <3>1 DEF InstagramKept, InstagramGapless, NoGaps
    <2> QED BY <2>6, <2>7, <2>8, <2>9 DEF InstagramKept
  <1>2. CASE InstagramRecordPosts
    <2> DEFINE q == InstagramQualification
               rs == Recorded(scan.posts, KindOf)
    <2>1. /\ tombs' = tombs /\ held' = held /\ media' = media
          /\ ~NoScan /\ scan.step = "posts" /\ Presence(q, rs)
          /\ blame' = blame
               \cup (IF scan.plan \subseteq scan.got THEN {} ELSE {"dropped"})
               \cup (IF Qualifies(q) /\ (Judged(q, rs) \cap scan.listed) \ scan.posts # {}
                     THEN {"unseen"} ELSE {})
          /\ scan' = [scan EXCEPT !.step = IF scan.errors THEN "warning" ELSE "succeeded"]
          BY <1>2 DEF InstagramRecordPosts
    <2>2. InstagramGets
          BY <2>1, InstagramKinds DEF InstagramInv
    <2>3. /\ scan'.step \in {"warning", "succeeded"} /\ (scan'.step = "succeeded" => ~scan.errors)
          /\ scan'.span = scan.span /\ scan'.listed = scan.listed
          /\ scan'.plan = scan.plan /\ scan'.got = scan.got /\ scan'.errors = scan.errors
          BY <2>1, <2>2 DEF InstagramGets
    <2>4. InstagramGets' /\ ~InstagramLooks' /\ ~Listing' /\ ~Halfway' /\ Due' = Due
          BY <2>3, InstagramBecomes DEF Listing, Halfway, Due
    <2>5. Here' = Here
          BY <2>1 DEF Here
    <2>6. scan.posts \subseteq scan.listed /\ scan.got \subseteq scan.plan
          BY <2>2 DEF InstagramInv, InstagramOrderly
    <2>7. Faultless' => Faultless /\ scan.got = scan.plan /\ scan.listed \subseteq Here
      <3>1. Faultless' => Faultless /\ scan.plan \subseteq scan.got
            BY <2>1 DEF Faultless
      <3>2. scan.got \subseteq Here /\ (Faultless => scan.listed \subseteq scan.plan \cup Here)
            BY <2>2 DEF InstagramKept, InstagramHas
      <3> QED BY <2>6, <3>1, <3>2
    <2>8. Known' \subseteq Known \cup scan.posts
      <3>1. \A p \in Post : rs[p] # NoRow => p \in Known \cup scan.posts
            BY DEF Recorded, Known
      <3>2. \A p \in Post : ledger'[p] # NoRow => rs[p] # NoRow
        <4> HIDE DEF q
        <4> QED BY <2>1 DEF Presence, Evaluated, Judged, Recorded
      <3> QED BY <3>1, <3>2 DEF Known
    <2>9. left \ scan.posts \subseteq left'
          BY <2>1 DEF Presence, InstagramQualification
    <2> HIDE DEF q, rs
    <2>10. InstagramHas'
          BY <2>1, <2>2, <2>3, <2>4, <2>5, <2>6, <2>7, <2>8 DEF InstagramKept, InstagramHas
    <2>11. InstagramPaged'
          BY <2>4 DEF InstagramPaged
    <2>12. InstagramCovers'
          BY <2>2, <2>3, <2>4, <2>5, <2>6, <2>7, <2>9 DEF InstagramKept, InstagramCovers
    <2>13. InstagramGapless'
      <3>1. Faultless' => NoGaps
            BY <2>7 DEF InstagramKept, InstagramGapless, Halfway
      <3> QED BY <2>5, <2>6, <2>7, <2>9, <3>1 DEF InstagramGapless, NoGaps
    <2> QED BY <2>10, <2>11, <2>12, <2>13 DEF InstagramKept
  <1> QED BY <1>1, <1>2

\* A sync that is stopped with a part of what it planned leaves a gap, and is blamed.
LEMMA InstagramKeptEnds ==
    ASSUME InstagramInv, InstagramKept, InstagramEnd \/ InstagramStop
    PROVE  InstagramKept'
  <1>1. CASE InstagramEnd
    <2>1. /\ ledger' = ledger /\ tombs' = tombs /\ left' = left /\ held' = held
          /\ media' = media /\ blame' = blame /\ scan' = Idle
          /\ scan.step \in {"warning", "succeeded"}
          BY <1>1 DEF InstagramEnd
    <2>2. Here' = Here /\ Known' = Known /\ (Faultless' <=> Faultless) /\ ~Halfway
          BY <2>1 DEF Here, Known, Faultless, Halfway
    <2>3. InstagramGapless'
      <3>1. left \subseteq left'
            BY <2>1
      <3> QED BY <2>2, <3>1, InstagramGaplessStill
    <2> QED BY <2>1, <2>2, <2>3, InstagramKeptOver DEF InstagramKept, InstagramHas
  <1>2. CASE InstagramStop
    <2>1. /\ ledger' = ledger /\ tombs' = tombs /\ left' = left /\ media' = media
          /\ scan' = Idle /\ ~NoScan
          BY <1>2 DEF InstagramStop
    <2>2. PICK timeline \in Leading(OfKind(scan.plan, "timeline")),
               reels \in Leading(OfKind(scan.plan, "reels")) :
             LET got == IF scan.step = "fetch" THEN timeline \cup reels ELSE scan.got IN
             /\ held' = IF scan.step = "fetch" THEN held \cup got ELSE held
             /\ blame' = IF got # {} /\ got # scan.plan THEN blame \cup {"hidden"} ELSE blame
          BY <1>2 DEF InstagramStop
    <2> DEFINE got == IF scan.step = "fetch" THEN timeline \cup reels ELSE scan.got
    <2>3. /\ held' = IF scan.step = "fetch" THEN held \cup got ELSE held
          /\ Faultless' => Faultless /\ (got = {} \/ got = scan.plan)
          /\ scan.step # "fetch" => got = scan.got
          BY <2>2 DEF Faultless
    <2> HIDE DEF got
    <2>4. Here \subseteq Here' /\ Known' = Known
          BY <2>1, <2>3 DEF Here, Known
    <2>5. InstagramGapless'
      <3>1. CASE scan.step = "fetch"
        <4>1. InstagramGets
              BY <2>1, <3>1, InstagramKinds DEF InstagramInv
        <4> SUFFICES ASSUME Faultless' PROVE NoGaps'
            BY DEF InstagramGapless
        <4>2. Faultless /\ got \in {{}, scan.plan} /\ held' = held \cup got
              BY <2>3, <3>1
        <4> QED BY <2>1, <3>1, <4>1, <4>2, WholePlanLeavesNoGap
      <3>2. CASE scan.step # "fetch"
        <4>1. Here' = Here /\ left \subseteq left'
              BY <2>1, <2>3, <3>2 DEF Here
        <4>2. Faultless' => Faultless /\ ~Halfway
              BY <2>3, <3>2 DEF Halfway
        <4> QED BY <4>1, <4>2, InstagramGaplessStill
      <3> QED BY <3>1, <3>2
    <2>6. media' \subseteq Here' /\ (Faultless' => Known' \subseteq Here')
          BY <2>1, <2>3, <2>4 DEF InstagramKept, InstagramHas
    <2> QED BY <2>1, <2>5, <2>6, InstagramKeptOver
  <1> QED BY <1>1, <1>2

LEMMA InstagramKeptInductive ==
    ASSUME Cardinality(OnTop) < KnownPages,
           InstagramInv, InstagramInv', InstagramKept, [InstagramNext]_profile_vars
    PROVE  InstagramKept'
  <1>1. ASSUME NEW full \in BOOLEAN, NEW missing_only \in BOOLEAN, NEW gql \in BOOLEAN,
               InstagramStart(full, missing_only, gql)
        PROVE  InstagramKept'
        BY <1>1, InstagramKeptStarts
  <1>2. CASE InstagramPage
        BY <1>2, InstagramKeptPages
  <1>3. CASE InstagramRefused
        BY <1>3, InstagramKeptRefused
  <1>4. CASE InstagramPlan
        BY <1>4, InstagramKeptPlans
  <1>5. CASE InstagramFetch
        BY <1>5, InstagramKeptFetches
  <1>6. CASE InstagramRecordMedia \/ InstagramRecordPosts
        BY <1>6, InstagramKeptRecords
  <1>7. CASE InstagramEnd \/ InstagramStop
        BY <1>7, InstagramKeptEnds
  <1>8. CASE AuthorStep \/ \E p \in Post : InstagramDelete(p)
        BY <1>8, InstagramKeptOutside
  <1>9. CASE UNCHANGED profile_vars
    <2>1. /\ published' = published /\ held' = held /\ media' = media /\ ledger' = ledger
          /\ tombs' = tombs /\ scan' = scan /\ left' = left /\ blame' = blame
          BY <1>9 DEF profile_vars
    <2>2. Here' = Here /\ Known' = Known
          BY <2>1 DEF Here, Known
    <2>3. /\ left \subseteq left' /\ blame \subseteq blame'
          /\ 0..published \subseteq 0..published'
          BY <2>1
    <2> QED BY <2>1, <2>2, <2>3, InstagramKeptBeside
  <1> QED BY <1>1, <1>2, <1>3, <1>4, <1>5, <1>6, <1>7, <1>8, <1>9 DEF InstagramNext

\* A sync of Instagram that ends as succeeded left nothing behind of what was published
\* when it began, even where it stopped listing at pages it knew, gave GraphQL up or was
\* one for what is missing: unless a listing was short unnoticed, or a sync before it had
\* come by a part of what it planned and hid the rest.  The pages that are asked to be
\* known must outnumber those the pinned posts fill: among these, known posts say nothing
\* of the older ones.
THEOREM InstagramSuccessIsWhole ==
    ASSUME Cardinality(OnTop) < KnownPages
    PROVE  InstagramSpec => []SucceededHolds
  <1>1. PresenceInit => InstagramKept
        BY InstagramKeptInitial
  <1>2. InstagramInv /\ InstagramInv' /\ InstagramKept /\ [InstagramNext]_profile_vars
           => InstagramKept'
        BY InstagramKeptInductive
  <1>3. InstagramInv /\ InstagramKept => SucceededHolds
    <2> SUFFICES ASSUME InstagramInv, InstagramKept, scan.step = "succeeded", Faultless,
                        NEW p \in scan.span, p \in shown, p \notin left
                 PROVE  p \in Here
        BY DEF SucceededHolds, Faultless, Here
    <2>1. InstagramGets
          BY InstagramKinds DEF InstagramInv
    <2>2. /\ ~scan.errors /\ scan.plan \subseteq scan.got /\ scan.got \subseteq Here
          /\ scan.listed \subseteq scan.plan \cup Here
          BY <2>1 DEF InstagramKept, InstagramHas
    <2>3. p \in Post
          BY PresenceAssumption DEF InstagramInv, ProfileSound, PresenceTypeOK, Post
    <2>4. p \in Owed(scan.listed, KindOf[p], Due)
          BY <2>2, <2>3 DEF Owed, OfKind, Due
    <2>5. p \in scan.listed \cup Here
          BY <2>1, <2>3, <2>4, KindsOfPosts DEF InstagramKept, InstagramCovers
    <2> QED BY <2>2, <2>5
  <1> QED BY <1>1, <1>2, <1>3, InstagramAlways, PTL DEF InstagramSpec
=============================================================================
