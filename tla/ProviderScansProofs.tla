-------------------------- MODULE ProviderScansProofs --------------------------
(***************************************************************************)
(* Theorems about the syncs of the providers, for every number of posts,   *)
(* every setting of a profile and every amount of trouble: what the user   *)
(* deleted stays deleted, and a post is flagged only if it was gone. Of    *)
(* the liked videos: a sync that ends well leaves none without a file. Of  *)
(* identities: a folder never holds the media of two people.               *)
(***************************************************************************)
EXTENDS TwitterScan, TikTokScan, YoutubeScan, VscoScan, InstagramScan, TikTokLikes,
        SourceIdentity, FiniteSetTheorems, WellFoundedInduction, TLAPS

-----------------------------------------------------------------------------
(***************************************************************************)
(* The profile, whatever its provider.                                     *)
(***************************************************************************)

\* A listing of all there is, and what a post that is not shown means: it left.
Unmistaken == blame \cap {"short", "unseen"} = {}
HiddenHaveLeft == (1..published) \ shown \subseteq left

ProfileSound ==
    /\ PresenceTypeOK
    /\ Known \subseteq 1..published /\ tombs \subseteq 1..published
    /\ HiddenHaveLeft

\* Nothing is held against a post that did not leave.
Suspected(rs) == {p \in Post : rs[p] # NoRow /\ rs[p].misses # 0}
SuspectsHaveLeft == Unmistaken => Suspected(ledger) \subseteq left

\* The posts a sync could judge: they are recorded, or a deletion may record them.
AtStake == Known \cup held

Rows == LedgerRow \cup {NoRow}
RowsTyped(rs) == \A p \in Post : rs[p] \in Rows
RowsOf(rs) == {p \in Post : rs[p] # NoRow}

\* The steps of the author and the user leave a sync what it has, and put no post
\* at stake.
Outside ==
    /\ scan' = scan
    /\ Known' \cup held' \subseteq AtStake
    /\ held' \subseteq held /\ media' = media
    /\ left \subseteq left'
    /\ tombs \subseteq tombs' /\ tombs' \subseteq tombs \cup (held \ held')
    /\ published <= published'

LEMMA NoRowIsNone == NoRow \notin LedgerRow
  <1>1. \A r \in LedgerRow : r.section \in Section
        BY DEF LedgerRow
  <1>2. NoRow.section = "none"
        BY DEF NoRow
  <1>3. "none" \notin Section
        BY DEF Section
  <1> QED BY <1>1, <1>2, <1>3

\* Every row that is there has a section and a count of misses.
LEMMA RowFields ==
    ASSUME NEW r \in Rows, r # NoRow
    PROVE  /\ r \in LedgerRow
           /\ r.section \in Section /\ r.misses \in 0..Confirmations
  <1>1. r \in LedgerRow
        BY DEF Rows
  <1>2. r \in [section : Section, misses : 0..Confirmations]
        BY <1>1 DEF LedgerRow
  <1>3. r.section \in Section
        BY <1>2
  <1>4. r.misses \in 0..Confirmations
        BY <1>2
  <1> QED BY <1>1, <1>3, <1>4

\* What is recorded of some posts: their rows, in their sections; nothing is held
\* against a post that was not suspected before.
LEMMA RecordedRows ==
    ASSUME RowsTyped(ledger), NEW posts \in SUBSET Post, NEW of_section,
           \A p \in posts : of_section[p] \in Section
    PROVE  /\ RowsTyped(Recorded(posts, of_section))
           /\ RowsOf(Recorded(posts, of_section)) = Known \cup posts
           /\ Suspected(Recorded(posts, of_section)) \subseteq Suspected(ledger)
           /\ \A p \in posts : Recorded(posts, of_section)[p].section = of_section[p]
           /\ \A p \in Known \ posts : Recorded(posts, of_section)[p].section = ledger[p].section
  <1> DEFINE rs == Recorded(posts, of_section)
  <1>1. \A p \in Post : p \notin posts => rs[p] = ledger[p]
        BY DEF Recorded
  <1>2. \A p \in posts : ledger[p] = NoRow => rs[p] = [section |-> of_section[p], misses |-> 0]
        BY DEF Recorded
  <1>3. \A p \in posts : ledger[p] # NoRow => rs[p] = [ledger[p] EXCEPT !.section = of_section[p]]
        BY DEF Recorded
  <1>4. ASSUME NEW p \in posts, ledger[p] = NoRow
        PROVE  /\ rs[p] \in LedgerRow /\ rs[p].misses = 0 /\ rs[p].section = of_section[p]
    <2>1. rs[p] = [section |-> of_section[p], misses |-> 0]
          BY <1>2, <1>4
    <2>2. of_section[p] \in Section /\ 0 \in 0..Confirmations
          BY DEF Confirmations
    <2> HIDE DEF rs
    <2> QED BY <2>1, <2>2 DEF LedgerRow
  <1>5. ASSUME NEW p \in posts, ledger[p] # NoRow
        PROVE  /\ rs[p] \in LedgerRow /\ rs[p].misses = ledger[p].misses
               /\ rs[p].section = of_section[p]
    <2>1. ledger[p] \in LedgerRow
          BY <1>5, RowFields DEF RowsTyped
    <2> QED BY <1>3, <1>5, <2>1 DEF LedgerRow
  <1>6. RowsTyped(rs)
        BY <1>1, <1>4, <1>5 DEF RowsTyped, Rows
  <1>7. RowsOf(rs) = Known \cup posts
        BY <1>1, <1>4, <1>5, NoRowIsNone DEF RowsOf, Known
  <1>8. Suspected(rs) \subseteq Suspected(ledger)
        BY <1>1, <1>4, <1>5 DEF Suspected
  <1>9. \A p \in posts : rs[p].section = of_section[p]
        BY <1>4, <1>5
  <1>10. \A p \in Known \ posts : rs[p].section = ledger[p].section
        BY <1>1 DEF Known
  <1> HIDE DEF rs
  <1> QED BY <1>6, <1>7, <1>8, <1>9, <1>10 DEF rs

\* The verdict of a sync that passes over no post which is there: whoever is
\* suspected after it has left.
LEMMA VerdictSound ==
    ASSUME NEW q, NEW rs, Presence(q, rs), RowsTyped(rs),
           left \subseteq Post, shown \subseteq Post
    PROVE  /\ RowsTyped(ledger') /\ Known' = RowsOf(rs)
           /\ \A p \in Known' : ledger'[p].section = rs[p].section
           /\ left' \subseteq left /\ left \ left' \subseteq shown
           /\ /\ Unmistaken' => Suspected(rs) \subseteq left
              /\ Unmistaken' /\ Qualifies(q) => Judged(q, rs) \ q.observed \subseteq left
              => SuspectsHaveLeft'
  <1>1. CASE ~Qualifies(q)
    <2>1. ledger' = rs /\ left' = left
          BY <1>1 DEF Presence
    <2> QED BY <2>1 DEF Known, RowsOf, SuspectsHaveLeft
  <1>2. CASE Qualifies(q)
    <2> DEFINE judged == Judged(q, rs)
    <2>1. /\ ledger' = Evaluated(q, rs)
          /\ left' = left \ (judged \cap q.observed \cap shown)
          BY <1>2 DEF Presence
    <2>2. \A p \in Post : p \notin judged => ledger'[p] = rs[p]
          BY <2>1 DEF Evaluated
    <2>3. judged \subseteq RowsOf(rs)
          BY DEF Judged, RowsOf
    <2>4. ASSUME NEW p \in judged
          PROVE  /\ ledger'[p] \in LedgerRow /\ ledger'[p].section = rs[p].section
                 /\ p \in q.observed => ledger'[p].misses = 0
      <3>1. p \in Post /\ rs[p] \in LedgerRow
            BY <2>3, RowFields DEF RowsOf, RowsTyped
      <3>2. CASE p \in q.observed
        <4>1. ledger'[p] = [rs[p] EXCEPT !.misses = 0]
              BY <2>1, <3>1, <3>2 DEF Evaluated
        <4> QED BY <4>1, <3>1 DEF LedgerRow, Confirmations
      <3>3. CASE p \notin q.observed
        <4>1. ledger'[p] = [rs[p] EXCEPT !.misses = IF @ = Confirmations THEN @ ELSE @ + 1]
              BY <2>1, <3>1, <3>3 DEF Evaluated
        <4> QED BY <4>1, <3>1, <3>3 DEF LedgerRow, Confirmations
      <3> QED BY <3>2, <3>3
    <2>5. RowsTyped(ledger') /\ Known' = RowsOf(rs)
      <3>1. \A p \in Post : ledger'[p] \in Rows
            BY <2>2, <2>4 DEF RowsTyped, Rows
      <3>2. \A p \in Post : ledger'[p] # NoRow <=> rs[p] # NoRow
            BY <2>2, <2>4, <2>3, NoRowIsNone DEF RowsOf
      <3> QED BY <3>1, <3>2 DEF RowsTyped, Known, RowsOf
    <2>6. \A p \in Known' : ledger'[p].section = rs[p].section
          BY <2>2, <2>4 DEF Known
    <2>7. left' \subseteq left /\ left \ left' \subseteq shown
          BY <2>1
    <2>8. ASSUME Unmistaken' => Suspected(rs) \subseteq left,
                 Unmistaken' /\ Qualifies(q) => judged \ q.observed \subseteq left,
                 Unmistaken', NEW p \in Suspected(ledger')
          PROVE  p \in left'
      <3>1. p \in Post /\ ledger'[p] # NoRow /\ ledger'[p].misses # 0
            BY <2>8 DEF Suspected
      <3>2. CASE p \in judged
        <4>1. p \notin q.observed
              BY <3>1, <3>2, <2>4
        <4> QED BY <4>1, <3>2, <2>1, <2>8, <1>2
      <3>3. CASE p \notin judged
        <4>1. p \in Suspected(rs)
              BY <3>1, <3>3, <2>2 DEF Suspected
        <4> QED BY <4>1, <3>3, <2>1, <2>8
      <3> QED BY <3>2, <3>3
    <2> HIDE DEF judged
    <2> QED BY <2>5, <2>6, <2>7, <2>8 DEF SuspectsHaveLeft, judged
  <1> QED BY <1>1, <1>2

-----------------------------------------------------------------------------
LEMMA ProfileInitial == PresenceInit => ProfileSound /\ SuspectsHaveLeft /\ NoScan
  <1> SUFFICES ASSUME PresenceInit PROVE ProfileSound /\ SuspectsHaveLeft /\ NoScan
      OBVIOUS
  <1> USE PresenceAssumption DEF PresenceInit
  <1>1. PresenceTypeOK
        BY DEF PresenceTypeOK, Post
  <1>2. Known = {} /\ Suspected(ledger) = {} /\ HiddenHaveLeft
        BY DEF Known, Suspected, HiddenHaveLeft
  <1> QED BY <1>1, <1>2 DEF ProfileSound, SuspectsHaveLeft, NoScan

LEMMA AuthorOutside ==
    ASSUME ProfileSound, AuthorStep
    PROVE  /\ ProfileSound' /\ (SuspectsHaveLeft => SuspectsHaveLeft') /\ Outside
           /\ ledger' = ledger /\ held' = held /\ tombs' = tombs /\ blame' = blame
  <1> USE PresenceAssumption DEF PresenceTypeOK, ProfileSound, Post
  <1>1. CASE Publish
    <2>1. /\ published < MaxPost /\ published' = published + 1
          /\ shown' = shown \cup {published'}
          /\ held' = held /\ media' = media /\ ledger' = ledger /\ tombs' = tombs
          /\ scan' = scan /\ left' = left /\ trouble' = trouble /\ blame' = blame
          BY <1>1 DEF Publish
    <2>2. published' \in 0..MaxPost /\ 1..published' = (1..published) \cup {published'}
          BY <2>1
    <2>3. PresenceTypeOK'
          BY <2>1, <2>2
    <2>4. Known' = Known
          BY <2>1 DEF Known
    <2>5. HiddenHaveLeft'
          BY <2>1, <2>2 DEF HiddenHaveLeft
    <2>6. SuspectsHaveLeft => SuspectsHaveLeft'
          BY <2>1 DEF SuspectsHaveLeft, Suspected, Unmistaken
    <2>7. Outside
          BY <2>1, <2>4 DEF Outside, AtStake
    <2> QED BY <2>1, <2>2, <2>3, <2>4, <2>5, <2>6, <2>7
  <1>2. ASSUME NEW p \in Post, Withdraw(p) \/ Return(p)
        PROVE  /\ ProfileSound' /\ (SuspectsHaveLeft => SuspectsHaveLeft') /\ Outside
               /\ ledger' = ledger /\ held' = held /\ tombs' = tombs /\ blame' = blame
    <2>1. /\ published' = published /\ held' = held /\ media' = media /\ ledger' = ledger
          /\ tombs' = tombs /\ scan' = scan /\ blame' = blame
          /\ trouble < MaxTrouble /\ trouble' = trouble + 1
          BY <1>2 DEF Withdraw, Return, Happens
    <2>2. left \subseteq left' /\ left' \subseteq left \cup {p}
          BY <1>2 DEF Withdraw, Return
    <2>3. shown' \subseteq 1..published /\ (1..published) \ shown' \subseteq left'
          BY <1>2 DEF Withdraw, Return, HiddenHaveLeft
    <2>4. PresenceTypeOK'
          BY <2>1, <2>2, <2>3
    <2>5. Known' = Known
          BY <2>1 DEF Known
    <2>6. HiddenHaveLeft'
          BY <2>1, <2>3 DEF HiddenHaveLeft
    <2>7. SuspectsHaveLeft => SuspectsHaveLeft'
          BY <2>1, <2>2 DEF SuspectsHaveLeft, Suspected, Unmistaken
    <2>8. Outside
          BY <2>1, <2>2, <2>5 DEF Outside, AtStake
    <2> QED BY <2>1, <2>4, <2>5, <2>6, <2>7, <2>8
  <1> QED BY <1>1, <1>2 DEF AuthorStep

LEMMA DeletionOutside ==
    ASSUME ProfileSound, NEW p \in Post, NEW section \in Section,
           DeleteMedium(p, section), blame \subseteq blame'
    PROVE  /\ ProfileSound' /\ (SuspectsHaveLeft => SuspectsHaveLeft') /\ Outside
           /\ p \in held /\ held' = held \ {p} /\ tombs' = tombs \cup {p}
           /\ Known \subseteq Known' /\ Known' \subseteq Known \cup {p}
           /\ \A x \in Known : ledger'[x].section = ledger[x].section
           /\ \A x \in Known' \ Known : ledger'[x].section = section
  <1> DEFINE of_section == [x \in Post |-> IF ledger[x] = NoRow THEN section
                                          ELSE ledger[x].section]
             rs == Recorded({p}, of_section)
  <1>1. /\ p \in held /\ held' = held \ {p} /\ tombs' = tombs \cup {p}
        /\ trouble < MaxTrouble /\ trouble' = trouble + 1
        /\ published' = published /\ shown' = shown /\ media' = media /\ scan' = scan
        /\ left' = left /\ ledger' \in {ledger, rs}
        BY DEF DeleteMedium, Happens
  <1>2. RowsTyped(ledger)
        BY DEF ProfileSound, PresenceTypeOK, RowsTyped, Rows
  <1>3. /\ of_section[p] \in Section
        /\ ledger[p] = NoRow => of_section[p] = section
        /\ ledger[p] # NoRow => of_section[p] = ledger[p].section
        BY <1>2, RowFields DEF RowsTyped
  <1> HIDE DEF of_section
  <1>4. /\ RowsTyped(rs) /\ RowsOf(rs) = Known \cup {p}
        /\ Suspected(rs) \subseteq Suspected(ledger)
        /\ rs[p].section = of_section[p]
        /\ \A x \in Known \ {p} : rs[x].section = ledger[x].section
    <2>1. {p} \in SUBSET Post /\ \A x \in {p} : of_section[x] \in Section
          BY <1>3
    <2>2. /\ RowsTyped(rs) /\ RowsOf(rs) = Known \cup {p}
          /\ Suspected(rs) \subseteq Suspected(ledger)
          /\ \A x \in {p} : rs[x].section = of_section[x]
          /\ \A x \in Known \ {p} : rs[x].section = ledger[x].section
          BY <1>2, <2>1, RecordedRows
    <2> QED BY <2>2
  <1> HIDE DEF rs
  <1>5. RowsTyped(ledger') /\ Suspected(ledger') \subseteq Suspected(ledger)
        BY <1>1, <1>2, <1>4
  <1>6. Known \subseteq Known' /\ Known' \subseteq Known \cup {p}
        BY <1>1, <1>4 DEF Known, RowsOf
  <1>7. \A x \in Known : ledger'[x].section = ledger[x].section
        BY <1>1, <1>3, <1>4 DEF Known
  <1>8. \A x \in Known' \ Known : ledger'[x].section = section
        BY <1>1, <1>3, <1>4, <1>6 DEF Known
  <1>9. ProfileSound'
    <2>1. /\ p \in 1..published /\ held' \subseteq 1..published /\ trouble' \in 0..MaxTrouble
          /\ tombs' \subseteq 1..published /\ tombs' \subseteq Post
          BY <1>1, PresenceAssumption DEF ProfileSound, PresenceTypeOK
    <2>2. PresenceTypeOK'
          BY <1>1, <1>5, <2>1 DEF ProfileSound, PresenceTypeOK, RowsTyped, Rows
    <2>3. Known' \subseteq 1..published'
          BY <1>1, <1>6, <2>1 DEF ProfileSound
    <2>4. HiddenHaveLeft'
          BY <1>1 DEF ProfileSound, HiddenHaveLeft
    <2> QED BY <2>1, <2>2, <2>3, <2>4, <1>1 DEF ProfileSound
  <1>10. SuspectsHaveLeft => SuspectsHaveLeft'
        BY <1>1, <1>5 DEF SuspectsHaveLeft, Unmistaken
  <1>11. Outside
        BY <1>1, <1>6, PresenceAssumption DEF Outside, AtStake, ProfileSound, PresenceTypeOK
  <1> QED BY <1>1, <1>6, <1>7, <1>8, <1>9, <1>10, <1>11

\* The post ledger and the verdict, at the end of a sync.
LEMMA JudgedProfile ==
    ASSUME ProfileSound, blame \subseteq blame',
           NEW posts \in SUBSET (1..published), NEW of_section,
           \A p \in posts : of_section[p] \in Section,
           NEW q, Presence(q, Recorded(posts, of_section)),
           published' = published, shown' = shown, held' = held, media' = media,
           tombs' = tombs, trouble' = trouble
    PROVE  /\ ProfileSound'
           /\ /\ SuspectsHaveLeft
              /\ Unmistaken' /\ Qualifies(q) =>
                    Judged(q, Recorded(posts, of_section)) \ q.observed \subseteq left
              => SuspectsHaveLeft'
           /\ Known' = Known \cup posts
           /\ \A p \in posts : ledger'[p].section = of_section[p]
           /\ \A p \in Known \ posts : ledger'[p].section = ledger[p].section
  <1> DEFINE rs == Recorded(posts, of_section)
  <1>1. /\ RowsTyped(ledger) /\ left \subseteq Post /\ shown \subseteq Post
        /\ posts \subseteq Post /\ published \in 0..MaxPost
        BY PresenceAssumption DEF ProfileSound, PresenceTypeOK, RowsTyped, Rows, Post
  <1>2. /\ RowsTyped(rs) /\ RowsOf(rs) = Known \cup posts
        /\ Suspected(rs) \subseteq Suspected(ledger)
        /\ \A p \in posts : rs[p].section = of_section[p]
        /\ \A p \in Known \ posts : rs[p].section = ledger[p].section
    <2>1. posts \in SUBSET Post /\ \A p \in posts : of_section[p] \in Section
          BY <1>1
    <2>2. RowsTyped(ledger)
          BY <1>1
    <2> QED BY <2>1, <2>2, RecordedRows
  <1>3. SuspectsHaveLeft => (Unmistaken' => Suspected(rs) \subseteq left)
        BY <1>2 DEF SuspectsHaveLeft, Unmistaken
  <1>4. Presence(q, rs)
        OBVIOUS
  <1> HIDE DEF rs
  <1>5. /\ RowsTyped(ledger') /\ Known' = RowsOf(rs)
        /\ \A p \in Known' : ledger'[p].section = rs[p].section
        /\ left' \subseteq left /\ left \ left' \subseteq shown
        /\ /\ SuspectsHaveLeft
           /\ Unmistaken' /\ Qualifies(q) => Judged(q, rs) \ q.observed \subseteq left
           => SuspectsHaveLeft'
        BY <1>1, <1>2, <1>3, <1>4, VerdictSound
  <1>6. PresenceTypeOK'
        BY <1>1, <1>5 DEF ProfileSound, PresenceTypeOK, RowsTyped, Rows
  <1>7. HiddenHaveLeft'
        BY <1>5 DEF ProfileSound, HiddenHaveLeft
  <1>8. ProfileSound'
        BY <1>2, <1>5, <1>6, <1>7 DEF ProfileSound
  <1> QED BY <1>2, <1>5, <1>8 DEF rs

\* A step of a sync that leaves the post ledger and what left as they are.
LEMMA UntouchedProfile ==
    ASSUME ProfileSound,
           published' = published, shown' = shown, ledger' = ledger, tombs' = tombs,
           left' = left, blame \subseteq blame', trouble' \in 0..MaxTrouble,
           held' \subseteq 1..published, media' \subseteq 1..published
    PROVE  /\ ProfileSound' /\ (SuspectsHaveLeft => SuspectsHaveLeft')
           /\ Known' = Known
  BY DEF ProfileSound, PresenceTypeOK, HiddenHaveLeft, Known, SuspectsHaveLeft,
         Unmistaken, Suspected

LEMMA RecordedProfile ==
    ASSUME ProfileSound, SuspectsHaveLeft, blame \subseteq blame',
           NEW posts \in SUBSET (1..published), NEW of_section,
           \A p \in posts : of_section[p] \in Section,
           NEW q, Presence(q, Recorded(posts, of_section)),
           published' = published, shown' = shown, held' = held, media' = media,
           tombs' = tombs, trouble' = trouble,
           Unmistaken' /\ Qualifies(q) =>
               Judged(q, Recorded(posts, of_section)) \ q.observed \subseteq left
    PROVE  /\ ProfileSound' /\ SuspectsHaveLeft'
           /\ Known' = Known \cup posts
           /\ \A p \in posts : ledger'[p].section = of_section[p]
           /\ \A p \in Known \ posts : ledger'[p].section = ledger[p].section
  BY JudgedProfile

-----------------------------------------------------------------------------
(***************************************************************************)
(* VSCO.                                                                   *)
(***************************************************************************)

VscoStep == {"list", "plan", "fetch", "media"}
VscoRun ==
    [step : VscoStep, from : 0..MaxPost, todo : SUBSET VscoSections, films : BOOLEAN,
     skip : SUBSET Post, posts : SUBSET Post, errors : BOOLEAN, queue : SUBSET Post,
     files : SUBSET Post, got : SUBSET Post, deleted : SUBSET Post]

\* A sync fetches what it listed and what was not there; without an error, what it
\* wanted is there, waits or came.
VscoOrderly ==
    scan \in VscoRun =>
        /\ scan.posts \subseteq 1..published
        /\ scan.queue \subseteq scan.posts \ scan.skip /\ scan.got \subseteq scan.posts
        /\ scan.step # "list" => scan.todo = {}
        /\ scan.step = "fetch" /\ ~scan.errors =>
              VscoWanted \subseteq scan.skip \cup scan.queue \cup scan.got

\* Of the sections that were listed, a post at stake was seen or has left.
VscoSeen ==
    scan \in VscoRun /\ scan.step # "media" /\ Unmistaken /\ ~scan.errors =>
        \A p \in AtStake : SectionOf[p] \in VscoSections \ scan.todo => p \in scan.posts \cup left

VscoPlaced == \A p \in Known : ledger[p].section = SectionOf[p]

\* What was deleted is recorded, and passed over by the sync that runs.
VscoPassesOver ==
    "unrecorded" \notin blame =>
        /\ tombs \subseteq media
        /\ scan \in VscoRun => scan.deleted \subseteq scan.skip

VscoInv ==
    /\ ProfileSound /\ SuspectsHaveLeft
    /\ VscoTypeOK /\ scan \in VscoRun \cup {Idle}
    /\ VscoOrderly /\ VscoSeen /\ VscoPlaced
    /\ VscoPassesOver /\ DeletedStaysDeleted

LEMMA VscoSectionsKnown ==
    \A p \in Post : SectionOf[p] \in Section /\ SectionOf[p] \in {"gallery", "journal"}
  BY DEF SectionOf, Section

LEMMA VscoRuns ==
    ASSUME scan \in VscoRun \cup {Idle}
    PROVE  (NoScan => scan \notin VscoRun) /\ (~NoScan => scan \in VscoRun)
  <1>1. \A r \in VscoRun : r.step \in VscoStep
        BY DEF VscoRun
  <1>2. Idle \notin VscoRun
        BY <1>1 DEF Idle, VscoStep
  <1> QED BY <1>2 DEF NoScan

LEMMA VscoInitial == PresenceInit /\ VscoInit => VscoInv
  <1> SUFFICES ASSUME PresenceInit, VscoInit PROVE VscoInv
      OBVIOUS
  <1>1. ProfileSound /\ SuspectsHaveLeft /\ NoScan
        BY ProfileInitial
  <1>2. scan \in VscoRun \cup {Idle}
        BY <1>1 DEF NoScan
  <1>3. scan \notin VscoRun
        BY <1>1, <1>2, VscoRuns
  <1>4. Known = {} /\ tombs = {} /\ VscoPlaced
        BY DEF PresenceInit, Known, VscoPlaced
  <1>5. VscoTypeOK
        BY DEF VscoInit, VscoTypeOK
  <1> QED BY <1>1, <1>2, <1>3, <1>4, <1>5 DEF VscoInv, VscoOrderly, VscoSeen, VscoPassesOver, DeletedStaysDeleted

\* A step of the author or the user beside a VSCO sync.
LEMMA VscoBeside ==
    ASSUME VscoInv, ProfileSound', SuspectsHaveLeft', Outside, VscoPlaced',
           VscoTypeOK', blame \subseteq blame',
           "unrecorded" \notin blame' => tombs' \subseteq media',
           tombs' \cap held' \subseteq tombs \cap held
    PROVE  VscoInv'
  <1> USE DEF VscoInv, Outside
  <1>1. VscoOrderly'
    <2>1. published' \in 0..MaxPost /\ published \in 0..MaxPost /\ MaxPost \in Nat
          BY PresenceAssumption DEF ProfileSound, PresenceTypeOK
    <2> QED BY <2>1 DEF VscoOrderly, VscoWanted
  <1>2. VscoSeen'
        BY DEF VscoSeen, Unmistaken, AtStake
  <1>3. VscoPassesOver'
        BY DEF VscoPassesOver
  <1>4. DeletedStaysDeleted'
        BY DEF DeletedStaysDeleted
  <1> QED BY <1>1, <1>2, <1>3, <1>4

LEMMA VscoOutside ==
    ASSUME VscoInv,
           \/ AuthorStep /\ UNCHANGED films
           \/ VscoToggle
           \/ \E p \in Post : VscoDelete(p)
    PROVE  VscoInv'
  <1>1. CASE AuthorStep /\ UNCHANGED films
    <2>1. /\ ProfileSound' /\ SuspectsHaveLeft' /\ Outside
          /\ ledger' = ledger /\ held' = held /\ tombs' = tombs /\ blame' = blame
          BY <1>1, AuthorOutside DEF VscoInv
    <2>2. VscoPlaced'
          BY <2>1 DEF VscoInv, VscoPlaced, Known
    <2>3. "unrecorded" \notin blame' => tombs' \subseteq media'
          BY <2>1 DEF VscoInv, VscoPassesOver, Outside
    <2>4. VscoTypeOK'
          BY <1>1 DEF VscoInv, VscoTypeOK
    <2> QED BY <2>1, <2>2, <2>3, <2>4, VscoBeside
  <1>2. CASE VscoToggle
    <2>1. /\ published' = published /\ shown' = shown /\ held' = held /\ media' = media
          /\ ledger' = ledger /\ tombs' = tombs /\ scan' = scan /\ left' = left /\ blame' = blame
          /\ trouble' \in 0..MaxTrouble
          BY <1>2, PresenceAssumption
          DEF VscoToggle, Happens, VscoInv, ProfileSound, PresenceTypeOK
    <2>2. ProfileSound' /\ SuspectsHaveLeft' /\ VscoPlaced'
          BY <2>1 DEF VscoInv, ProfileSound, PresenceTypeOK, HiddenHaveLeft, Known,
                      SuspectsHaveLeft, Unmistaken, Suspected, VscoPlaced
    <2>3. Outside
          BY <2>1, PresenceAssumption DEF Outside, AtStake, Known, VscoInv, ProfileSound, PresenceTypeOK
    <2>4. "unrecorded" \notin blame' => tombs' \subseteq media'
          BY <2>1 DEF VscoInv, VscoPassesOver
    <2>5. VscoTypeOK'
          BY <1>2 DEF VscoToggle, VscoTypeOK
    <2> QED BY <2>1, <2>2, <2>3, <2>4, <2>5, VscoBeside
  <1>3. ASSUME NEW p \in Post, VscoDelete(p)
        PROVE  VscoInv'
    <2>1. /\ DeleteMedium(p, SectionOf[p])
          /\ blame' = IF p \in media THEN blame ELSE blame \cup {"unrecorded"}
          BY <1>3 DEF VscoDelete
    <2>2. /\ ProfileSound' /\ SuspectsHaveLeft' /\ Outside
          /\ p \in held /\ held' = held \ {p} /\ tombs' = tombs \cup {p}
          /\ Known \subseteq Known' /\ Known' \subseteq Known \cup {p}
          /\ \A x \in Known : ledger'[x].section = ledger[x].section
          /\ \A x \in Known' \ Known : ledger'[x].section = SectionOf[p]
      <3>1. SectionOf[p] \in Section /\ blame \subseteq blame'
            BY <2>1, VscoSectionsKnown
      <3> QED BY <2>1, <3>1, DeletionOutside DEF VscoInv
    <2>3. VscoPlaced'
          BY <2>2 DEF VscoInv, VscoPlaced
    <2>4. "unrecorded" \notin blame' => tombs' \subseteq media'
          BY <2>1, <2>2 DEF VscoInv, VscoPassesOver, Outside
    <2>5. VscoTypeOK'
          BY <1>3 DEF VscoDelete, VscoInv, VscoTypeOK
    <2> QED BY <2>1, <2>2, <2>3, <2>4, <2>5, VscoBeside
  <1> QED BY <1>1, <1>2, <1>3

LEMMA VscoStarts ==
    ASSUME VscoInv, VscoStart
    PROVE  VscoInv'
  <1> USE DEF VscoInv
  <1>1. /\ published' = published /\ shown' = shown /\ ledger' = ledger /\ tombs' = tombs
        /\ left' = left /\ blame' = blame /\ trouble' = trouble /\ held' = held
        /\ media' = media /\ films' = films
        BY DEF VscoStart
  <1>2. scan' = [step |-> "list", from |-> published, todo |-> VscoSections, films |-> films,
                 skip |-> media \cup held, posts |-> {}, errors |-> FALSE,
                 queue |-> {}, files |-> {}, got |-> {}, deleted |-> tombs]
        BY DEF VscoStart
  <1>3. /\ media \cup held \in SUBSET Post /\ tombs \in SUBSET Post /\ published \in 0..MaxPost
        /\ trouble \in 0..MaxTrouble /\ held \subseteq 1..published /\ media \subseteq 1..published
        BY PresenceAssumption DEF ProfileSound, PresenceTypeOK, Post
  <1>4. scan' \in VscoRun
        BY <1>2, <1>3 DEF VscoRun, VscoStep, VscoTypeOK
  <1>5. ProfileSound' /\ SuspectsHaveLeft' /\ VscoPlaced'
        BY <1>1, <1>3, UntouchedProfile DEF VscoPlaced
  <1>6. VscoOrderly' /\ VscoSeen'
        BY <1>2 DEF VscoOrderly, VscoSeen
  <1>7. VscoPassesOver'
        BY <1>1, <1>2 DEF VscoPassesOver
  <1>8. DeletedStaysDeleted'
        BY <1>1 DEF DeletedStaysDeleted
  <1> QED BY <1>1, <1>4, <1>5, <1>6, <1>7, <1>8 DEF VscoTypeOK

LEMMA VscoLists ==
    ASSUME VscoInv, VscoList
    PROVE  VscoInv'
  <1> USE DEF VscoInv
  <1>1. /\ published' = published /\ shown' = shown /\ ledger' = ledger /\ tombs' = tombs
        /\ left' = left /\ held' = held /\ media' = media /\ films' = films
        BY DEF VscoList
  <1>2. scan \in VscoRun /\ scan.step = "list"
        BY VscoRuns DEF VscoList
  <1>3. PICK section \in scan.todo, posts \in SUBSET shown, error \in BOOLEAN :
            /\ posts \subseteq InSection(section)
            /\ scan' = [scan EXCEPT !.todo = @ \ {section}, !.posts = @ \cup posts,
                                    !.errors = @ \/ error,
                                    !.step = IF scan.todo = {section} THEN "plan" ELSE "list"]
            /\ blame \subseteq blame' /\ trouble' \in 0..MaxTrouble
            /\ Unmistaken' => error \/ posts = InSection(section)
    <2>1. PICK section \in scan.todo :
              \E posts \in SUBSET InSection(section), error \in BOOLEAN :
                /\ scan' = [scan EXCEPT !.todo = @ \ {section}, !.posts = @ \cup posts,
                                        !.errors = @ \/ error,
                                        !.step = IF scan.todo = {section} THEN "plan" ELSE "list"]
                /\ \/ error /\ Happens /\ blame' = blame
                   \/ posts = InSection(section) /\ trouble' = trouble /\ blame' = blame
                   \/ Happens /\ blame' = blame \cup {"short"}
          BY DEF VscoList
    <2>2. Happens => trouble' \in 0..MaxTrouble
          BY PresenceAssumption DEF Happens, ProfileSound, PresenceTypeOK
    <2>3. trouble \in 0..MaxTrouble
          BY DEF ProfileSound, PresenceTypeOK
    <2>4. blame' = blame \cup {"short"} => ~Unmistaken'
          BY DEF Unmistaken
    <2>5. PICK posts \in SUBSET InSection(section), error \in BOOLEAN :
            /\ scan' = [scan EXCEPT !.todo = @ \ {section}, !.posts = @ \cup posts,
                                    !.errors = @ \/ error,
                                    !.step = IF scan.todo = {section} THEN "plan" ELSE "list"]
            /\ \/ error /\ Happens /\ blame' = blame
               \/ posts = InSection(section) /\ trouble' = trouble /\ blame' = blame
               \/ Happens /\ blame' = blame \cup {"short"}
          BY <2>1
    <2>6. /\ posts \in SUBSET shown /\ posts \subseteq InSection(section)
          /\ blame \subseteq blame' /\ trouble' \in 0..MaxTrouble
          /\ Unmistaken' => error \/ posts = InSection(section)
          BY <2>2, <2>3, <2>4, <2>5 DEF InSection
    <2> QED BY <2>5, <2>6
  <1>4. posts \subseteq 1..published /\ posts \subseteq Post
        BY <1>3, PresenceAssumption DEF InSection, ProfileSound, PresenceTypeOK, Post
  <1>5. scan' \in VscoRun
        BY <1>2, <1>3, <1>4 DEF VscoRun, VscoStep
  <1>6. /\ scan'.todo = scan.todo \ {section} /\ scan'.posts = scan.posts \cup posts
        /\ ~scan'.errors => ~scan.errors /\ ~error
        /\ scan'.step \in {"list", "plan"}
        /\ scan'.step = "plan" => scan'.todo = {}
        /\ scan'.skip = scan.skip /\ scan'.queue = scan.queue /\ scan'.got = scan.got
        /\ scan'.deleted = scan.deleted
        BY <1>2, <1>3 DEF VscoRun
  <1>7. ProfileSound' /\ SuspectsHaveLeft' /\ VscoPlaced' /\ AtStake' = AtStake
    <2>1. held \subseteq 1..published /\ media \subseteq 1..published
          BY DEF ProfileSound, PresenceTypeOK
    <2> QED BY <1>1, <1>3, <2>1, UntouchedProfile DEF VscoPlaced, AtStake
  <1>8. VscoOrderly'
        BY <1>1, <1>2, <1>4, <1>6 DEF VscoOrderly
  <1>9. VscoSeen'
    <2> SUFFICES ASSUME Unmistaken', ~scan'.errors, NEW p \in AtStake,
                        SectionOf[p] \in VscoSections \ scan'.todo
                 PROVE  p \in scan'.posts \cup left
        BY <1>1, <1>7 DEF VscoSeen
    <2>1. Unmistaken /\ ~scan.errors /\ ~error
          BY <1>3, <1>6 DEF Unmistaken
    <2>2. CASE SectionOf[p] = section
      <3>1. p \in 1..published
            BY DEF AtStake, ProfileSound, PresenceTypeOK
      <3>2. p \in shown => p \in posts
            BY <1>3, <2>1, <2>2 DEF InSection
      <3> QED BY <1>6, <3>1, <3>2 DEF ProfileSound, HiddenHaveLeft
    <2>3. CASE SectionOf[p] # section
          BY <1>2, <1>6, <2>1, <2>3 DEF VscoSeen
    <2> QED BY <2>2, <2>3
  <1>10. VscoPassesOver'
        BY <1>1, <1>2, <1>3, <1>6 DEF VscoPassesOver
  <1>11. DeletedStaysDeleted'
        BY <1>1, <1>3 DEF DeletedStaysDeleted
  <1> QED BY <1>1, <1>5, <1>7, <1>8, <1>9, <1>10, <1>11 DEF VscoTypeOK

LEMMA VscoPlans ==
    ASSUME VscoInv, VscoPlan
    PROVE  VscoInv'
  <1> USE DEF VscoInv
  <1>1. /\ published' = published /\ shown' = shown /\ ledger' = ledger /\ tombs' = tombs
        /\ left' = left /\ blame' = blame /\ trouble' = trouble /\ held' = held
        /\ media' = media /\ films' = films
        BY DEF VscoPlan
  <1>2. scan \in VscoRun /\ scan.step = "plan"
        BY VscoRuns DEF VscoPlan
  <1>3. scan' = [scan EXCEPT !.step = "fetch", !.queue = VscoWanted \ scan.skip,
                             !.files = IF Compares THEN held ELSE {}]
        BY DEF VscoPlan
  <1>4. /\ held \in SUBSET Post /\ VscoWanted \in SUBSET Post /\ VscoWanted \subseteq scan.posts
        /\ trouble \in 0..MaxTrouble /\ held \subseteq 1..published /\ media \subseteq 1..published
        BY <1>2, PresenceAssumption DEF ProfileSound, PresenceTypeOK, Post, VscoWanted, VscoRun
  <1>5. scan' \in VscoRun
        BY <1>2, <1>3, <1>4 DEF VscoRun, VscoStep
  <1>6. /\ scan'.step = "fetch" /\ scan'.queue = VscoWanted \ scan.skip
        /\ scan'.todo = scan.todo /\ scan'.posts = scan.posts /\ scan'.errors = scan.errors
        /\ scan'.skip = scan.skip /\ scan'.got = scan.got /\ scan'.deleted = scan.deleted
        /\ scan'.films = scan.films
        BY <1>2, <1>3 DEF VscoRun
  <1>7. ProfileSound' /\ SuspectsHaveLeft' /\ VscoPlaced' /\ AtStake' = AtStake
        BY <1>1, <1>4, UntouchedProfile DEF VscoPlaced, AtStake
  <1>8. VscoOrderly'
    <2>1. VscoWanted' = VscoWanted
          BY <1>6 DEF VscoWanted
    <2>2. scan.todo = {} /\ scan.posts \subseteq 1..published /\ scan.got \subseteq scan.posts
          BY <1>2 DEF VscoOrderly
    <2> QED BY <1>1, <1>4, <1>6, <2>1, <2>2 DEF VscoOrderly
  <1>9. VscoSeen'
        BY <1>1, <1>2, <1>6, <1>7 DEF VscoSeen, Unmistaken
  <1>10. VscoPassesOver'
        BY <1>1, <1>2, <1>6 DEF VscoPassesOver
  <1>11. DeletedStaysDeleted'
        BY <1>1 DEF DeletedStaysDeleted
  <1> QED BY <1>1, <1>5, <1>7, <1>8, <1>9, <1>10, <1>11 DEF VscoTypeOK

LEMMA VscoDownloads ==
    ASSUME VscoInv, VscoDownload
    PROVE  VscoInv'
  <1> USE DEF VscoInv
  <1>1. /\ published' = published /\ shown' = shown /\ ledger' = ledger /\ tombs' = tombs
        /\ left' = left /\ media' = media /\ films' = films
        BY DEF VscoDownload
  <1>2. scan \in VscoRun /\ scan.step = "fetch"
        BY VscoRuns DEF VscoDownload
  <1>3. /\ scan.posts \subseteq 1..published
        /\ scan.queue \subseteq scan.posts \ scan.skip /\ scan.got \subseteq scan.posts
        /\ scan.todo = {}
        /\ ~scan.errors => VscoWanted \subseteq scan.skip \cup scan.queue \cup scan.got
        BY <1>2 DEF VscoOrderly
  <1>4. PICK p \in scan.queue :
            /\ scan' \in {[scan EXCEPT !.queue = @ \ {p}, !.got = @ \cup {p},
                                       !.files = IF Compares THEN @ \cup {p} ELSE @],
                          [scan EXCEPT !.queue = @ \ {p}, !.errors = TRUE]}
            /\ held' \in {held, held \cup {p}}
            /\ p \in held' => p \in held \/ p \notin tombs \ scan.deleted \/ "overtaken" \in blame'
            /\ blame' \in {blame, blame \cup {"overtaken"}} /\ trouble' \in 0..MaxTrouble
    <2>1. PICK p \in Chunk(scan.queue, 1) :
             \/ /\ scan' = [scan EXCEPT !.queue = @ \ {p}, !.got = @ \cup {p},
                                        !.files = IF Compares THEN @ \cup {p} ELSE @]
                /\ held' = IF IsCopy(p) THEN held ELSE held \cup {p}
                /\ blame' = IF p \in tombs \ scan.deleted THEN blame \cup {"overtaken"} ELSE blame
                /\ UNCHANGED trouble
             \/ /\ scan' = [scan EXCEPT !.queue = @ \ {p}, !.errors = TRUE]
                /\ Happens
                /\ UNCHANGED <<held, blame>>
          BY DEF VscoDownload
    <2>2. p \in scan.queue
          BY DEF Chunk
    <2>3. trouble' \in 0..MaxTrouble
          BY <2>1, PresenceAssumption DEF Happens, ProfileSound, PresenceTypeOK
    <2> QED BY <2>1, <2>2, <2>3
  <1>5. /\ scan' \in VscoRun
        /\ scan'.step = "fetch" /\ scan'.queue = scan.queue \ {p}
        /\ scan'.todo = {} /\ scan'.posts = scan.posts /\ scan'.films = scan.films
        /\ scan'.skip = scan.skip /\ scan'.deleted = scan.deleted
        /\ scan'.got \subseteq scan.got \cup {p} /\ scan.got \subseteq scan'.got
        /\ ~scan'.errors => ~scan.errors /\ p \in scan'.got
    <2>1. p \in Post
          BY <1>2, <1>4 DEF VscoRun
    <2>2. CASE scan' = [scan EXCEPT !.queue = @ \ {p}, !.got = @ \cup {p},
                                    !.files = IF Compares THEN @ \cup {p} ELSE @]
          BY <1>2, <1>3, <2>1, <2>2 DEF VscoRun
    <2>3. CASE scan' = [scan EXCEPT !.queue = @ \ {p}, !.errors = TRUE]
          BY <1>2, <1>3, <2>1, <2>3 DEF VscoRun
    <2> QED BY <1>4, <2>2, <2>3
  <1>6. p \in scan.posts \ scan.skip /\ p \in 1..published
        BY <1>3, <1>4
  <1>7. ProfileSound' /\ SuspectsHaveLeft' /\ VscoPlaced' /\ AtStake' \subseteq AtStake \cup {p}
    <2>1. /\ held' \subseteq 1..published /\ media \subseteq 1..published
          /\ blame \subseteq blame'
          BY <1>4, <1>6 DEF ProfileSound, PresenceTypeOK
    <2>2. ProfileSound' /\ SuspectsHaveLeft' /\ Known' = Known
          BY <1>1, <1>4, <2>1, UntouchedProfile
    <2> QED BY <1>1, <1>4, <2>2 DEF VscoPlaced, AtStake
  <1>8. VscoOrderly'
    <2>1. VscoWanted' = VscoWanted
          BY <1>5 DEF VscoWanted
    <2> QED BY <1>1, <1>3, <1>4, <1>5, <2>1 DEF VscoOrderly
  <1>9. VscoSeen'
    <2>1. Unmistaken' => Unmistaken
          BY <1>4 DEF Unmistaken
    <2> QED BY <1>1, <1>2, <1>3, <1>5, <1>6, <1>7, <2>1 DEF VscoSeen
  <1>10. VscoPassesOver'
        BY <1>1, <1>2, <1>4, <1>5 DEF VscoPassesOver
  <1>11. DeletedStaysDeleted'
    <2> SUFFICES ASSUME "unrecorded" \notin blame', "overtaken" \notin blame'
                 PROVE  tombs \cap held' = {}
        BY <1>1 DEF DeletedStaysDeleted
    <2>1. "unrecorded" \notin blame /\ tombs \cap held = {}
          BY <1>4 DEF DeletedStaysDeleted
    <2>2. p \notin scan.deleted
          BY <1>2, <1>6, <2>1 DEF VscoPassesOver
    <2> QED BY <1>4, <2>1, <2>2
  <1> QED BY <1>1, <1>5, <1>7, <1>8, <1>9, <1>10, <1>11 DEF VscoTypeOK

LEMMA VscoRecordsPosts ==
    ASSUME VscoInv, VscoRecordPosts
    PROVE  VscoInv'
  <1> USE DEF VscoInv
  <1> DEFINE q == VscoQualification
             rs == Recorded(VscoObserved, SectionOf)
  <1>1. /\ published' = published /\ shown' = shown /\ held' = held /\ media' = media
        /\ tombs' = tombs /\ trouble' = trouble /\ films' = films
        /\ scan.step = "fetch" /\ scan.queue = {}
        /\ Presence(q, rs)
        /\ blame' = IF Qualifies(q) /\ (Judged(q, rs) \cap scan.posts) \ VscoWanted # {}
                    THEN blame \cup {"unseen"} ELSE blame
        /\ scan' = [scan EXCEPT !.step = "media"]
        BY DEF VscoRecordPosts
  <1>2. scan \in VscoRun
        BY VscoRuns DEF VscoRecordPosts
  <1>3. /\ scan.posts \subseteq 1..published /\ scan.got \subseteq scan.posts
        /\ scan.todo = {}
        /\ ~scan.errors => VscoWanted \subseteq scan.skip \cup scan.got
        BY <1>1, <1>2 DEF VscoOrderly
  <1>4. VscoObserved \subseteq 1..published /\ VscoObserved \subseteq Post /\ VscoObserved \subseteq scan.posts
        BY <1>2, <1>3, PresenceAssumption
        DEF VscoObserved, VscoWanted, ProfileSound, PresenceTypeOK, Post
  <1>5. RowsOf(rs) = Known \cup VscoObserved
    <2>1. RowsTyped(ledger)
          BY DEF ProfileSound, PresenceTypeOK, RowsTyped, Rows
    <2> QED BY <1>4, <2>1, VscoSectionsKnown, RecordedRows
  <1>6. Unmistaken' /\ Qualifies(q) => Judged(q, rs) \ q.observed \subseteq left
    <2> SUFFICES ASSUME Unmistaken', Qualifies(q), NEW p \in Judged(q, rs), p \notin q.observed
                 PROVE  p \in left
        OBVIOUS
    <2>1. Unmistaken /\ (Judged(q, rs) \cap scan.posts) \subseteq VscoWanted
          BY <1>1 DEF Unmistaken
    <2>2. ~scan.errors /\ p \notin VscoObserved
          BY DEF Qualifies, VscoQualification
    <2>3. rs[p].section \in VscoSections /\ p \in Known \cup VscoObserved
          BY <1>5 DEF Judged, RowsOf, VscoQualification
    <2>4. rs[p].section = ledger[p].section
          BY <2>2 DEF Judged, Recorded
    <2>5. p \in AtStake /\ SectionOf[p] \in VscoSections
          BY <2>2, <2>3, <2>4 DEF VscoPlaced, AtStake
    <2>6. p \in scan.posts \cup left
          BY <1>1, <1>2, <1>3, <2>1, <2>2, <2>5 DEF VscoSeen
    <2>7. p \in scan.posts => p \in VscoObserved
          BY <1>3, <2>1, <2>2 DEF VscoObserved
    <2> QED BY <2>2, <2>6, <2>7
  <1>7. /\ ProfileSound' /\ SuspectsHaveLeft'
        /\ Known' = Known \cup VscoObserved
        /\ \A p \in VscoObserved : ledger'[p].section = SectionOf[p]
        /\ \A p \in Known \ VscoObserved : ledger'[p].section = ledger[p].section
    <2>1. VscoObserved \in SUBSET (1..published) /\ blame \subseteq blame'
          /\ \A p \in VscoObserved : SectionOf[p] \in Section
          BY <1>1, <1>4, VscoSectionsKnown
    <2> HIDE DEF q
    <2> QED BY <1>1, <1>6, <2>1, RecordedProfile
  <1>8. VscoPlaced'
        BY <1>7 DEF VscoPlaced
  <1>9. /\ scan' \in VscoRun /\ scan'.step = "media" /\ scan'.todo = {}
        /\ scan'.posts = scan.posts /\ scan'.queue = {} /\ scan'.got = scan.got
        /\ scan'.skip = scan.skip /\ scan'.deleted = scan.deleted /\ scan'.errors = scan.errors
        BY <1>1, <1>2, <1>3 DEF VscoRun, VscoStep
  <1>10. VscoOrderly'
        BY <1>1, <1>3, <1>9 DEF VscoOrderly
  <1>11. VscoSeen'
        BY <1>9 DEF VscoSeen
  <1>12. VscoPassesOver'
        BY <1>1, <1>2, <1>9 DEF VscoPassesOver
  <1>13. DeletedStaysDeleted'
        BY <1>1 DEF DeletedStaysDeleted
  <1> QED BY <1>1, <1>7, <1>8, <1>9, <1>10, <1>11, <1>12, <1>13 DEF VscoTypeOK

LEMMA VscoCloses ==
    ASSUME VscoInv, VscoRecordMedia \/ VscoStop
    PROVE  VscoInv'
  <1> USE DEF VscoInv
  <1>1. /\ published' = published /\ shown' = shown /\ ledger' = ledger /\ tombs' = tombs
        /\ left' = left /\ held' = held /\ films' = films /\ scan' = Idle /\ blame' = blame
        BY DEF VscoRecordMedia, VscoStop
  <1>2. media \subseteq media' /\ media' \subseteq 1..published /\ trouble' \in 0..MaxTrouble
    <2>1. CASE VscoStop
          BY <2>1, PresenceAssumption DEF VscoStop, Happens, ProfileSound, PresenceTypeOK
    <2>2. CASE VscoRecordMedia
      <3>1. scan.got \subseteq 1..published
            BY <2>2, VscoRuns DEF VscoRecordMedia, VscoOrderly
      <3> QED BY <2>2, <3>1 DEF VscoRecordMedia, ProfileSound, PresenceTypeOK
    <2> QED BY <2>1, <2>2
  <1>3. ProfileSound' /\ SuspectsHaveLeft' /\ VscoPlaced'
    <2>1. held \subseteq 1..published
          BY DEF ProfileSound, PresenceTypeOK
    <2> QED BY <1>1, <1>2, <2>1, UntouchedProfile DEF VscoPlaced
  <1>4. scan' \in VscoRun \cup {Idle} /\ scan' \notin VscoRun
    <2>1. \A r \in VscoRun : r.step \in VscoStep
          BY DEF VscoRun
    <2> QED BY <1>1, <2>1 DEF Idle, VscoStep
  <1> QED BY <1>1, <1>2, <1>3, <1>4
          DEF VscoTypeOK, VscoOrderly, VscoSeen, VscoPassesOver, DeletedStaysDeleted

LEMMA VscoInductive ==
    ASSUME VscoInv, [VscoNext]_<<profile_vars, films>>
    PROVE  VscoInv'
  <1>1. CASE VscoStart
        BY <1>1, VscoStarts
  <1>2. CASE VscoList
        BY <1>2, VscoLists
  <1>3. CASE VscoPlan
        BY <1>3, VscoPlans
  <1>4. CASE VscoDownload
        BY <1>4, VscoDownloads
  <1>5. CASE VscoRecordPosts
        BY <1>5, VscoRecordsPosts
  <1>6. CASE VscoRecordMedia \/ VscoStop
        BY <1>6, VscoCloses
  <1>7. CASE VscoToggle \/ (\E p \in Post : VscoDelete(p)) \/ (AuthorStep /\ UNCHANGED films)
        BY <1>7, VscoOutside
  <1>8. CASE UNCHANGED <<profile_vars, films>>
    <2>1. /\ published' = published /\ shown' = shown /\ held' = held /\ media' = media
          /\ ledger' = ledger /\ tombs' = tombs /\ scan' = scan /\ left' = left
          /\ trouble' = trouble /\ blame' = blame /\ films' = films
          BY <1>8 DEF profile_vars
    <2> QED BY <2>1
            DEF VscoInv, ProfileSound, PresenceTypeOK, HiddenHaveLeft, Known, SuspectsHaveLeft,
                Suspected, Unmistaken, VscoTypeOK, VscoOrderly, VscoWanted, VscoSeen, AtStake,
                VscoPlaced, VscoPassesOver, DeletedStaysDeleted
  <1> QED BY <1>1, <1>2, <1>3, <1>4, <1>5, <1>6, <1>7, <1>8 DEF VscoNext

LEMMA VscoAlways == VscoSpec => []VscoInv
  <1>1. PresenceInit /\ VscoInit => VscoInv
        BY VscoInitial
  <1>2. VscoInv /\ [VscoNext]_<<profile_vars, films>> => VscoInv'
        BY VscoInductive
  <1> QED BY <1>1, <1>2, PTL DEF VscoSpec

\* Whoever is suspected is at least who is flagged.
LEMMA FlaggedAreSuspected == SuspectsHaveLeft => FlaggedWasGone
  <1> SUFFICES ASSUME SuspectsHaveLeft, Unmistaken
               PROVE  Missing \subseteq left
      BY DEF FlaggedWasGone, Unmistaken
  <1>1. Missing \subseteq Suspected(ledger)
        BY DEF Missing, Known, Suspected, Confirmations
  <1> QED BY <1>1 DEF SuspectsHaveLeft

\* The author's removals are told from everything else, in a profile of VSCO:
\* whatever failed, was cut short, deleted or published while a sync ran, a post
\* is flagged only if it was off the provider since a judging sync saw it.
THEOREM VscoFlagsTheGone == VscoSpec => []FlaggedWasGone
  <1>1. VscoInv => FlaggedWasGone
        BY FlaggedAreSuspected DEF VscoInv
  <1> QED BY <1>1, VscoAlways, PTL

\* A sync of VSCO never brings back what the user deleted before it began, nor,
\* unless it had chosen it by then, what he deletes while it runs.
THEOREM VscoDeletionsStand == VscoSpec => []DeletedStaysDeleted
  <1>1. VscoInv => DeletedStaysDeleted
        BY DEF VscoInv
  <1> QED BY <1>1, VscoAlways, PTL

-----------------------------------------------------------------------------
(***************************************************************************)
(* YouTube.                                                                *)
(***************************************************************************)

YoutubeStep == {"list", "settle", "batch", "media"}
YoutubeRun ==
    [step : YoutubeStep, from : 0..MaxPost, todo : SUBSET Tabs, keys : SUBSET Post,
     media_keys : SUBSET Post, deleted : SUBSET Post, history : BOOLEAN, posts : SUBSET Post,
     gone : BOOLEAN, limited : BOOLEAN, queue : SUBSET Post, got : SUBSET Post,
     errors : BOOLEAN]

\* A sync fetches what it listed and what it did not know.
YoutubeOrderly ==
    scan \in YoutubeRun =>
        /\ scan.posts \subseteq 1..published
        /\ scan.queue \subseteq scan.posts \ scan.keys /\ scan.got \subseteq scan.posts
        /\ scan.step # "list" => scan.todo = {}

\* Of the tabs that were listed, a post at stake was seen or has left.
YoutubeSeen ==
    scan \in YoutubeRun /\ scan.step # "media" /\ Unmistaken /\ ~scan.limited =>
        \A p \in AtStake : Tab[p] \in Tabs \ scan.todo => p \in scan.posts \cup left

YoutubePlaced == \A p \in Known : ledger[p].section = Tab[p]

\* What was deleted has a row, and is passed over by the sync that runs.
YoutubePassesOver ==
    "unrecorded" \notin blame =>
        /\ tombs \subseteq Known
        /\ scan \in YoutubeRun => scan.deleted \subseteq scan.keys

YoutubeInv ==
    /\ ProfileSound /\ SuspectsHaveLeft
    /\ scan \in YoutubeRun \cup {Idle}
    /\ YoutubeOrderly /\ YoutubeSeen /\ YoutubePlaced
    /\ YoutubePassesOver /\ DeletedStaysDeleted

LEMMA YoutubeSectionsKnown == \A p \in Post : Tab[p] \in Section
  BY DEF Tab, Section

LEMMA YoutubeRuns ==
    /\ Idle \notin YoutubeRun
    /\ scan \in YoutubeRun \cup {Idle} => (~NoScan <=> scan \in YoutubeRun)
  <1>1. \A r \in YoutubeRun : r.step \in YoutubeStep
        BY DEF YoutubeRun
  <1>2. Idle \notin YoutubeRun
        BY <1>1 DEF Idle, YoutubeStep
  <1> QED BY <1>2 DEF NoScan

LEMMA YoutubeInitial == PresenceInit => YoutubeInv
  <1> SUFFICES ASSUME PresenceInit PROVE YoutubeInv
      OBVIOUS
  <1>1. ProfileSound /\ SuspectsHaveLeft /\ NoScan
        BY ProfileInitial
  <1>2. scan \in YoutubeRun \cup {Idle} /\ scan \notin YoutubeRun
        BY <1>1, YoutubeRuns DEF NoScan
  <1>3. Known = {} /\ tombs = {} /\ YoutubePlaced
        BY DEF PresenceInit, Known, YoutubePlaced
  <1> QED BY <1>1, <1>2, <1>3
          DEF YoutubeInv, YoutubeOrderly, YoutubeSeen, YoutubePassesOver, DeletedStaysDeleted

\* A step of the author or the user beside a YouTube sync.
LEMMA YoutubeBeside ==
    ASSUME YoutubeInv, ProfileSound', SuspectsHaveLeft', Outside, YoutubePlaced',
           blame \subseteq blame',
           "unrecorded" \notin blame' => tombs' \subseteq Known',
           tombs' \cap held' \subseteq tombs \cap held
    PROVE  YoutubeInv'
  <1> USE DEF YoutubeInv, Outside
  <1>1. YoutubeOrderly'
    <2>1. published' \in 0..MaxPost /\ published \in 0..MaxPost /\ MaxPost \in Nat
          BY PresenceAssumption DEF ProfileSound, PresenceTypeOK
    <2> QED BY <2>1 DEF YoutubeOrderly
  <1>2. YoutubeSeen'
        BY DEF YoutubeSeen, Unmistaken, AtStake
  <1>3. YoutubePassesOver'
        BY DEF YoutubePassesOver
  <1>4. DeletedStaysDeleted'
        BY DEF DeletedStaysDeleted
  <1> QED BY <1>1, <1>2, <1>3, <1>4

LEMMA YoutubeOutside ==
    ASSUME YoutubeInv, AuthorStep \/ \E p \in Post : YoutubeDelete(p)
    PROVE  YoutubeInv'
  <1>1. CASE AuthorStep
    <2>1. /\ ProfileSound' /\ SuspectsHaveLeft' /\ Outside
          /\ ledger' = ledger /\ held' = held /\ tombs' = tombs /\ blame' = blame
          BY <1>1, AuthorOutside DEF YoutubeInv
    <2>2. YoutubePlaced' /\ Known' = Known
          BY <2>1 DEF YoutubeInv, YoutubePlaced, Known
    <2>3. "unrecorded" \notin blame' => tombs' \subseteq Known'
          BY <2>1, <2>2 DEF YoutubeInv, YoutubePassesOver
    <2> QED BY <2>1, <2>2, <2>3, YoutubeBeside
  <1>2. ASSUME NEW p \in Post, YoutubeDelete(p)
        PROVE  YoutubeInv'
    <2>1. /\ DeleteMedium(p, Tab[p])
          /\ blame' = IF ledger'[p] = NoRow THEN blame \cup {"unrecorded"} ELSE blame
          BY <1>2 DEF YoutubeDelete
    <2>2. /\ ProfileSound' /\ SuspectsHaveLeft' /\ Outside
          /\ p \in held /\ held' = held \ {p} /\ tombs' = tombs \cup {p}
          /\ Known \subseteq Known' /\ Known' \subseteq Known \cup {p}
          /\ \A x \in Known : ledger'[x].section = ledger[x].section
          /\ \A x \in Known' \ Known : ledger'[x].section = Tab[p]
      <3>1. Tab[p] \in Section /\ blame \subseteq blame'
            BY <2>1, YoutubeSectionsKnown
      <3> QED BY <2>1, <3>1, DeletionOutside DEF YoutubeInv
    <2>3. YoutubePlaced'
          BY <2>2 DEF YoutubeInv, YoutubePlaced
    <2>4. "unrecorded" \notin blame' => tombs' \subseteq Known'
      <3> SUFFICES ASSUME "unrecorded" \notin blame' PROVE tombs' \subseteq Known'
          OBVIOUS
      <3>1. ledger'[p] # NoRow /\ "unrecorded" \notin blame
            BY <2>1
      <3>2. p \in Known'
            BY <3>1 DEF Known
      <3> QED BY <2>2, <3>1, <3>2 DEF YoutubeInv, YoutubePassesOver
    <2> QED BY <2>1, <2>2, <2>3, <2>4, YoutubeBeside
  <1> QED BY <1>1, <1>2

LEMMA YoutubeStarts ==
    ASSUME YoutubeInv, YoutubeStart
    PROVE  YoutubeInv'
  <1> USE DEF YoutubeInv
  <1> DEFINE some == Known \cup media \cup held # {}
  <1>1. /\ published' = published /\ shown' = shown /\ ledger' = ledger /\ tombs' = tombs
        /\ left' = left /\ blame' = blame /\ trouble' = trouble /\ held' = held
        /\ media' = media
        /\ scan' = [step |-> "list", from |-> published, todo |-> Tabs, keys |-> Known,
                    media_keys |-> media, deleted |-> tombs, history |-> some, posts |-> {},
                    gone |-> FALSE, limited |-> FALSE, queue |-> {}, got |-> {}, errors |-> FALSE]
        BY DEF YoutubeStart
  <1>2. some \in BOOLEAN
        OBVIOUS
  <1> HIDE DEF some
  <1>3. /\ media \in SUBSET Post /\ tombs \in SUBSET Post /\ Known \in SUBSET Post
        /\ published \in 0..MaxPost
        /\ trouble \in 0..MaxTrouble /\ held \subseteq 1..published /\ media \subseteq 1..published
        BY PresenceAssumption DEF ProfileSound, PresenceTypeOK, Post
  <1>4. scan' \in YoutubeRun
        BY <1>1, <1>2, <1>3 DEF YoutubeRun, YoutubeStep
  <1>5. ProfileSound' /\ SuspectsHaveLeft' /\ YoutubePlaced' /\ Known' = Known
        BY <1>1, <1>3, UntouchedProfile DEF YoutubePlaced
  <1>6. YoutubeOrderly' /\ YoutubeSeen'
        BY <1>1 DEF YoutubeOrderly, YoutubeSeen
  <1>7. YoutubePassesOver'
        BY <1>1, <1>5 DEF YoutubePassesOver
  <1>8. DeletedStaysDeleted'
        BY <1>1 DEF DeletedStaysDeleted
  <1> QED BY <1>4, <1>5, <1>6, <1>7, <1>8

LEMMA YoutubeLists ==
    ASSUME YoutubeInv, YoutubeList
    PROVE  YoutubeInv'
  <1> USE DEF YoutubeInv
  <1>1. /\ published' = published /\ shown' = shown /\ ledger' = ledger /\ tombs' = tombs
        /\ left' = left /\ held' = held /\ media' = media
        BY DEF YoutubeList
  <1>2. scan \in YoutubeRun /\ scan.step = "list"
        BY YoutubeRuns DEF YoutubeList
  <1>3. PICK tab \in scan.todo, posts \in SUBSET shown, limited \in BOOLEAN, dead \in BOOLEAN :
            /\ scan' = [scan EXCEPT !.todo = @ \ {tab}, !.posts = @ \cup posts,
                                    !.limited = @ \/ limited, !.gone = @ \/ dead,
                                    !.step = IF scan.todo = {tab} THEN "settle" ELSE "list"]
            /\ IF posts = OfTab(tab) /\ ~limited THEN UNCHANGED trouble ELSE Happens
            /\ blame' = IF posts = OfTab(tab) \/ limited THEN blame ELSE blame \cup {"short"}
    <2>1. \E tab \in scan.todo, posts \in SUBSET shown, limited, dead \in BOOLEAN :
              /\ posts \subseteq OfTab(tab) /\ (dead => posts = {})
              /\ scan' = [scan EXCEPT !.todo = @ \ {tab}, !.posts = @ \cup posts,
                                      !.limited = @ \/ limited, !.gone = @ \/ dead,
                                      !.step = IF scan.todo = {tab} THEN "settle" ELSE "list"]
              /\ IF posts = OfTab(tab) /\ ~limited THEN UNCHANGED trouble ELSE Happens
              /\ blame' = IF posts = OfTab(tab) \/ limited THEN blame ELSE blame \cup {"short"}
          BY DEF YoutubeList
    <2>2. PICK tab \in scan.todo, posts \in SUBSET shown, limited \in BOOLEAN, dead \in BOOLEAN :
              /\ posts \subseteq OfTab(tab) /\ (dead => posts = {})
              /\ scan' = [scan EXCEPT !.todo = @ \ {tab}, !.posts = @ \cup posts,
                                      !.limited = @ \/ limited, !.gone = @ \/ dead,
                                      !.step = IF scan.todo = {tab} THEN "settle" ELSE "list"]
              /\ IF posts = OfTab(tab) /\ ~limited THEN UNCHANGED trouble ELSE Happens
              /\ blame' = IF posts = OfTab(tab) \/ limited THEN blame ELSE blame \cup {"short"}
          BY <2>1, Zenon
    <2> QED BY <2>2, Zenon
  <1>4. /\ posts \subseteq 1..published /\ posts \subseteq Post
        /\ trouble' \in 0..MaxTrouble /\ blame \subseteq blame'
        /\ Unmistaken' => Unmistaken /\ (limited \/ posts = OfTab(tab))
    <2>1. posts \subseteq 1..published /\ posts \subseteq Post
      <3>1. shown \subseteq 1..published /\ published \in 0..MaxPost
            BY DEF ProfileSound, PresenceTypeOK
      <3>2. 1..published \subseteq Post
            BY <3>1, PresenceAssumption DEF Post
      <3> QED BY <3>1, <3>2
    <2>2. trouble' \in 0..MaxTrouble
          BY <1>3, PresenceAssumption DEF Happens, ProfileSound, PresenceTypeOK
    <2>3. blame \subseteq blame' /\ (Unmistaken' => Unmistaken /\ (limited \/ posts = OfTab(tab)))
          BY <1>3 DEF Unmistaken
    <2> QED BY <2>1, <2>2, <2>3
  <1>5. scan' \in YoutubeRun
        BY <1>2, <1>3, <1>4, ZenonT(60) DEF YoutubeRun, YoutubeStep
  <1>6. /\ scan'.todo = scan.todo \ {tab} /\ scan'.posts = scan.posts \cup posts
        /\ ~scan'.limited => ~scan.limited /\ ~limited
        /\ scan'.step \in {"list", "settle"}
        /\ scan'.step = "settle" => scan'.todo = {}
        /\ scan'.keys = scan.keys /\ scan'.queue = scan.queue /\ scan'.got = scan.got
        /\ scan'.deleted = scan.deleted
        BY <1>2, <1>3 DEF YoutubeRun
  <1>7. ProfileSound' /\ SuspectsHaveLeft' /\ YoutubePlaced' /\ Known' = Known /\ AtStake' = AtStake
    <2>1. held \subseteq 1..published /\ media \subseteq 1..published
          BY DEF ProfileSound, PresenceTypeOK
    <2> QED BY <1>1, <1>4, <2>1, UntouchedProfile DEF YoutubePlaced, AtStake
  <1>8. YoutubeOrderly'
        BY <1>1, <1>2, <1>4, <1>6 DEF YoutubeOrderly
  <1>9. YoutubeSeen'
    <2> SUFFICES ASSUME Unmistaken', ~scan'.limited, NEW p \in AtStake,
                        Tab[p] \in Tabs \ scan'.todo
                 PROVE  p \in scan'.posts \cup left
        BY <1>1, <1>7 DEF YoutubeSeen
    <2>1. Unmistaken /\ ~scan.limited /\ posts = OfTab(tab)
          BY <1>4, <1>6
    <2>2. CASE Tab[p] = tab
      <3>1. p \in 1..published
            BY DEF AtStake, ProfileSound, PresenceTypeOK
      <3>2. p \in shown => p \in posts
            BY <2>1, <2>2 DEF OfTab
      <3> QED BY <1>6, <3>1, <3>2 DEF ProfileSound, HiddenHaveLeft
    <2>3. CASE Tab[p] # tab
          BY <1>2, <1>6, <2>1, <2>3 DEF YoutubeSeen
    <2> QED BY <2>2, <2>3
  <1>10. YoutubePassesOver'
        BY <1>1, <1>2, <1>3, <1>6, <1>7 DEF YoutubePassesOver
  <1>11. DeletedStaysDeleted'
        BY <1>1, <1>3 DEF DeletedStaysDeleted
  <1> QED BY <1>5, <1>7, <1>8, <1>9, <1>10, <1>11

LEMMA YoutubeSelects ==
    ASSUME YoutubeInv, YoutubeSelect
    PROVE  YoutubeInv'
  <1> USE DEF YoutubeInv
  <1>1. /\ published' = published /\ shown' = shown /\ ledger' = ledger /\ tombs' = tombs
        /\ left' = left /\ blame' = blame /\ trouble' = trouble /\ held' = held /\ media' = media
        /\ \/ scan' = Idle
           \/ scan' = [scan EXCEPT !.step = "batch", !.queue = scan.posts \ scan.keys]
        BY DEF YoutubeSelect
  <1>2. scan \in YoutubeRun /\ scan.step = "settle"
        BY YoutubeRuns DEF YoutubeSelect
  <1>3. ProfileSound' /\ SuspectsHaveLeft' /\ YoutubePlaced' /\ Known' = Known /\ AtStake' = AtStake
    <2>1. /\ held \subseteq 1..published /\ media \subseteq 1..published
          /\ trouble \in 0..MaxTrouble
          BY DEF ProfileSound, PresenceTypeOK
    <2> QED BY <1>1, <2>1, UntouchedProfile DEF YoutubePlaced, AtStake
  <1>4. DeletedStaysDeleted'
        BY <1>1 DEF DeletedStaysDeleted
  <1>5. CASE scan' = Idle
    <2>1. scan' \notin YoutubeRun
          BY <1>5, YoutubeRuns
    <2> QED BY <1>1, <1>3, <1>4, <1>5, <2>1 DEF YoutubeOrderly, YoutubeSeen, YoutubePassesOver
  <1>6. CASE scan' = [scan EXCEPT !.step = "batch", !.queue = scan.posts \ scan.keys]
    <2>1. /\ scan' \in YoutubeRun /\ scan'.step = "batch" /\ scan'.queue = scan.posts \ scan.keys
          /\ scan'.todo = scan.todo /\ scan'.posts = scan.posts /\ scan'.limited = scan.limited
          /\ scan'.keys = scan.keys /\ scan'.got = scan.got /\ scan'.deleted = scan.deleted
          BY <1>2, <1>6 DEF YoutubeRun, YoutubeStep
    <2>2. YoutubeOrderly'
          BY <1>1, <1>2, <2>1 DEF YoutubeOrderly
    <2>3. YoutubeSeen'
          BY <1>1, <1>2, <1>3, <2>1 DEF YoutubeSeen, Unmistaken
    <2>4. YoutubePassesOver'
          BY <1>1, <1>2, <1>3, <2>1 DEF YoutubePassesOver
    <2> QED BY <1>3, <1>4, <2>1, <2>2, <2>3, <2>4
  <1> QED BY <1>1, <1>5, <1>6

LEMMA YoutubeDownloads ==
    ASSUME YoutubeInv, YoutubeDownload
    PROVE  YoutubeInv'
  <1> USE DEF YoutubeInv
  <1> DEFINE next == Chunk(scan.queue, YoutubeBatch)
             rest == scan.queue \ next
  <1>1. /\ published' = published /\ shown' = shown /\ ledger' = ledger /\ tombs' = tombs
        /\ left' = left /\ media' = media
        BY DEF YoutubeDownload
  <1>2. scan \in YoutubeRun /\ scan.step = "batch"
        BY YoutubeRuns DEF YoutubeDownload
  <1>3. /\ scan.posts \subseteq 1..published
        /\ scan.queue \subseteq scan.posts \ scan.keys /\ scan.got \subseteq scan.posts
        /\ scan.todo = {}
        BY <1>2 DEF YoutubeOrderly
  <1>4. PICK came \in SUBSET next, limited \in BOOLEAN, failed \in BOOLEAN, gives_up \in BOOLEAN :
            /\ held' = held \cup came
            /\ scan' = [scan EXCEPT !.queue = IF gives_up THEN {} ELSE rest,
                                    !.got = @ \cup (came \ scan.media_keys),
                                    !.limited = @ \/ limited,
                                    !.errors = @ \/ failed \/ gives_up]
            /\ trouble' = trouble \/ Happens
            /\ blame' = IF came \cap tombs \subseteq scan.deleted THEN blame
                        ELSE blame \cup {"overtaken"}
    <2>1. PICK came \in Arrivals(next), limited \in BOOLEAN, failed \in BOOLEAN :
             LET gives_up == limited /\ rest # {} IN
             /\ held' = held \cup came
             /\ scan' = [scan EXCEPT !.queue = IF gives_up THEN {} ELSE rest,
                                     !.got = @ \cup (came \ scan.media_keys),
                                     !.limited = @ \/ limited,
                                     !.errors = @ \/ failed \/ gives_up]
             /\ IF came = NotThere(next) /\ ~limited /\ ~failed THEN UNCHANGED trouble ELSE Happens
             /\ blame' = IF came \cap tombs \subseteq scan.deleted THEN blame
                         ELSE blame \cup {"overtaken"}
          BY DEF YoutubeDownload
    <2> DEFINE gives_up == limited /\ rest # {}
    <2>2. came \in SUBSET next /\ gives_up \in BOOLEAN
          BY DEF Arrivals, NotThere
    <2>3. trouble' = trouble \/ Happens
          BY <2>1
    <2> HIDE DEF next, rest
    <2> QED BY <2>1, <2>2, <2>3
  <1>5. next \subseteq scan.queue /\ rest \subseteq scan.queue
        BY DEF Chunk
  <1> HIDE DEF next, rest
  <1>6. /\ came \subseteq scan.queue /\ came \subseteq scan.posts \ scan.keys
        /\ came \subseteq 1..published /\ came \subseteq Post
        /\ trouble' \in 0..MaxTrouble /\ held' \subseteq 1..published /\ media \subseteq 1..published
        /\ blame \subseteq blame' /\ (Unmistaken' => Unmistaken)
    <2>1. came \subseteq scan.queue /\ came \subseteq scan.posts \ scan.keys /\ came \subseteq 1..published
          BY <1>3, <1>4, <1>5
    <2>2. came \subseteq Post /\ trouble' \in 0..MaxTrouble /\ media \subseteq 1..published
          BY <1>4, <2>1, PresenceAssumption DEF Happens, ProfileSound, PresenceTypeOK, Post
    <2>3. held' \subseteq 1..published
          BY <1>4, <2>1 DEF ProfileSound, PresenceTypeOK
    <2>4. blame \subseteq blame' /\ (Unmistaken' => Unmistaken)
          BY <1>4 DEF Unmistaken
    <2> QED BY <2>1, <2>2, <2>3, <2>4
  <1>7. /\ scan' \in YoutubeRun /\ scan'.step = "batch" /\ scan'.queue \subseteq scan.queue
        /\ scan'.got \subseteq scan.got \cup came
        /\ scan'.todo = scan.todo /\ scan'.posts = scan.posts
        /\ ~scan'.limited => ~scan.limited
        /\ scan'.keys = scan.keys /\ scan'.deleted = scan.deleted
    <2>1. rest \in SUBSET Post /\ (came \ scan.media_keys) \in SUBSET Post
          BY <1>2, <1>5, <1>6 DEF YoutubeRun
    <2>2. scan' \in YoutubeRun
          BY <1>2, <1>4, <2>1, ZenonT(60) DEF YoutubeRun
    <2> QED BY <1>2, <1>4, <1>5, <2>2 DEF YoutubeRun
  <1>8. ProfileSound' /\ SuspectsHaveLeft' /\ YoutubePlaced' /\ Known' = Known
        BY <1>1, <1>6, UntouchedProfile DEF YoutubePlaced
  <1>9. YoutubeOrderly'
        BY <1>1, <1>3, <1>6, <1>7 DEF YoutubeOrderly
  <1>10. YoutubeSeen'
        BY <1>1, <1>2, <1>4, <1>6, <1>7, <1>8 DEF YoutubeSeen, AtStake
  <1>11. YoutubePassesOver'
        BY <1>1, <1>2, <1>4, <1>7, <1>8 DEF YoutubePassesOver
  <1>12. DeletedStaysDeleted'
    <2> SUFFICES ASSUME "unrecorded" \notin blame', "overtaken" \notin blame'
                 PROVE  tombs \cap held' = {}
        BY <1>1 DEF DeletedStaysDeleted
    <2>1. "unrecorded" \notin blame /\ tombs \cap held = {} /\ came \cap tombs \subseteq scan.deleted
          BY <1>4 DEF DeletedStaysDeleted
    <2>2. scan.deleted \subseteq scan.keys
          BY <1>2, <2>1 DEF YoutubePassesOver
    <2> QED BY <1>4, <1>6, <2>1, <2>2
  <1> QED BY <1>7, <1>8, <1>9, <1>10, <1>11, <1>12

LEMMA YoutubeRecordsPosts ==
    ASSUME YoutubeInv, YoutubeRecordPosts
    PROVE  YoutubeInv'
  <1> USE DEF YoutubeInv
  <1> DEFINE q == YoutubeQualification
             rs == Recorded(scan.got, Tab)
  <1>1. /\ published' = published /\ shown' = shown /\ held' = held /\ media' = media
        /\ tombs' = tombs /\ trouble' = trouble
        /\ scan.step = "batch" /\ scan.queue = {}
        /\ Presence(q, rs)
        /\ blame' = IF Qualifies(q) /\ Judged(q, rs) \cap scan.posts \subseteq scan.got
                    THEN blame
                    ELSE IF Qualifies(q) THEN blame \cup {"unseen"} ELSE blame
        /\ scan' = [scan EXCEPT !.step = "media"]
        BY DEF YoutubeRecordPosts
  <1>2. scan \in YoutubeRun
        BY YoutubeRuns DEF YoutubeRecordPosts
  <1>3. /\ scan.posts \subseteq 1..published /\ scan.got \subseteq scan.posts
        /\ scan.todo = {} /\ scan.got \subseteq Post
        BY <1>1, <1>2 DEF YoutubeOrderly, YoutubeRun
  <1>4. RowsOf(rs) = Known \cup scan.got
    <2>1. RowsTyped(ledger)
          BY DEF ProfileSound, PresenceTypeOK, RowsTyped, Rows
    <2> QED BY <1>3, <2>1, YoutubeSectionsKnown, RecordedRows
  <1>5. Unmistaken' /\ Qualifies(q) => Judged(q, rs) \ q.observed \subseteq left
    <2> SUFFICES ASSUME Unmistaken', Qualifies(q), NEW p \in Judged(q, rs), p \notin q.observed
                 PROVE  p \in left
        OBVIOUS
    <2>1. Unmistaken /\ Judged(q, rs) \cap scan.posts \subseteq scan.got
          BY <1>1 DEF Unmistaken
    <2>2. ~scan.limited /\ p \notin scan.got
          BY DEF Qualifies, YoutubeQualification
    <2>3. rs[p].section \in Tabs /\ p \in Known \cup scan.got
          BY <1>4 DEF Judged, RowsOf, YoutubeQualification
    <2>4. rs[p].section = ledger[p].section
          BY <2>2 DEF Judged, Recorded
    <2>5. p \in AtStake /\ Tab[p] \in Tabs
          BY <2>2, <2>3, <2>4 DEF YoutubePlaced, AtStake
    <2>6. p \in scan.posts \cup left
          BY <1>1, <1>2, <1>3, <2>1, <2>2, <2>5 DEF YoutubeSeen
    <2> QED BY <2>1, <2>2, <2>6
  <1>6. /\ ProfileSound' /\ SuspectsHaveLeft'
        /\ Known' = Known \cup scan.got
        /\ \A p \in scan.got : ledger'[p].section = Tab[p]
        /\ \A p \in Known \ scan.got : ledger'[p].section = ledger[p].section
    <2>1. /\ scan.got \in SUBSET (1..published) /\ blame \subseteq blame'
          /\ \A p \in scan.got : Tab[p] \in Section
          BY <1>1, <1>3, YoutubeSectionsKnown
    <2> HIDE DEF q
    <2> QED BY <1>1, <1>5, <2>1, RecordedProfile
  <1>7. YoutubePlaced'
        BY <1>6 DEF YoutubePlaced
  <1>8. /\ scan' \in YoutubeRun /\ scan'.step = "media" /\ scan'.todo = {}
        /\ scan'.posts = scan.posts /\ scan'.queue = {} /\ scan'.got = scan.got
        /\ scan'.keys = scan.keys /\ scan'.deleted = scan.deleted
        BY <1>1, <1>2, <1>3 DEF YoutubeRun, YoutubeStep
  <1>9. YoutubeOrderly' /\ YoutubeSeen'
        BY <1>1, <1>3, <1>8 DEF YoutubeOrderly, YoutubeSeen
  <1>10. YoutubePassesOver'
        BY <1>1, <1>2, <1>6, <1>8 DEF YoutubePassesOver
  <1>11. DeletedStaysDeleted'
        BY <1>1 DEF DeletedStaysDeleted
  <1> QED BY <1>6, <1>7, <1>8, <1>9, <1>10, <1>11

LEMMA YoutubeCloses ==
    ASSUME YoutubeInv, YoutubeRecordMedia \/ YoutubeStop
    PROVE  YoutubeInv'
  <1> USE DEF YoutubeInv
  <1>1. /\ published' = published /\ shown' = shown /\ ledger' = ledger /\ tombs' = tombs
        /\ left' = left /\ held' = held /\ scan' = Idle /\ blame' = blame
        BY DEF YoutubeRecordMedia, YoutubeStop
  <1>2. media' \subseteq 1..published /\ trouble' \in 0..MaxTrouble
    <2>1. CASE YoutubeStop
          BY <2>1, PresenceAssumption DEF YoutubeStop, Happens, ProfileSound, PresenceTypeOK
    <2>2. CASE YoutubeRecordMedia
      <3>1. scan.got \subseteq 1..published
            BY <2>2, YoutubeRuns DEF YoutubeRecordMedia, YoutubeOrderly
      <3> QED BY <2>2, <3>1 DEF YoutubeRecordMedia, ProfileSound, PresenceTypeOK
    <2> QED BY <2>1, <2>2
  <1>3. ProfileSound' /\ SuspectsHaveLeft' /\ YoutubePlaced' /\ Known' = Known
    <2>1. held \subseteq 1..published
          BY DEF ProfileSound, PresenceTypeOK
    <2> QED BY <1>1, <1>2, <2>1, UntouchedProfile DEF YoutubePlaced
  <1>4. scan' \in YoutubeRun \cup {Idle} /\ scan' \notin YoutubeRun
        BY <1>1, YoutubeRuns
  <1> QED BY <1>1, <1>2, <1>3, <1>4
          DEF YoutubeOrderly, YoutubeSeen, YoutubePassesOver, DeletedStaysDeleted

LEMMA YoutubeInductive ==
    ASSUME YoutubeInv, [YoutubeNext]_profile_vars
    PROVE  YoutubeInv'
  <1>1. CASE YoutubeStart
        BY <1>1, YoutubeStarts
  <1>2. CASE YoutubeList
        BY <1>2, YoutubeLists
  <1>3. CASE YoutubeSelect
        BY <1>3, YoutubeSelects
  <1>4. CASE YoutubeDownload
        BY <1>4, YoutubeDownloads
  <1>5. CASE YoutubeRecordPosts
        BY <1>5, YoutubeRecordsPosts
  <1>6. CASE YoutubeRecordMedia \/ YoutubeStop
        BY <1>6, YoutubeCloses
  <1>7. CASE AuthorStep \/ \E p \in Post : YoutubeDelete(p)
        BY <1>7, YoutubeOutside
  <1>8. CASE UNCHANGED profile_vars
    <2>1. /\ published' = published /\ shown' = shown /\ held' = held /\ media' = media
          /\ ledger' = ledger /\ tombs' = tombs /\ scan' = scan /\ left' = left
          /\ trouble' = trouble /\ blame' = blame
          BY <1>8 DEF profile_vars
    <2> QED BY <2>1
            DEF YoutubeInv, ProfileSound, PresenceTypeOK, HiddenHaveLeft, Known, SuspectsHaveLeft,
                Suspected, Unmistaken, YoutubeOrderly, YoutubeSeen, AtStake,
                YoutubePlaced, YoutubePassesOver, DeletedStaysDeleted
  <1> QED BY <1>1, <1>2, <1>3, <1>4, <1>5, <1>6, <1>7, <1>8 DEF YoutubeNext

LEMMA YoutubeAlways == YoutubeSpec => []YoutubeInv
  <1>1. PresenceInit => YoutubeInv
        BY YoutubeInitial
  <1>2. YoutubeInv /\ [YoutubeNext]_profile_vars => YoutubeInv'
        BY YoutubeInductive
  <1> QED BY <1>1, <1>2, PTL DEF YoutubeSpec

\* The same of a channel of YouTube: a rate limit, a batch that failed or a tab
\* that could not be listed makes no video look removed.
THEOREM YoutubeFlagsTheGone == YoutubeSpec => []FlaggedWasGone
  <1>1. YoutubeInv => FlaggedWasGone
        BY FlaggedAreSuspected DEF YoutubeInv
  <1> QED BY <1>1, YoutubeAlways, PTL

\* A sync of YouTube passes over what the user deleted, if the post ledger knew
\* it, though it never reads the deletions.
THEOREM YoutubeDeletionsStand == YoutubeSpec => []DeletedStaysDeleted
  <1>1. YoutubeInv => DeletedStaysDeleted
        BY DEF YoutubeInv
  <1> QED BY <1>1, YoutubeAlways, PTL

-----------------------------------------------------------------------------
(***************************************************************************)
(* Twitter.                                                                *)
(***************************************************************************)

TwitterStep == {"list", "posts", "media", "warning", "succeeded"}

\* The sync that runs has these fields; nothing is said of those that no property
\* here depends on.
TwitterRuns ==
    scan \in [step : TwitterStep, backfill : BOOLEAN, from : 0..MaxPost, models : SUBSET Model,
              todo : SUBSET Model, cursors : {scan.cursors}, cutoff : {scan.cutoff},
              videos : {scan.videos}, on_disk : {scan.on_disk}, found : {scan.found},
              got : SUBSET Post, errors : {scan.errors}, done : {scan.done},
              limit : {scan.limit}, at : {scan.at}, newest : {scan.newest},
              redirected : {scan.redirected}, span : {scan.span}]

FoundPosts == {p \in Post : scan.found[p] # "none"}

TwitterOrderly ==
    TwitterRuns =>
        /\ \A p \in Post : scan.found[p] \in Model \cup {"none"}
        /\ DOMAIN scan.found = Post
        /\ FoundPosts \subseteq 1..published
        /\ scan.got \subseteq FoundPosts
        /\ scan.step # "list" => scan.todo = {}

\* A run from the start to the end of its models.
Unabridged ==
    /\ scan.limit = "none" /\ scan.cutoff = NoCutoff
    /\ \A m \in scan.models : scan.cursors[m] = NoCursor

\* Once a model other than the likes was listed, a post at stake was found or has
\* left.
TwitterSeen ==
    TwitterRuns /\ scan.step \in {"list", "posts"} /\ Unmistaken /\ Unabridged =>
        \A m \in scan.models \ scan.todo : m # "likes" => AtStake \subseteq FoundPosts \cup left

\* What was deleted is in the media ledger.
DeletedAreRecorded == "unrecorded" \notin blame => tombs \subseteq media

TwitterInv ==
    /\ ProfileSound /\ SuspectsHaveLeft
    /\ NoScan \/ TwitterRuns
    /\ TwitterOrderly /\ TwitterSeen
    /\ DeletedAreRecorded /\ DeletedStaysDeleted

LEMMA TwitterRunsOrIdle == ~(scan = Idle /\ TwitterRuns)
  <1> SUFFICES ASSUME scan = Idle, TwitterRuns PROVE FALSE
      OBVIOUS
  <1>1. scan.step \in TwitterStep
        BY DEF TwitterRuns
  <1> QED BY <1>1 DEF Idle, TwitterStep

LEMMA FirstOfModels ==
    ASSUME NEW models \in SUBSET Model, models # {}
    PROVE  First(models) \in models
  <1>1. \E m \in models : m = "likes" => models = {"likes"}
        OBVIOUS
  <1> QED BY <1>1 DEF First

LEMMA TwitterInitial == PresenceInit => TwitterInv
  <1> SUFFICES ASSUME PresenceInit PROVE TwitterInv
      OBVIOUS
  <1>1. ProfileSound /\ SuspectsHaveLeft /\ NoScan
        BY ProfileInitial
  <1>2. ~TwitterRuns
        BY <1>1, TwitterRunsOrIdle DEF NoScan
  <1>3. tombs = {}
        BY DEF PresenceInit
  <1> QED BY <1>1, <1>2, <1>3
          DEF TwitterInv, TwitterOrderly, TwitterSeen, DeletedAreRecorded, DeletedStaysDeleted

\* A step beside a Twitter sync.
LEMMA TwitterBeside ==
    ASSUME TwitterInv, ProfileSound', SuspectsHaveLeft', Outside, blame \subseteq blame',
           "unrecorded" \notin blame' => tombs' \subseteq media',
           tombs' \cap held' \subseteq tombs \cap held
    PROVE  TwitterInv'
  <1> USE DEF TwitterInv
  <1>1. /\ scan' = scan /\ AtStake' \subseteq AtStake /\ left \subseteq left'
        /\ 1..published \subseteq 1..published'
        BY PresenceAssumption DEF Outside, ProfileSound, PresenceTypeOK, AtStake
  <1>2. (NoScan' <=> NoScan) /\ (TwitterRuns' <=> TwitterRuns) /\ FoundPosts' = FoundPosts
        BY <1>1 DEF NoScan, TwitterRuns, FoundPosts
  <1>3. TwitterOrderly'
        BY <1>1, <1>2 DEF TwitterOrderly
  <1>4. TwitterSeen'
        BY <1>1, <1>2 DEF TwitterSeen, Unmistaken, Unabridged
  <1>5. DeletedAreRecorded' /\ DeletedStaysDeleted'
        BY DEF DeletedAreRecorded, DeletedStaysDeleted
  <1> QED BY <1>2, <1>3, <1>4, <1>5

LEMMA TwitterOutside ==
    ASSUME TwitterInv,
           \/ AuthorStep
           \/ TwitterToggle
           \/ \E v \in BOOLEAN : TwitterForget(v)
           \/ TwitterDelete
    PROVE  TwitterInv'
  <1>1. CASE AuthorStep
    <2>1. /\ ProfileSound' /\ SuspectsHaveLeft' /\ Outside
          /\ held' = held /\ tombs' = tombs /\ blame' = blame
          BY <1>1, AuthorOutside DEF TwitterInv
    <2>2. "unrecorded" \notin blame' => tombs' \subseteq media'
          BY <2>1 DEF TwitterInv, DeletedAreRecorded, Outside
    <2> QED BY <2>1, <2>2, TwitterBeside
  <1>2. CASE TwitterToggle \/ \E v \in BOOLEAN : TwitterForget(v)
    <2>1. /\ published' = published /\ shown' = shown /\ held' = held /\ media' = media
          /\ ledger' = ledger /\ tombs' = tombs /\ scan' = scan /\ left' = left /\ blame' = blame
          /\ trouble' \in 0..MaxTrouble
          BY <1>2, PresenceAssumption
          DEF TwitterToggle, TwitterForget, Happens, TwitterInv, ProfileSound, PresenceTypeOK
    <2>2. held \subseteq 1..published /\ media \subseteq 1..published /\ published \in Nat
          BY PresenceAssumption DEF TwitterInv, ProfileSound, PresenceTypeOK
    <2>3. ProfileSound' /\ SuspectsHaveLeft' /\ Known' = Known
          BY <2>1, <2>2, UntouchedProfile DEF TwitterInv
    <2>4. Outside
          BY <2>1, <2>2, <2>3 DEF Outside, AtStake
    <2>5. "unrecorded" \notin blame' => tombs' \subseteq media'
          BY <2>1 DEF TwitterInv, DeletedAreRecorded
    <2> QED BY <2>1, <2>3, <2>4, <2>5, TwitterBeside
  <1>3. CASE TwitterDelete
    <2>1. PICK p \in Post : /\ DeleteMedium(p, "media")
                            /\ blame' = IF p \in media THEN blame ELSE blame \cup {"unrecorded"}
          BY <1>3 DEF TwitterDelete
    <2>2. /\ ProfileSound' /\ SuspectsHaveLeft' /\ Outside
          /\ held' = held \ {p} /\ tombs' = tombs \cup {p}
      <3>1. "media" \in Section /\ blame \subseteq blame'
            BY <2>1 DEF Section
      <3> QED BY <2>1, <3>1, DeletionOutside DEF TwitterInv
    <2>3. "unrecorded" \notin blame' => tombs' \subseteq media'
          BY <2>1, <2>2 DEF TwitterInv, DeletedAreRecorded, Outside
    <2> QED BY <2>1, <2>2, <2>3, TwitterBeside
  <1> QED BY <1>1, <1>2, <1>3

LEMMA TwitterStarts ==
    ASSUME TwitterInv, NEW backfill \in BOOLEAN, TwitterStart(backfill)
    PROVE  TwitterInv'
  <1> USE DEF TwitterInv
  <1> DEFINE left_over == {m \in Phase(backfill) : resume[m] # Completed}
             cursors == IF left_over = {} THEN Cleared(resume, backfill) ELSE resume
             models == IF left_over = {} THEN Phase(backfill) ELSE left_over
             asked == {p \in Asked(videos, models) :
                         \E m \in models : /\ m = "likes" => p \in Liked
                                           /\ cursors[m] # NoCursor => p < cursors[m]}
             standing == [m \in models |-> cursors[m]]
             cutoff == CutoffFor(backfill)
  <1>1. /\ published' = published /\ shown' = shown /\ ledger' = ledger /\ tombs' = tombs
        /\ left' = left /\ blame' = blame /\ trouble' = trouble /\ held' = held
        /\ media' = media
        BY DEF TwitterStart
  <1>2. scan' = [step |-> "list", backfill |-> backfill, from |-> published,
                 models |-> models, todo |-> models, cursors |-> standing, cutoff |-> cutoff,
                 videos |-> videos, on_disk |-> held,
                 found |-> [p \in Post |-> "none"], got |-> {}, errors |-> FALSE,
                 done |-> {}, limit |-> "none", at |-> NoCursor,
                 newest |-> 0, redirected |-> FALSE, span |-> asked]
        BY DEF TwitterStart
  <1>3. models \in SUBSET Model
        BY TwitterAssumption DEF Phase, Model
  <1> HIDE DEF models, cursors, asked, standing, cutoff
  <1>4. /\ published \in 0..MaxPost /\ trouble \in 0..MaxTrouble
        /\ held \subseteq 1..published /\ media \subseteq 1..published
        BY DEF ProfileSound, PresenceTypeOK
  <1>5. TwitterRuns'
        BY <1>2, <1>3, <1>4 DEF TwitterRuns, TwitterStep
  <1>6. ProfileSound' /\ SuspectsHaveLeft'
        BY <1>1, <1>4, UntouchedProfile
  <1>7. FoundPosts' = {} /\ scan'.models \ scan'.todo = {}
        BY <1>2 DEF FoundPosts
  <1>8. TwitterOrderly'
        BY <1>2, <1>7 DEF TwitterOrderly
  <1>9. TwitterSeen'
        BY <1>7 DEF TwitterSeen
  <1> QED BY <1>1, <1>5, <1>6, <1>8, <1>9 DEF DeletedAreRecorded, DeletedStaysDeleted

LEMMA TwitterLists ==
    ASSUME TwitterInv, TwitterList
    PROVE  TwitterInv'
  <1> USE DEF TwitterInv
  <1> DEFINE m == First(scan.todo)
  <1>1. /\ published' = published /\ shown' = shown /\ ledger' = ledger /\ tombs' = tombs
        /\ left' = left /\ held' = held /\ media' = media
        BY DEF TwitterList
  <1>2. TwitterRuns /\ scan.step = "list" /\ scan.todo # {} /\ scan.todo \in SUBSET Model
        BY DEF TwitterList, TwitterRuns
  <1>3. m \in scan.todo /\ m \in Model
        BY <1>2, FirstOfModels
  <1>4. ListToEnd(m) \/ DieMidway(m) \/ FailModel(m) \/ HitLimit(m) \/ ListElsewhere(m)
        BY DEF TwitterList
  <1> HIDE DEF m
  <1>5. /\ TwitterRuns'
        /\ scan'.step = "list" /\ scan'.got = scan.got /\ scan'.models = scan.models
        /\ scan'.cutoff = scan.cutoff /\ scan'.cursors = scan.cursors
        /\ \E posts \in SUBSET ListingOf(m) : scan'.found \in {scan.found, Owned(m, posts)}
        /\ Unmistaken' /\ scan'.limit = "none" =>
              /\ Unmistaken /\ scan.limit = "none"
              /\ scan'.todo = scan.todo \ {m} /\ scan'.found = Owned(m, ListingOf(m))
        /\ blame \subseteq blame' /\ trouble' \in 0..MaxTrouble
    <2>1. Happens => trouble' \in 0..MaxTrouble
          BY PresenceAssumption DEF Happens, ProfileSound, PresenceTypeOK
    <2>2. trouble \in 0..MaxTrouble
          BY DEF ProfileSound, PresenceTypeOK
    <2>3. blame \cup {"short"} = blame' => ~Unmistaken'
          BY DEF Unmistaken
    <2>4. CASE ListToEnd(m)
      <3>1. PICK t : /\ scan' = [scan EXCEPT !.todo = @ \ {m}, !.done = @ \cup {m},
                                             !.found = Owned(m, ListingOf(m)),
                                             !.newest = NewestOf({scan.newest, t} \cup ListingOf(m))]
                     /\ blame' \in {blame, blame \cup {"raised"}} /\ trouble' = trouble
            BY <2>4 DEF ListToEnd
      <3>2. TwitterRuns'
            BY <1>2, <3>1 DEF TwitterRuns
      <3>3. /\ scan'.step = "list" /\ scan'.got = scan.got /\ scan'.models = scan.models
            /\ scan'.cutoff = scan.cutoff /\ scan'.cursors = scan.cursors
            /\ scan'.found = Owned(m, ListingOf(m)) /\ scan'.limit = scan.limit
            /\ scan'.todo = scan.todo \ {m}
            BY <1>2, <3>1 DEF TwitterRuns
      <3>4. blame \subseteq blame' /\ (Unmistaken' => Unmistaken)
            BY <3>1 DEF Unmistaken
      <3> QED BY <2>2, <3>1, <3>2, <3>3, <3>4
    <2>5. CASE DieMidway(m)
      <3>1. PICK k \in Cursor :
               /\ Happens /\ blame' = blame \cup {"short"}
               /\ scan' = [scan EXCEPT !.todo = @ \ {m}, !.done = @ \cup {m},
                                       !.found = Owned(m, {p \in ListingOf(m) : p >= k}),
                                       !.newest = NewestOf({@} \cup {p \in ListingOf(m) : p >= k})]
            BY <2>5 DEF DieMidway
      <3>2. TwitterRuns'
            BY <1>2, <3>1 DEF TwitterRuns
      <3>3. /\ scan'.step = "list" /\ scan'.got = scan.got /\ scan'.models = scan.models
            /\ scan'.cutoff = scan.cutoff /\ scan'.cursors = scan.cursors
            /\ scan'.found = Owned(m, {p \in ListingOf(m) : p >= k})
            BY <1>2, <3>1 DEF TwitterRuns
      <3>4. {p \in ListingOf(m) : p >= k} \in SUBSET ListingOf(m)
            OBVIOUS
      <3> QED BY <2>1, <2>3, <3>1, <3>2, <3>3, <3>4
    <2>6. CASE FailModel(m)
      <3>1. /\ Happens /\ blame' = blame \cup {"short"}
            /\ scan' = [scan EXCEPT !.todo = @ \ {m}, !.errors = TRUE]
            BY <2>6 DEF FailModel
      <3>2. TwitterRuns'
            BY <1>2, <3>1 DEF TwitterRuns
      <3>3. /\ scan'.step = "list" /\ scan'.got = scan.got /\ scan'.models = scan.models
            /\ scan'.cutoff = scan.cutoff /\ scan'.cursors = scan.cursors
            /\ scan'.found = scan.found
            BY <1>2, <3>1 DEF TwitterRuns
      <3> QED BY <2>1, <2>3, <3>1, <3>2, <3>3
    <2>7. CASE HitLimit(m)
      <3>1. PICK k \in Cursor : \E stands \in {k, NoCursor} :
               scan' = [scan EXCEPT !.todo = {}, !.limit = m, !.at = stands,
                                    !.found = Owned(m, {p \in ListingOf(m) : p >= k}),
                                    !.newest = NewestOf({@} \cup {p \in ListingOf(m) : p >= k})]
            BY <2>7 DEF HitLimit
      <3>2. Happens /\ blame' = blame
            BY <2>7 DEF HitLimit
      <3>3. TwitterRuns'
            BY <1>2, <3>1, ZenonT(60) DEF TwitterRuns
      <3>4. /\ scan'.step = "list" /\ scan'.got = scan.got /\ scan'.models = scan.models
            /\ scan'.cutoff = scan.cutoff /\ scan'.cursors = scan.cursors
            /\ scan'.found = Owned(m, {p \in ListingOf(m) : p >= k})
            /\ scan'.limit = m
            BY <1>2, <3>1 DEF TwitterRuns
      <3>5. {p \in ListingOf(m) : p >= k} \in SUBSET ListingOf(m)
            OBVIOUS
      <3>6. m # "none"
            BY <1>3 DEF Model
      <3> QED BY <2>1, <3>2, <3>3, <3>4, <3>5, <3>6
    <2>8. CASE ListElsewhere(m)
      <3>1. /\ Happens /\ blame' = blame \cup {"short"}
            /\ scan' = [scan EXCEPT !.todo = {}, !.done = @ \cup {m}]
            BY <2>8 DEF ListElsewhere
      <3>2. TwitterRuns'
            BY <1>2, <3>1 DEF TwitterRuns
      <3>3. /\ scan'.step = "list" /\ scan'.got = scan.got /\ scan'.models = scan.models
            /\ scan'.cutoff = scan.cutoff /\ scan'.cursors = scan.cursors
            /\ scan'.found = scan.found
            BY <1>2, <3>1 DEF TwitterRuns
      <3> QED BY <2>1, <2>3, <3>1, <3>2, <3>3
    <2> QED BY <1>4, <2>4, <2>5, <2>6, <2>7, <2>8
  <1>6. PICK posts \in SUBSET ListingOf(m) : scan'.found \in {scan.found, Owned(m, posts)}
        BY <1>5
  <1>7. /\ \A p \in Post : scan'.found[p] \in Model \cup {"none"}
        /\ DOMAIN scan'.found = Post
        /\ FoundPosts \subseteq FoundPosts' /\ FoundPosts' \subseteq 1..published
        /\ scan'.found = Owned(m, posts) => FoundPosts' = FoundPosts \cup posts
    <2>1. posts \subseteq 1..published /\ posts \subseteq Post
      <3>1. ListingOf(m) \subseteq shown
            BY DEF ListingOf
      <3>2. shown \subseteq 1..published /\ shown \subseteq Post
            BY PresenceAssumption DEF ProfileSound, PresenceTypeOK, Post
      <3> QED BY <1>6, <3>1, <3>2
    <2>2. /\ \A p \in Post : scan.found[p] \in Model \cup {"none"}
          /\ DOMAIN scan.found = Post /\ FoundPosts \subseteq 1..published
          BY <1>2 DEF TwitterOrderly
    <2>3. CASE scan'.found = scan.found
      <3>1. scan.found = Owned(m, posts) => FoundPosts = FoundPosts \cup posts
        <4> SUFFICES ASSUME scan.found = Owned(m, posts), NEW p \in posts PROVE p \in FoundPosts
            OBVIOUS
        <4>1. scan.found[p] = IF scan.found[p] = "none" THEN m ELSE scan.found[p]
              BY <2>1 DEF Owned
        <4> QED BY <1>3, <2>1, <4>1 DEF FoundPosts, Model
      <3> QED BY <2>2, <2>3, <3>1 DEF FoundPosts
    <2>4. CASE scan'.found = Owned(m, posts)
      <3>1. \A p \in Post : scan'.found[p] = IF p \in posts /\ scan.found[p] = "none" THEN m
                                             ELSE scan.found[p]
            BY <2>4 DEF Owned
      <3>2. DOMAIN scan'.found = Post
            BY <2>4 DEF Owned
      <3>3. FoundPosts' = FoundPosts \cup posts
            BY <1>3, <2>1, <3>1 DEF FoundPosts, Model
      <3> QED BY <1>3, <2>1, <2>2, <3>1, <3>2, <3>3
    <2> QED BY <1>6, <2>3, <2>4
  <1>8. ProfileSound' /\ SuspectsHaveLeft' /\ AtStake' = AtStake
    <2>1. held \subseteq 1..published /\ media \subseteq 1..published
          BY DEF ProfileSound, PresenceTypeOK
    <2> QED BY <1>1, <1>5, <2>1, UntouchedProfile DEF AtStake
  <1>9. TwitterOrderly'
    <2>1. scan.got \subseteq FoundPosts
          BY <1>2 DEF TwitterOrderly
    <2> QED BY <1>1, <1>5, <1>7, <2>1 DEF TwitterOrderly
  <1>10. TwitterSeen'
    <2> SUFFICES ASSUME Unmistaken', Unabridged', NEW n \in scan'.models \ scan'.todo, n # "likes"
                 PROVE  AtStake \subseteq FoundPosts' \cup left
        BY <1>1, <1>8 DEF TwitterSeen
    <2>1. /\ Unmistaken /\ scan.limit = "none"
          /\ scan'.todo = scan.todo \ {m} /\ scan'.found = Owned(m, ListingOf(m))
          BY <1>5 DEF Unabridged
    <2>2. Unabridged
          BY <1>5, <2>1 DEF Unabridged
    <2>3. CASE n # m
      <3>1. n \in scan.models \ scan.todo
            BY <1>5, <2>1, <2>3
      <3> QED BY <1>2, <1>7, <2>1, <2>2, <3>1 DEF TwitterSeen
    <2>4. CASE n = m
      <3>1. ListingOf(m) = shown
            BY <1>5, <2>2, <2>4 DEF ListingOf, Unabridged
      <3>2. FoundPosts' = FoundPosts \cup shown
        <4>1. shown \subseteq Post
              BY PresenceAssumption DEF ProfileSound, PresenceTypeOK, Post
        <4>2. \A p \in Post : scan'.found[p] = IF p \in shown /\ scan.found[p] = "none" THEN m
                                               ELSE scan.found[p]
              BY <2>1, <3>1 DEF Owned
        <4> QED BY <1>3, <4>1, <4>2 DEF FoundPosts, Model
      <3>3. AtStake \subseteq 1..published
            BY DEF AtStake, ProfileSound, PresenceTypeOK
      <3> QED BY <3>2, <3>3 DEF ProfileSound, HiddenHaveLeft
    <2> QED BY <2>3, <2>4
  <1>11. DeletedAreRecorded' /\ DeletedStaysDeleted'
        BY <1>1, <1>5 DEF DeletedAreRecorded, DeletedStaysDeleted
  <1> QED BY <1>5, <1>8, <1>9, <1>10, <1>11

LEMMA TwitterRedirects ==
    ASSUME TwitterInv, TwitterRedirect
    PROVE  TwitterInv'
  <1> USE DEF TwitterInv
  <1> DEFINE models == Phase(scan.backfill)
             asked == {p \in 1..scan.from : p \in Asked(scan.videos, models)}
             standing == [m \in models |-> NoCursor]
  <1>1. /\ published' = published /\ shown' = shown /\ ledger' = ledger /\ tombs' = tombs
        /\ left' = left /\ held' = held /\ media' = media /\ blame' = blame
        /\ scan.step = "list" /\ Happens
        /\ scan' = [scan EXCEPT !.redirected = TRUE, !.models = models, !.todo = models,
                                !.cursors = standing, !.cutoff = NoCutoff,
                                !.done = {}, !.newest = 0, !.errors = FALSE, !.span = asked]
        BY DEF TwitterRedirect
  <1>2. TwitterRuns /\ models \in SUBSET Model
        BY TwitterAssumption DEF TwitterRedirect, Phase, Model
  <1> HIDE DEF models, asked, standing
  <1>3. TwitterRuns'
        BY <1>1, <1>2, ZenonT(60) DEF TwitterRuns
  <1>4. /\ scan'.step = "list" /\ scan'.got = scan.got /\ scan'.found = scan.found
        /\ scan'.models = models /\ scan'.todo = models
        BY <1>1, <1>2 DEF TwitterRuns
  <1>5. ProfileSound' /\ SuspectsHaveLeft'
    <2>1. /\ held \subseteq 1..published /\ media \subseteq 1..published
          /\ trouble' \in 0..MaxTrouble
          BY <1>1, PresenceAssumption DEF Happens, ProfileSound, PresenceTypeOK
    <2> QED BY <1>1, <2>1, UntouchedProfile
  <1>6. TwitterOrderly'
        BY <1>1, <1>2, <1>4 DEF TwitterOrderly, FoundPosts
  <1>7. TwitterSeen'
        BY <1>4 DEF TwitterSeen
  <1> QED BY <1>1, <1>3, <1>5, <1>6, <1>7 DEF DeletedAreRecorded, DeletedStaysDeleted

\* What a download brings was found, and is not in the media ledger.
LEMMA FetchedWereFound ==
    ASSUME TwitterInv, TwitterRuns, NEW got \in SUBSET ToFetch
    PROVE  /\ got \subseteq FoundPosts /\ got \subseteq 1..published
           /\ got \cap media = {} /\ got \subseteq Post
  <1>1. ToFetch \subseteq FoundPosts \ media
        BY DEF ToFetch, Wanted, FoundPosts
  <1>2. FoundPosts \subseteq 1..published /\ FoundPosts \subseteq Post
        BY DEF TwitterInv, TwitterOrderly, FoundPosts
  <1> QED BY <1>1, <1>2

LEMMA TwitterFetches ==
    ASSUME TwitterInv, TwitterDownload \/ TwitterStop
    PROVE  TwitterInv'
  <1> USE DEF TwitterInv
  <1>1. /\ published' = published /\ shown' = shown /\ ledger' = ledger /\ tombs' = tombs
        /\ left' = left /\ media' = media /\ blame' = blame
        BY DEF TwitterDownload, TwitterStop
  <1>2. TwitterRuns
        BY DEF TwitterDownload, TwitterStop, Listed
  <1>3. PICK got \in SUBSET ToFetch :
            /\ held' = held \cup got
            /\ \/ scan' = Idle
               \/ /\ Listed
                  /\ scan' = [scan EXCEPT !.step = "posts", !.got = got,
                                          !.errors = @ \/ got # ToFetch]
    <2>1. CASE TwitterDownload
          BY <2>1 DEF TwitterDownload
    <2>2. CASE TwitterStop
      <3>1. PICK got \in SUBSET (IF Listed THEN ToFetch ELSE {}) : held' = held \cup got
            BY <2>2 DEF TwitterStop
      <3>2. got \in SUBSET ToFetch
            OBVIOUS
      <3> QED BY <2>2, <3>1, <3>2 DEF TwitterStop
    <2> QED BY <2>1, <2>2
  <1>4. trouble' \in 0..MaxTrouble
    <2>1. trouble' = trouble \/ Happens
          BY DEF TwitterDownload, TwitterStop
    <2> QED BY <2>1, PresenceAssumption DEF Happens, ProfileSound, PresenceTypeOK
  <1>5. /\ got \subseteq FoundPosts /\ got \subseteq 1..published
        /\ got \cap media = {} /\ got \subseteq Post
        BY <1>2, FetchedWereFound
  <1>6. ProfileSound' /\ SuspectsHaveLeft' /\ Known' = Known
    <2>1. held' \subseteq 1..published /\ media \subseteq 1..published
          BY <1>3, <1>5 DEF ProfileSound, PresenceTypeOK
    <2> QED BY <1>1, <1>4, <2>1, UntouchedProfile
  <1>7. DeletedAreRecorded' /\ DeletedStaysDeleted'
        BY <1>1, <1>3, <1>5 DEF DeletedAreRecorded, DeletedStaysDeleted
  <1>8. CASE scan' = Idle
    <2>1. NoScan' /\ ~TwitterRuns'
      <3>1. TwitterRuns' => scan'.step \in TwitterStep
            BY DEF TwitterRuns
      <3> QED BY <1>8, <3>1 DEF NoScan, Idle, TwitterStep
    <2> QED BY <1>6, <1>7, <2>1 DEF TwitterOrderly, TwitterSeen
  <1>9. CASE /\ Listed
             /\ scan' = [scan EXCEPT !.step = "posts", !.got = got, !.errors = @ \/ got # ToFetch]
    <2>1. TwitterRuns'
          BY <1>2, <1>5, <1>9, ZenonT(60) DEF TwitterRuns, TwitterStep
    <2>2. /\ scan'.step = "posts" /\ scan'.got = got /\ scan'.found = scan.found
          /\ scan'.models = scan.models /\ scan'.todo = scan.todo /\ scan'.limit = scan.limit
          /\ scan'.cutoff = scan.cutoff /\ scan'.cursors = scan.cursors
          /\ scan.step = "list" /\ scan.todo = {}
          BY <1>2, <1>9 DEF TwitterRuns, Listed
    <2>3. FoundPosts' = FoundPosts
          BY <2>2 DEF FoundPosts
    <2>4. TwitterOrderly'
          BY <1>1, <1>2, <1>5, <2>2, <2>3 DEF TwitterOrderly
    <2>5. TwitterSeen'
      <3>1. AtStake' \subseteq AtStake \cup FoundPosts
            BY <1>3, <1>5, <1>6 DEF AtStake
      <3> QED BY <1>1, <1>2, <2>2, <2>3, <3>1 DEF TwitterSeen, Unmistaken, Unabridged
    <2> QED BY <1>6, <1>7, <2>1, <2>4, <2>5
  <1> QED BY <1>3, <1>8, <1>9

LEMMA TwitterRecordsPosts ==
    ASSUME TwitterInv, TwitterRecordPosts
    PROVE  TwitterInv'
  <1> USE DEF TwitterInv
  <1> DEFINE q == TwitterQualification
             rs == Recorded(Complete, scan.found)
  <1>1. /\ published' = published /\ shown' = shown /\ held' = held /\ media' = media
        /\ tombs' = tombs /\ trouble' = trouble /\ blame \subseteq blame'
        /\ scan.step = "posts" /\ Presence(q, rs)
        /\ scan' = [scan EXCEPT !.step = "media"]
        BY DEF TwitterRecordPosts
  <1>2. TwitterRuns
        BY DEF TwitterRecordPosts
  <1>3. /\ \A p \in Post : scan.found[p] \in Model \cup {"none"}
        /\ DOMAIN scan.found = Post /\ FoundPosts \subseteq 1..published
        /\ scan.got \subseteq FoundPosts /\ scan.todo = {}
        BY <1>1, <1>2 DEF TwitterOrderly
  <1>4. /\ Complete \subseteq FoundPosts /\ Incomplete = FoundPosts \ Complete
        /\ Complete \subseteq Post /\ Complete \subseteq 1..published
        /\ \A p \in Complete : scan.found[p] \in Section
    <2>1. Complete \subseteq FoundPosts /\ Incomplete = FoundPosts \ Complete /\ Complete \subseteq Post
          BY DEF Complete, Incomplete, FoundPosts
    <2>2. Model \subseteq Section
          BY DEF Model, Section
    <2>3. \A p \in Complete : scan.found[p] \in Model
          BY <1>3 DEF Complete
    <2> QED BY <1>3, <2>1, <2>2, <2>3
  <1>5. RowsOf(rs) = Known \cup Complete
    <2>1. RowsTyped(ledger)
          BY DEF ProfileSound, PresenceTypeOK, RowsTyped, Rows
    <2> QED BY <1>4, <2>1, RecordedRows
  <1>6. Unmistaken' /\ Qualifies(q) => Judged(q, rs) \ q.observed \subseteq left
    <2> SUFFICES ASSUME Unmistaken', Qualifies(q), NEW p \in Judged(q, rs), p \notin q.observed
                 PROVE  p \in left
        OBVIOUS
    <2>1. Unmistaken
          BY <1>1 DEF Unmistaken
    <2>2. Unabridged /\ Incomplete = {} /\ p \notin Complete
          BY DEF Qualifies, TwitterQualification, Unabridged
    <2>3. PICK m \in scan.models : m # "likes"
          BY DEF Judged, TwitterQualification
    <2>4. p \in Known \cup Complete
          BY <1>5 DEF Judged, RowsOf
    <2>5. p \in AtStake
          BY <2>2, <2>4 DEF AtStake
    <2>6. AtStake \subseteq FoundPosts \cup left
          BY <1>1, <1>2, <1>3, <2>1, <2>2, <2>3 DEF TwitterSeen
    <2> QED BY <1>4, <2>2, <2>5, <2>6
  <1>7. ProfileSound' /\ SuspectsHaveLeft'
    <2>1. Complete \in SUBSET (1..published) /\ blame \subseteq blame'
          BY <1>1, <1>4
    <2> HIDE DEF q
    <2> QED BY <1>1, <1>4, <1>6, <2>1, RecordedProfile
  <1>8. /\ scan'.step = "media" /\ scan'.got = scan.got /\ scan'.found = scan.found
        /\ scan'.todo = {}
        BY <1>1, <1>2, <1>3 DEF TwitterRuns
  <1>9. TwitterRuns'
        BY <1>1, <1>2 DEF TwitterRuns, TwitterStep
  <1>10. TwitterOrderly' /\ TwitterSeen'
    <2>1. FoundPosts' = FoundPosts
          BY <1>8 DEF FoundPosts
    <2> QED BY <1>1, <1>3, <1>8, <2>1 DEF TwitterOrderly, TwitterSeen
  <1>11. DeletedAreRecorded' /\ DeletedStaysDeleted'
        BY <1>1 DEF DeletedAreRecorded, DeletedStaysDeleted
  <1> QED BY <1>7, <1>9, <1>10, <1>11

LEMMA TwitterCloses ==
    ASSUME TwitterInv, TwitterRecordMedia \/ TwitterEnd
    PROVE  TwitterInv'
  <1> USE DEF TwitterInv
  <1>1. /\ published' = published /\ shown' = shown /\ ledger' = ledger /\ tombs' = tombs
        /\ left' = left /\ held' = held /\ blame' = blame /\ trouble' = trouble
        BY DEF TwitterRecordMedia, TwitterEnd
  <1>2. TwitterRuns
        BY DEF TwitterRecordMedia, TwitterEnd
  <1>3. /\ \A p \in Post : scan.found[p] \in Model \cup {"none"}
        /\ DOMAIN scan.found = Post /\ FoundPosts \subseteq 1..published
        /\ scan.got \subseteq FoundPosts
        /\ scan.step # "list" => scan.todo = {}
        BY <1>2 DEF TwitterOrderly
  <1>4. media \subseteq media' /\ media' \subseteq 1..published
        BY <1>3 DEF TwitterRecordMedia, TwitterEnd, ProfileSound, PresenceTypeOK
  <1>5. ProfileSound' /\ SuspectsHaveLeft'
    <2>1. held \subseteq 1..published /\ trouble \in 0..MaxTrouble
          BY DEF ProfileSound, PresenceTypeOK
    <2> QED BY <1>1, <1>4, <2>1, UntouchedProfile
  <1>6. DeletedAreRecorded' /\ DeletedStaysDeleted'
        BY <1>1, <1>4 DEF DeletedAreRecorded, DeletedStaysDeleted
  <1>7. CASE TwitterEnd
    <2>1. scan' = Idle
          BY <1>7 DEF TwitterEnd
    <2>2. NoScan' /\ ~TwitterRuns'
      <3>1. TwitterRuns' => scan'.step \in TwitterStep
            BY DEF TwitterRuns
      <3> QED BY <2>1, <3>1 DEF NoScan, Idle, TwitterStep
    <2> QED BY <1>5, <1>6, <2>2 DEF TwitterOrderly, TwitterSeen
  <1>8. CASE TwitterRecordMedia
    <2>1. /\ scan.step = "media"
          /\ scan' \in {[scan EXCEPT !.step = "warning"], [scan EXCEPT !.step = "succeeded"]}
          BY <1>8 DEF TwitterRecordMedia
    <2>2. TwitterRuns'
          BY <1>2, <2>1 DEF TwitterRuns, TwitterStep
    <2>3. /\ scan'.step \in {"warning", "succeeded"} /\ scan'.got = scan.got
          /\ scan'.found = scan.found /\ scan'.todo = scan.todo
          BY <1>2, <2>1 DEF TwitterRuns
    <2>4. FoundPosts' = FoundPosts
          BY <2>3 DEF FoundPosts
    <2>5. TwitterOrderly' /\ TwitterSeen'
          BY <1>1, <1>3, <2>1, <2>3, <2>4 DEF TwitterOrderly, TwitterSeen
    <2> QED BY <1>5, <1>6, <2>2, <2>5
  <1> QED BY <1>7, <1>8

LEMMA TwitterInductive ==
    ASSUME TwitterInv, [TwitterNext]_<<profile_vars, twitter_vars>>
    PROVE  TwitterInv'
  <1>1. ASSUME NEW backfill \in BOOLEAN, TwitterStart(backfill)
        PROVE  TwitterInv'
        BY <1>1, TwitterStarts
  <1>2. CASE TwitterList
        BY <1>2, TwitterLists
  <1>3. CASE TwitterRedirect
        BY <1>3, TwitterRedirects
  <1>4. CASE TwitterDownload \/ TwitterStop
        BY <1>4, TwitterFetches
  <1>5. CASE TwitterRecordPosts
        BY <1>5, TwitterRecordsPosts
  <1>6. CASE TwitterRecordMedia \/ TwitterEnd
        BY <1>6, TwitterCloses
  <1>7. CASE \/ AuthorStep
             \/ TwitterToggle
             \/ \E v \in BOOLEAN : TwitterForget(v)
             \/ TwitterDelete
        BY <1>7, TwitterOutside
  <1>8. CASE UNCHANGED <<profile_vars, twitter_vars>>
    <2>1. /\ published' = published /\ shown' = shown /\ held' = held /\ media' = media
          /\ ledger' = ledger /\ tombs' = tombs /\ scan' = scan /\ left' = left
          /\ trouble' = trouble /\ blame' = blame
          BY <1>8 DEF profile_vars
    <2> QED BY <2>1
            DEF TwitterInv, ProfileSound, PresenceTypeOK, HiddenHaveLeft, Known, SuspectsHaveLeft,
                Suspected, Unmistaken, NoScan, TwitterRuns, TwitterOrderly, FoundPosts, TwitterSeen,
                Unabridged, AtStake, DeletedAreRecorded, DeletedStaysDeleted
  <1> QED BY <1>1, <1>2, <1>3, <1>4, <1>5, <1>6, <1>7, <1>8 DEF TwitterNext

LEMMA TwitterAlways == TwitterSpec => []TwitterInv
  <1>1. PresenceInit /\ TwitterInit => TwitterInv
        BY TwitterInitial
  <1>2. TwitterInv /\ [TwitterNext]_<<profile_vars, twitter_vars>> => TwitterInv'
        BY TwitterInductive
  <1> QED BY <1>1, <1>2, PTL DEF TwitterSpec

\* The same of a profile of Twitter, whatever models it enables: a scan that was
\* limited, resumed, incremental, redirected to a new handle or cut short by one
\* download that failed flags nobody who did not leave.
THEOREM TwitterFlagsTheGone == TwitterSpec => []FlaggedWasGone
  <1>1. TwitterInv => FlaggedWasGone
        BY FlaggedAreSuspected DEF TwitterInv
  <1> QED BY <1>1, TwitterAlways, PTL

\* Twitter's syncs go by the media ledger: what it names and the user deleted is
\* not fetched, whether he deletes it before a sync or beside one.
THEOREM TwitterDeletionsStand == TwitterSpec => []DeletedStaysDeleted
  <1>1. TwitterInv => DeletedStaysDeleted
        BY DEF TwitterInv
  <1> QED BY <1>1, TwitterAlways, PTL

-----------------------------------------------------------------------------
(***************************************************************************)
(* TikTok.                                                                 *)
(***************************************************************************)

TikTokStep == {"list", "fallback", "settle", "batch", "posts", "media", "warning", "succeeded"}

TikTokRuns ==
    scan \in [step : TikTokStep, from : {scan.from}, span : {scan.span}, keys : {scan.keys},
              deleted : {scan.deleted}, flawed : {scan.flawed}, history : {scan.history},
              hinted : {scan.hinted}, posts : SUBSET Post, limited : BOOLEAN,
              error : {scan.error}, resolved : BOOLEAN, queue : SUBSET Post,
              chosen : SUBSET Post, got : SUBSET Post, errors : BOOLEAN,
              aborted : {scan.aborted}, observed : SUBSET Post]

TikTokRecovers == scan \in [step : {"recover"}, from : {scan.from}, span : {scan.span}]

\* A sync fetches what it listed and what is not done; the deletions it knows are
\* done.  Nothing is listed before the listing.
TikTokOrderly ==
    TikTokRuns =>
        /\ scan.deleted \subseteq scan.keys
        /\ scan.posts \subseteq 1..published /\ scan.observed \subseteq scan.posts
        /\ scan.queue \subseteq scan.chosen /\ scan.got \subseteq scan.chosen
        /\ scan.chosen \subseteq scan.posts \ scan.keys
        /\ scan.step \in {"list", "fallback"} =>
              scan.posts = {} /\ ~scan.resolved /\ ~scan.limited
        /\ scan.step \in {"list", "fallback", "settle"} =>
              scan.chosen = {} /\ scan.observed = {}

\* From the choice on each listed post is chosen or observed, and what was chosen
\* came if the sync goes on without an error.
TikTokThorough ==
    TikTokRuns =>
        /\ scan.step \in {"batch", "posts"} =>
              /\ scan.chosen = scan.posts \ scan.keys
              /\ Refresh => scan.observed = scan.posts \cap scan.keys
        /\ scan.step = "posts" /\ ~scan.errors => scan.chosen \subseteq scan.got

\* Of a listing that stands, a post at stake was seen or has left.
Stands ==
    \/ scan.step \in {"batch", "posts"}
    \/ scan.step = "settle" /\ (scan.posts # {} \/ scan.resolved)
TikTokSeen ==
    TikTokRuns /\ Stands /\ Unmistaken /\ ~scan.limited => AtStake \subseteq scan.posts \cup left

TikTokInv ==
    /\ ProfileSound /\ (Refresh => SuspectsHaveLeft)
    /\ NoScan \/ TikTokRecovers \/ TikTokRuns
    /\ TikTokOrderly /\ TikTokThorough /\ TikTokSeen
    /\ DeletedStaysDeleted

LEMMA TikTokKinds ==
    /\ TikTokRuns => scan.step \in TikTokStep
    /\ TikTokRecovers => scan.step = "recover"
    /\ NoScan => scan.step = "idle"
    /\ TikTokRuns => ~NoScan /\ ~TikTokRecovers
    /\ TikTokRecovers => ~NoScan
  <1>1. TikTokRuns => scan.step \in TikTokStep
        BY DEF TikTokRuns
  <1>2. TikTokRecovers => scan.step = "recover"
        BY DEF TikTokRecovers
  <1>3. NoScan => scan.step = "idle"
        BY DEF NoScan, Idle
  <1>4. "idle" \notin TikTokStep /\ "recover" \notin TikTokStep
        BY DEF TikTokStep
  <1> QED BY <1>1, <1>2, <1>3, <1>4

LEMMA TikTokAfterwards ==
    /\ TikTokRuns' => scan'.step \in TikTokStep
    /\ scan' = Idle => NoScan' /\ ~TikTokRuns'
  <1>1. TikTokRuns' => scan'.step \in TikTokStep
        BY DEF TikTokRuns
  <1> QED BY <1>1 DEF NoScan, Idle, TikTokStep

\* A sync that is over, or has not listed anything, says nothing.
LEMMA TikTokVoid ==
    ASSUME TikTokInv, ProfileSound', Refresh => SuspectsHaveLeft', DeletedStaysDeleted',
           NoScan' \/ TikTokRecovers', ~TikTokRuns'
    PROVE  TikTokInv'
  BY DEF TikTokInv, TikTokOrderly, TikTokThorough, TikTokSeen

LEMMA TikTokInitial == PresenceInit => TikTokInv
  <1> SUFFICES ASSUME PresenceInit PROVE TikTokInv
      OBVIOUS
  <1>1. ProfileSound /\ SuspectsHaveLeft /\ NoScan
        BY ProfileInitial
  <1>2. ~TikTokRuns
        BY <1>1, TikTokKinds
  <1>3. tombs = {}
        BY DEF PresenceInit
  <1> QED BY <1>1, <1>2, <1>3
          DEF TikTokInv, TikTokOrderly, TikTokThorough, TikTokSeen, DeletedStaysDeleted

\* A step beside a TikTok sync.
LEMMA TikTokBeside ==
    ASSUME TikTokInv, ProfileSound', Refresh => SuspectsHaveLeft', Outside,
           blame \subseteq blame', tombs' \cap held' \subseteq tombs \cap held
    PROVE  TikTokInv'
  <1> USE DEF TikTokInv
  <1>1. /\ scan' = scan /\ AtStake' \subseteq AtStake /\ left \subseteq left'
        /\ 1..published \subseteq 1..published'
        BY PresenceAssumption DEF Outside, ProfileSound, PresenceTypeOK, AtStake
  <1>2. (NoScan' <=> NoScan) /\ (TikTokRuns' <=> TikTokRuns) /\ (TikTokRecovers' <=> TikTokRecovers)
        BY <1>1 DEF NoScan, TikTokRuns, TikTokRecovers
  <1>3. TikTokOrderly'
        BY <1>1, <1>2 DEF TikTokOrderly
  <1>4. TikTokThorough'
        BY <1>1, <1>2 DEF TikTokThorough
  <1>5. TikTokSeen'
        BY <1>1, <1>2 DEF TikTokSeen, Unmistaken, Stands
  <1>6. DeletedStaysDeleted'
        BY DEF DeletedStaysDeleted
  <1> QED BY <1>2, <1>3, <1>4, <1>5, <1>6

LEMMA TikTokOutside ==
    ASSUME TikTokInv,
           \/ AuthorStep
           \/ Rename
           \/ \E p \in Post : TikTokDelete(p)
    PROVE  TikTokInv'
  <1>1. CASE AuthorStep
    <2>1. /\ ProfileSound' /\ (SuspectsHaveLeft => SuspectsHaveLeft') /\ Outside
          /\ held' = held /\ tombs' = tombs /\ blame' = blame
          BY <1>1, AuthorOutside DEF TikTokInv
    <2> QED BY <2>1, TikTokBeside DEF TikTokInv
  <1>2. CASE Rename
    <2>1. /\ published' = published /\ shown' = shown /\ held' = held /\ media' = media
          /\ ledger' = ledger /\ tombs' = tombs /\ scan' = scan /\ left' = left /\ blame' = blame
          /\ trouble' \in 0..MaxTrouble
          BY <1>2, PresenceAssumption
          DEF Rename, Happens, TikTokInv, ProfileSound, PresenceTypeOK
    <2>2. held \subseteq 1..published /\ media \subseteq 1..published /\ published \in Nat
          BY PresenceAssumption DEF TikTokInv, ProfileSound, PresenceTypeOK
    <2>3. ProfileSound' /\ (SuspectsHaveLeft => SuspectsHaveLeft') /\ Known' = Known
          BY <2>1, <2>2, UntouchedProfile DEF TikTokInv
    <2>4. Outside
          BY <2>1, <2>2, <2>3 DEF Outside, AtStake
    <2> QED BY <2>1, <2>3, <2>4, TikTokBeside DEF TikTokInv
  <1>3. ASSUME NEW p \in Post, TikTokDelete(p)
        PROVE  TikTokInv'
    <2>1. DeleteMedium(p, "timeline") /\ blame' = blame
          BY <1>3 DEF TikTokDelete
    <2>2. /\ ProfileSound' /\ (SuspectsHaveLeft => SuspectsHaveLeft') /\ Outside
          /\ held' = held \ {p} /\ tombs' = tombs \cup {p}
      <3>1. "timeline" \in Section
            BY DEF Section
      <3> QED BY <2>1, <3>1, DeletionOutside DEF TikTokInv
    <2> QED BY <2>1, <2>2, TikTokBeside DEF TikTokInv
  <1> QED BY <1>1, <1>2, <1>3

\* A file that goes by itself.
LEMMA TikTokVanishes ==
    ASSUME TikTokInv, NEW p \in Post, Vanish(p)
    PROVE  TikTokInv'
  <1> USE DEF TikTokInv
  <1>1. /\ published' = published /\ shown' = shown /\ ledger' = ledger /\ tombs' = tombs
        /\ left' = left /\ media' = media /\ blame' = blame /\ held' = held \ {p} /\ Happens
        /\ \/ scan' = scan
           \/ ~NoScan /\ scan' = [scan EXCEPT !.span = @ \ {p}]
        BY DEF Vanish
  <1>2. ProfileSound' /\ (SuspectsHaveLeft => SuspectsHaveLeft') /\ Known' = Known
    <2>1. /\ held' \subseteq 1..published /\ media \subseteq 1..published
          /\ trouble' \in 0..MaxTrouble
          BY <1>1, PresenceAssumption DEF Happens, ProfileSound, PresenceTypeOK
    <2> QED BY <1>1, <2>1, UntouchedProfile
  <1>3. AtStake' \subseteq AtStake /\ DeletedStaysDeleted'
        BY <1>1, <1>2 DEF AtStake, DeletedStaysDeleted
  <1>4. CASE NoScan
    <2>1. scan' = Idle
          BY <1>1, <1>4 DEF NoScan
    <2> QED BY <1>2, <1>3, <2>1, TikTokAfterwards, TikTokVoid
  <1>5. CASE TikTokRecovers
    <2>1. TikTokRecovers'
          BY <1>1, <1>5 DEF TikTokRecovers
    <2>2. ~TikTokRuns'
      <3>1. scan'.step = "recover"
            BY <2>1 DEF TikTokRecovers
      <3> QED BY <3>1, TikTokAfterwards DEF TikTokStep
    <2> QED BY <1>2, <1>3, <2>1, <2>2, TikTokVoid
  <1>6. CASE TikTokRuns
    <2>1. TikTokRuns'
          BY <1>1, <1>6 DEF TikTokRuns
    <2>2. /\ scan'.step = scan.step /\ scan'.keys = scan.keys /\ scan'.deleted = scan.deleted
          /\ scan'.posts = scan.posts /\ scan'.observed = scan.observed
          /\ scan'.queue = scan.queue /\ scan'.chosen = scan.chosen /\ scan'.got = scan.got
          /\ scan'.resolved = scan.resolved /\ scan'.limited = scan.limited
          /\ scan'.errors = scan.errors
          BY <1>1, <1>6 DEF TikTokRuns
    <2>3. TikTokOrderly'
          BY <1>1, <1>6, <2>2 DEF TikTokOrderly
    <2>4. TikTokThorough'
          BY <1>6, <2>2 DEF TikTokThorough
    <2>5. TikTokSeen'
          BY <1>1, <1>3, <1>6, <2>2 DEF TikTokSeen, Unmistaken, Stands
    <2> QED BY <1>2, <1>3, <2>1, <2>3, <2>4, <2>5
  <1> QED BY <1>4, <1>5, <1>6

LEMMA TikTokStarts ==
    ASSUME TikTokInv, TikTokStart
    PROVE  TikTokInv'
  <1> USE DEF TikTokInv
  <1>1. /\ published' = published /\ shown' = shown /\ held' = held /\ tombs' = tombs
        /\ left' = left /\ blame' = blame /\ trouble' = trouble
        /\ media' = media \cap held
        /\ ledger' = [p \in Post |-> IF p \in held THEN ledger[p] ELSE NoRow]
        /\ scan' = [step |-> "recover", from |-> published, span |-> 1..published]
        BY DEF TikTokStart, PurgeMissing
  <1>2. TikTokRecovers' /\ ~TikTokRuns'
    <2>1. TikTokRecovers' /\ scan'.step = "recover"
          BY <1>1 DEF TikTokRecovers
    <2> QED BY <2>1, TikTokAfterwards DEF TikTokStep
  <1>3. /\ \A p \in Post : ledger'[p] \in {ledger[p], NoRow}
        /\ Known' \subseteq Known /\ Suspected(ledger') \subseteq Suspected(ledger)
        BY <1>1 DEF Known, Suspected
  <1>4. ProfileSound'
        BY <1>1, <1>3 DEF ProfileSound, PresenceTypeOK, HiddenHaveLeft
  <1>5. SuspectsHaveLeft => SuspectsHaveLeft'
        BY <1>1, <1>3 DEF SuspectsHaveLeft, Unmistaken
  <1>6. DeletedStaysDeleted'
        BY <1>1 DEF DeletedStaysDeleted
  <1> QED BY <1>2, <1>4, <1>5, <1>6, TikTokVoid

LEMMA TikTokReconciles ==
    ASSUME TikTokInv, TikTokRecover
    PROVE  TikTokInv'
  <1> USE DEF TikTokInv
  <1> DEFINE rs == Recorded(held, Timeline)
             keys == DoneKeys(rs)
             some == held \cup keys # {}
  <1>1. /\ published' = published /\ shown' = shown /\ held' = held /\ tombs' = tombs
        /\ left' = left /\ blame' = blame /\ trouble' = trouble
        /\ ledger' = rs /\ media' = held
        BY DEF TikTokRecover
  <1>2. scan' = [step |-> "list", from |-> scan.from, span |-> scan.span,
                 keys |-> keys, deleted |-> tombs, flawed |-> flawed,
                 history |-> some,
                 hinted |-> hint, posts |-> {}, limited |-> FALSE, error |-> "none",
                 resolved |-> FALSE, queue |-> {}, chosen |-> {}, got |-> {},
                 errors |-> FALSE, aborted |-> FALSE, observed |-> {}]
        BY DEF TikTokRecover
  <1>3. tombs \subseteq keys
        BY DEF DoneKeys
  <1>4. /\ RowsTyped(rs) /\ RowsOf(rs) = Known \cup held
        /\ Suspected(rs) \subseteq Suspected(ledger)
    <2>1. /\ RowsTyped(ledger) /\ held \in SUBSET Post
          /\ \A p \in held : Timeline[p] \in Section
          BY PresenceAssumption DEF ProfileSound, PresenceTypeOK, RowsTyped, Rows, Post,
                                    Timeline, Section
    <2> QED BY <2>1, RecordedRows
  <1> HIDE DEF rs, keys, some
  <1>5. Known' = Known \cup held
        BY <1>1, <1>4 DEF Known, RowsOf
  <1>6. ProfileSound'
        BY <1>1, <1>4, <1>5 DEF ProfileSound, PresenceTypeOK, HiddenHaveLeft, RowsTyped, Rows
  <1>7. SuspectsHaveLeft => SuspectsHaveLeft'
        BY <1>1, <1>4 DEF SuspectsHaveLeft, Unmistaken
  <1>8. TikTokRuns'
        BY <1>2 DEF TikTokRuns, TikTokStep
  <1>9. TikTokOrderly' /\ TikTokThorough' /\ TikTokSeen'
        BY <1>2, <1>3 DEF TikTokOrderly, TikTokThorough, TikTokSeen, Stands
  <1>10. DeletedStaysDeleted'
        BY <1>1 DEF DeletedStaysDeleted
  <1> QED BY <1>6, <1>7, <1>8, <1>9, <1>10

\* A step of a TikTok sync that touches none of the profile.
LEMMA TikTokAside ==
    ASSUME TikTokInv, published' = published, shown' = shown, ledger' = ledger, tombs' = tombs,
           left' = left, held' = held, media' = media, blame \subseteq blame',
           trouble' = trouble \/ Happens
    PROVE  /\ ProfileSound' /\ (Refresh => SuspectsHaveLeft') /\ AtStake' = AtStake
           /\ DeletedStaysDeleted'
  <1>1. /\ held \subseteq 1..published /\ media \subseteq 1..published
        /\ trouble' \in 0..MaxTrouble
        BY PresenceAssumption DEF TikTokInv, Happens, ProfileSound, PresenceTypeOK
  <1>2. ProfileSound' /\ (SuspectsHaveLeft => SuspectsHaveLeft') /\ Known' = Known
        BY <1>1, UntouchedProfile DEF TikTokInv
  <1> QED BY <1>2 DEF TikTokInv, AtStake, DeletedStaysDeleted

\* What a listing, with the fallback or without, may come to.
TikTokOutcome ==
    /\ TikTokRuns'
    /\ scan'.step \in {"settle", "fallback"} /\ scan'.posts \subseteq shown
    /\ scan'.keys = scan.keys /\ scan'.deleted = scan.deleted /\ scan'.queue = scan.queue
    /\ scan'.chosen = scan.chosen /\ scan'.got = scan.got /\ scan'.observed = scan.observed
    /\ scan'.step = "fallback" => scan'.posts = {} /\ ~scan'.resolved /\ ~scan'.limited
    /\ \/ scan'.posts = shown
       \/ scan'.limited
       \/ ~Unmistaken'
       \/ scan'.posts = {} /\ ~scan'.resolved

LEMMA TikTokListed ==
    ASSUME TikTokInv, TikTokRuns, scan.step \in {"list", "fallback"}, TikTokOutcome,
           published' = published, shown' = shown, ledger' = ledger, tombs' = tombs,
           left' = left, held' = held, media' = media, blame \subseteq blame',
           trouble' = trouble \/ Happens
    PROVE  TikTokInv'
  <1>1. /\ ProfileSound' /\ (Refresh => SuspectsHaveLeft') /\ AtStake' = AtStake
        /\ DeletedStaysDeleted'
        BY TikTokAside
  <1>2. /\ scan.deleted \subseteq scan.keys /\ scan.chosen = {} /\ scan.observed = {}
        /\ scan.queue = {} /\ scan.got = {}
        BY DEF TikTokInv, TikTokOrderly
  <1>3. shown \subseteq 1..published
        BY DEF TikTokInv, ProfileSound, PresenceTypeOK
  <1>4. TikTokOrderly'
        BY <1>2, <1>3 DEF TikTokOutcome, TikTokOrderly
  <1>5. TikTokThorough'
        BY DEF TikTokOutcome, TikTokThorough
  <1>6. TikTokSeen'
    <2> SUFFICES ASSUME Stands', Unmistaken', ~scan'.limited
                 PROVE  AtStake \subseteq scan'.posts \cup left
        BY <1>1 DEF TikTokSeen
    <2>1. scan'.posts = shown
          BY DEF TikTokOutcome, Stands
    <2>2. AtStake \subseteq 1..published
          BY DEF AtStake, TikTokInv, ProfileSound, PresenceTypeOK
    <2> QED BY <2>1, <2>2 DEF TikTokInv, ProfileSound, HiddenHaveLeft
  <1> QED BY <1>1, <1>4, <1>5, <1>6 DEF TikTokInv, TikTokOutcome

\* A listing that ends with an error, and without a post.
LEMMA TikTokRefused ==
    ASSUME TikTokInv, TikTokRuns, scan.step \in {"list", "fallback"},
           NEW error, NEW step \in {"settle", "fallback"},
           scan' = [scan EXCEPT !.step = step, !.error = error],
           published' = published, shown' = shown, ledger' = ledger, tombs' = tombs,
           left' = left, held' = held, media' = media, blame' = blame,
           trouble' = trouble \/ Happens
    PROVE  TikTokInv'
  <1>1. scan.posts = {} /\ ~scan.resolved /\ ~scan.limited
        BY DEF TikTokInv, TikTokOrderly
  <1>2. TikTokRuns'
        BY DEF TikTokRuns, TikTokStep
  <1>3. /\ scan'.step = step /\ scan'.posts = {} /\ scan'.keys = scan.keys
        /\ scan'.deleted = scan.deleted /\ scan'.queue = scan.queue
        /\ scan'.chosen = scan.chosen /\ scan'.got = scan.got
        /\ scan'.observed = scan.observed
        /\ scan'.resolved = scan.resolved /\ scan'.limited = scan.limited
        BY <1>1 DEF TikTokRuns
  <1>4. TikTokOutcome
        BY <1>1, <1>2, <1>3 DEF TikTokOutcome
  <1>5. blame \subseteq blame'
        OBVIOUS
  <1> QED BY <1>4, <1>5, TikTokListed

LEMMA TikTokLists ==
    ASSUME TikTokInv, TikTokList
    PROVE  TikTokInv'
  <1>1. /\ published' = published /\ shown' = shown /\ ledger' = ledger /\ tombs' = tombs
        /\ left' = left /\ held' = held /\ media' = media /\ scan.step = "list"
        BY DEF TikTokList
  <1>2. TikTokRuns
        BY <1>1, TikTokKinds DEF TikTokList, TikTokInv
  <1>3. scan.posts = {} /\ ~scan.resolved /\ ~scan.limited
        BY <1>1, <1>2 DEF TikTokInv, TikTokOrderly
  <1>4. shown \subseteq Post
        BY PresenceAssumption DEF TikTokInv, ProfileSound, PresenceTypeOK, Post
  <1>5. CASE /\ scan' = [scan EXCEPT !.step = "settle", !.posts = shown]
             /\ trouble' = trouble /\ blame' = blame
    <2>1. TikTokOutcome
      <3>1. TikTokRuns'
            BY <1>2, <1>4, <1>5 DEF TikTokRuns, TikTokStep
      <3> QED BY <1>2, <1>5, <3>1 DEF TikTokOutcome, TikTokRuns
    <2> QED BY <1>1, <1>2, <1>5, <2>1, TikTokListed
  <1>6. CASE /\ \E posts \in SUBSET shown :
                  scan' = [scan EXCEPT !.step = "settle", !.posts = posts, !.limited = TRUE]
             /\ Happens
             /\ blame' = blame \cup {"limited"}
    <2>1. PICK posts \in SUBSET shown :
              scan' = [scan EXCEPT !.step = "settle", !.posts = posts, !.limited = TRUE]
          BY <1>6
    <2>2. TikTokOutcome
      <3>1. TikTokRuns'
            BY <1>2, <1>4, <2>1, ZenonT(60) DEF TikTokRuns, TikTokStep
      <3> QED BY <1>2, <2>1, <3>1 DEF TikTokOutcome, TikTokRuns
    <2>3. blame \subseteq blame' /\ Happens
          BY <1>6
    <2> QED BY <1>1, <1>2, <2>2, <2>3, TikTokListed
  <1>7. CASE /\ \E posts \in (SUBSET shown) \ {shown} :
                  /\ scan' = [scan EXCEPT !.step = "settle", !.posts = posts]
                  /\ blame' = IF posts = {} THEN blame ELSE blame \cup {"short"}
             /\ Happens
    <2>1. PICK posts \in SUBSET shown :
              /\ scan' = [scan EXCEPT !.step = "settle", !.posts = posts]
              /\ blame' = IF posts = {} THEN blame ELSE blame \cup {"short"}
          BY <1>7
    <2>2. TikTokOutcome
      <3>1. TikTokRuns'
            BY <1>2, <1>4, <2>1 DEF TikTokRuns, TikTokStep
      <3>2. posts = {} \/ ~Unmistaken'
            BY <2>1 DEF Unmistaken
      <3>3. /\ scan'.step = "settle" /\ scan'.posts = posts /\ scan'.keys = scan.keys
            /\ scan'.deleted = scan.deleted /\ scan'.queue = scan.queue
            /\ scan'.chosen = scan.chosen /\ scan'.got = scan.got
            /\ scan'.observed = scan.observed /\ scan'.resolved = scan.resolved
            BY <1>2, <2>1 DEF TikTokRuns
      <3> QED BY <1>3, <3>1, <3>2, <3>3 DEF TikTokOutcome
    <2>3. blame \subseteq blame' /\ Happens
          BY <1>7, <2>1
    <2> QED BY <1>1, <1>2, <2>2, <2>3, TikTokListed
  <1>8. CASE /\ \E error \in {"secuid", "other"} :
                  scan' = [scan EXCEPT !.step = IF error = "secuid" \/ scan.hinted
                                                THEN "fallback" ELSE "settle",
                                       !.error = error]
             /\ IF renamed /\ ~scan.hinted THEN UNCHANGED trouble ELSE Happens
             /\ UNCHANGED blame
    <2>1. PICK error \in {"secuid", "other"} :
                  scan' = [scan EXCEPT !.step = IF error = "secuid" \/ scan.hinted
                                                THEN "fallback" ELSE "settle",
                                       !.error = error]
          BY <1>8
    <2> DEFINE step == IF error = "secuid" \/ scan.hinted THEN "fallback" ELSE "settle"
    <2>2. step \in {"settle", "fallback"} /\ scan' = [scan EXCEPT !.step = step, !.error = error]
          BY <2>1
    <2> HIDE DEF step
    <2>3. trouble' = trouble \/ Happens
          BY <1>8
    <2> QED BY <1>1, <1>2, <1>8, <2>2, <2>3, TikTokRefused
  <1> QED BY <1>5, <1>6, <1>7, <1>8 DEF TikTokList

LEMMA TikTokFallsBack ==
    ASSUME TikTokInv, TikTokFallback
    PROVE  TikTokInv'
  <1>1. /\ published' = published /\ shown' = shown /\ ledger' = ledger /\ tombs' = tombs
        /\ left' = left /\ held' = held /\ media' = media /\ scan.step = "fallback"
        BY DEF TikTokFallback
  <1>2. TikTokRuns
        BY <1>1, TikTokKinds DEF TikTokFallback, TikTokInv
  <1>3. shown \subseteq Post
        BY PresenceAssumption DEF TikTokInv, ProfileSound, PresenceTypeOK, Post
  <1>4. CASE ListAgain
    <2>1. PICK posts \in SUBSET shown :
              /\ scan' = [scan EXCEPT !.step = "settle", !.posts = posts, !.resolved = TRUE,
                                      !.error = "none"]
              /\ IF posts = shown THEN UNCHANGED <<trouble, blame>>
                 ELSE Happens /\ blame' = blame \cup {"short"}
          BY <1>4 DEF ListAgain
    <2>2. TikTokOutcome
      <3>1. TikTokRuns'
            BY <1>2, <1>3, <2>1, ZenonT(60) DEF TikTokRuns, TikTokStep
      <3>2. posts = shown \/ ~Unmistaken'
            BY <2>1 DEF Unmistaken
      <3>3. /\ scan'.step = "settle" /\ scan'.posts = posts /\ scan'.keys = scan.keys
            /\ scan'.deleted = scan.deleted /\ scan'.queue = scan.queue
            /\ scan'.chosen = scan.chosen /\ scan'.got = scan.got
            /\ scan'.observed = scan.observed
            BY <1>2, <2>1 DEF TikTokRuns
      <3> QED BY <3>1, <3>2, <3>3 DEF TikTokOutcome
    <2>3. blame \subseteq blame' /\ (trouble' = trouble \/ Happens)
          BY <2>1
    <2> QED BY <1>1, <1>2, <2>2, <2>3, TikTokListed
  <1>5. CASE /\ scan' \in {[scan EXCEPT !.step = "settle", !.error = error] : error \in {"gone", "other"}}
             /\ trouble' = trouble \/ Happens
             /\ blame' = blame
    <2>1. PICK error \in {"gone", "other"} : scan' = [scan EXCEPT !.step = "settle", !.error = error]
          BY <1>5
    <2> QED BY <1>1, <1>2, <1>5, <2>1, TikTokRefused
  <1> QED BY <1>4, <1>5 DEF TikTokFallback

LEMMA TikTokSettles ==
    ASSUME TikTokInv, TikTokSettle
    PROVE  TikTokInv'
  <1> USE DEF TikTokInv
  <1>1. /\ published' = published /\ shown' = shown /\ ledger' = ledger /\ tombs' = tombs
        /\ left' = left /\ held' = held /\ media' = media /\ trouble' = trouble
        /\ scan.step = "settle"
        BY DEF TikTokSettle
  <1>2. TikTokRuns
        BY <1>1, TikTokKinds DEF TikTokSettle
  <1>3. \/ scan' = Idle /\ blame' = blame
        \/ /\ TikTokSelect
           /\ blame \subseteq blame'
           /\ ListedNothing /\ ~scan.resolved => shown = {} \/ ~Unmistaken'
    <2>1. CASE ListedNothing /\ ~scan.resolved
      <3>1. PICK probe \in {"public", "private", "gone", "unclear"} :
              IF scan.error = "none" /\ LegitimatelyEmpty(probe)
              THEN /\ TikTokSelect
                   /\ blame' = IF shown # {} /\ (probe = "private" \/ ~scan.history)
                               THEN blame \cup {"short"} ELSE blame
              ELSE TikTokBlocked
            BY <2>1 DEF TikTokSettle
      <3>2. CASE ~(scan.error = "none" /\ LegitimatelyEmpty(probe))
            BY <3>1, <3>2 DEF TikTokBlocked
      <3>3. CASE scan.error = "none" /\ LegitimatelyEmpty(probe)
        <4>1. probe = "private" \/ ~scan.history
              BY <3>3 DEF LegitimatelyEmpty
        <4>2. TikTokSelect /\ blame' = IF shown # {} THEN blame \cup {"short"} ELSE blame
              BY <3>1, <3>3, <4>1
        <4> QED BY <4>2 DEF Unmistaken
      <3> QED BY <3>2, <3>3
    <2>2. CASE ~(ListedNothing /\ ~scan.resolved)
          BY <2>2 DEF TikTokSettle
    <2> QED BY <2>1, <2>2
  <1>4. blame \subseteq blame'
        BY <1>3
  <1>5. /\ ProfileSound' /\ (Refresh => SuspectsHaveLeft') /\ AtStake' = AtStake
        /\ DeletedStaysDeleted'
        BY <1>1, <1>4, TikTokAside
  <1>6. CASE scan' = Idle
        BY <1>5, <1>6, TikTokAfterwards, TikTokVoid
  <1>7. CASE TikTokSelect /\ (ListedNothing /\ ~scan.resolved => shown = {} \/ ~Unmistaken')
    <2>1. scan' = [scan EXCEPT !.step = "batch",
                               !.queue = scan.posts \ scan.keys,
                               !.chosen = scan.posts \ scan.keys,
                               !.observed = IF Refresh THEN scan.posts \cap scan.keys ELSE {}]
          BY <1>7 DEF TikTokSelect
    <2>2. TikTokRuns'
          BY <1>2, <2>1, ZenonT(60) DEF TikTokRuns, TikTokStep
    <2>3. /\ scan'.step = "batch" /\ scan'.queue = scan.posts \ scan.keys
          /\ scan'.chosen = scan.posts \ scan.keys
          /\ scan'.observed = IF Refresh THEN scan.posts \cap scan.keys ELSE {}
          /\ scan'.keys = scan.keys /\ scan'.deleted = scan.deleted
          /\ scan'.posts = scan.posts /\ scan'.got = scan.got /\ scan'.limited = scan.limited
          BY <1>2, <2>1 DEF TikTokRuns
    <2>4. TikTokOrderly'
      <3>1. scan.got = {} /\ scan.deleted \subseteq scan.keys /\ scan.posts \subseteq 1..published
            BY <1>1, <1>2 DEF TikTokOrderly
      <3> QED BY <1>1, <2>3, <3>1 DEF TikTokOrderly
    <2>5. TikTokThorough'
          BY <2>3 DEF TikTokThorough
    <2>6. TikTokSeen'
      <3> SUFFICES ASSUME Unmistaken', ~scan.limited PROVE AtStake \subseteq scan.posts \cup left
          BY <1>1, <1>5, <2>3 DEF TikTokSeen
      <3>1. Unmistaken
            BY <1>4 DEF Unmistaken
      <3>2. CASE Stands
            BY <1>2, <3>1, <3>2 DEF TikTokSeen
      <3>3. CASE ~Stands
        <4>1. shown = {}
              BY <1>1, <1>7, <3>3 DEF Stands, ListedNothing
        <4>2. AtStake \subseteq 1..published
              BY DEF AtStake, ProfileSound, PresenceTypeOK
        <4> QED BY <4>1, <4>2 DEF ProfileSound, HiddenHaveLeft
      <3> QED BY <3>2, <3>3
    <2> QED BY <1>5, <2>2, <2>4, <2>5, <2>6
  <1> QED BY <1>3, <1>6, <1>7

\* What arrives was listed and is not done; nothing of it was deleted, but for what
\* the user deletes meanwhile.
LEMMA TikTokArrives ==
    ASSUME TikTokInv, TikTokRuns, scan.step = "batch", NEW got \in SUBSET scan.chosen,
           Arrive(got), published' = published, shown' = shown, media' = media,
           ledger' = ledger, tombs' = tombs, left' = left, trouble' = trouble \/ Happens,
           TikTokRuns', scan'.step \in {"batch", "posts"},
           scan'.keys = scan.keys, scan'.deleted = scan.deleted, scan'.posts = scan.posts,
           scan'.chosen = scan.chosen, scan'.observed = scan.observed,
           scan'.queue \subseteq scan.queue, scan'.got = scan.got \cup got,
           scan.limited => scan'.limited,
           scan'.step = "posts" /\ ~scan'.errors => scan.chosen \subseteq scan'.got
    PROVE  TikTokInv'
  <1> USE DEF TikTokInv
  <1>1. /\ scan.deleted \subseteq scan.keys /\ scan.posts \subseteq 1..published
        /\ scan.observed \subseteq scan.posts /\ scan.queue \subseteq scan.chosen
        /\ scan.got \subseteq scan.chosen /\ scan.chosen \subseteq scan.posts \ scan.keys
        BY DEF TikTokOrderly
  <1>2. PICK bad \in SUBSET got :
              /\ flawed' = flawed \cup bad
              /\ blame' = IF got \cap tombs \subseteq scan.deleted THEN blame
                           ELSE blame \cup {"overtaken"}
        BY DEF Arrive
  <1>3. held' = held \cup got
        BY DEF Arrive
  <1>4. blame \subseteq blame' /\ (Unmistaken' <=> Unmistaken)
        BY <1>2 DEF Unmistaken
  <1>5. "overtaken" \notin blame' => got \cap tombs = {}
        BY <1>1, <1>2
  <1>6. ProfileSound' /\ (SuspectsHaveLeft => SuspectsHaveLeft') /\ Known' = Known
    <2>1. held \subseteq 1..published /\ media \subseteq 1..published
          BY DEF ProfileSound, PresenceTypeOK
    <2>2. held' \subseteq 1..published
          BY <1>1, <1>3, <2>1
    <2>3. trouble' \in 0..MaxTrouble
          BY PresenceAssumption DEF Happens, ProfileSound, PresenceTypeOK
    <2> QED BY <1>4, <2>1, <2>2, <2>3, UntouchedProfile
  <1>7. TikTokOrderly'
        BY <1>1 DEF TikTokOrderly
  <1>8. TikTokThorough'
        BY DEF TikTokThorough
  <1>9. TikTokSeen'
    <2> SUFFICES ASSUME Unmistaken, ~scan.limited PROVE AtStake' \subseteq scan.posts \cup left
        BY <1>4 DEF TikTokSeen
    <2>1. AtStake \subseteq scan.posts \cup left
          BY DEF TikTokSeen, Stands
    <2>2. AtStake' = AtStake \cup got
          BY <1>3, <1>6 DEF AtStake
    <2> QED BY <1>1, <2>1, <2>2
  <1>10. DeletedStaysDeleted'
        BY <1>3, <1>2, <1>5 DEF DeletedStaysDeleted
  <1> QED BY <1>6, <1>7, <1>8, <1>9, <1>10

LEMMA TikTokFetches ==
    ASSUME TikTokInv, TikTokBatch \/ TikTokRetry
    PROVE  TikTokInv'
  <1>1. /\ published' = published /\ shown' = shown /\ media' = media /\ ledger' = ledger
        /\ tombs' = tombs /\ left' = left /\ scan.step = "batch" /\ ~NoScan
        BY DEF TikTokBatch, TikTokRetry
  <1>2. TikTokRuns
        BY <1>1, TikTokKinds DEF TikTokInv
  <1>3. scan.queue \subseteq scan.chosen /\ scan.chosen \in SUBSET Post
        BY <1>2 DEF TikTokInv, TikTokOrderly, TikTokRuns
  <1>4. CASE TikTokBatch
    <2>1. PICK got \in SUBSET Batch, limited \in BOOLEAN, failed \in BOOLEAN :
              /\ Arrive(got)
              /\ LET rest == scan.queue \ Batch
                     gives_up == limited /\ rest # {}
                 IN  scan' = [scan EXCEPT !.queue = IF gives_up THEN {} ELSE rest,
                                          !.got = @ \cup got,
                                          !.limited = @ \/ limited,
                                          !.aborted = gives_up,
                                          !.errors = @ \/ failed \/ gives_up]
              /\ IF got = Batch /\ ~limited /\ ~failed THEN UNCHANGED trouble ELSE Happens
          BY <1>4, Zenon DEF TikTokBatch
    <2>2. Batch \subseteq scan.queue
          BY DEF Batch, Chunk
    <2> DEFINE rest == scan.queue \ Batch
               gives_up == limited /\ rest # {}
               queue == IF gives_up THEN {} ELSE rest
               now_limited == scan.limited \/ limited
               errors == scan.errors \/ failed \/ gives_up
    <2>3. scan' = [scan EXCEPT !.queue = queue, !.got = scan.got \cup got,
                               !.limited = now_limited, !.aborted = gives_up, !.errors = errors]
          BY <1>2, <2>1 DEF TikTokRuns
    <2>4. /\ queue \subseteq scan.queue /\ now_limited \in BOOLEAN /\ errors \in BOOLEAN
          /\ scan.limited => now_limited
          OBVIOUS
    <2> HIDE DEF queue, now_limited, errors, gives_up
    <2>5. got \in SUBSET scan.chosen
          BY <1>3, <2>2
    <2>6. TikTokRuns'
          BY <1>2, <1>3, <2>3, <2>4, <2>5, ZenonT(60) DEF TikTokRuns
    <2>7. /\ scan'.step = "batch" /\ scan'.keys = scan.keys /\ scan'.deleted = scan.deleted
          /\ scan'.posts = scan.posts /\ scan'.chosen = scan.chosen
          /\ scan'.observed = scan.observed /\ scan'.queue = queue
          /\ scan'.got = scan.got \cup got /\ scan'.limited = now_limited
          BY <1>1, <1>2, <2>3 DEF TikTokRuns
    <2>8. trouble' = trouble \/ Happens
          BY <2>1
    <2>9. Arrive(got)
          BY <2>1
    <2> QED BY <1>1, <1>2, <2>4, <2>5, <2>6, <2>7, <2>8, <2>9, TikTokArrives
  <1>5. CASE TikTokRetry
    <2>1. PICK got \in SUBSET (IF scan.aborted THEN {} ELSE scan.chosen \ scan.got) :
              /\ Arrive(got)
              /\ scan' = [scan EXCEPT !.step = "posts", !.got = @ \cup got,
                                      !.errors = @ \/ scan.chosen \ (scan.got \cup got) # {}]
          BY <1>5 DEF TikTokRetry
    <2> DEFINE errors == scan.errors \/ scan.chosen \ (scan.got \cup got) # {}
    <2>2. scan' = [scan EXCEPT !.step = "posts", !.got = scan.got \cup got, !.errors = errors]
          BY <1>2, <2>1 DEF TikTokRuns
    <2>3. errors \in BOOLEAN /\ (~errors => scan.chosen \subseteq scan.got \cup got)
          OBVIOUS
    <2> HIDE DEF errors
    <2>4. got \in SUBSET scan.chosen
          BY <2>1
    <2>5. TikTokRuns'
          BY <1>2, <1>3, <2>2, <2>3, <2>4, ZenonT(60) DEF TikTokRuns, TikTokStep
    <2>6. /\ scan'.step = "posts" /\ scan'.keys = scan.keys /\ scan'.deleted = scan.deleted
          /\ scan'.posts = scan.posts /\ scan'.chosen = scan.chosen
          /\ scan'.observed = scan.observed /\ scan'.queue = scan.queue
          /\ scan'.got = scan.got \cup got /\ scan'.limited = scan.limited
          /\ scan'.errors = errors
          BY <1>2, <2>2 DEF TikTokRuns
    <2>7. trouble' = trouble
          BY <1>5 DEF TikTokRetry
    <2>8. Arrive(got)
          BY <2>1
    <2> QED BY <1>1, <1>2, <2>3, <2>4, <2>6, <2>5, <2>7, <2>8, TikTokArrives
  <1> QED BY <1>4, <1>5

\* The verdict: under Refresh a sync that qualifies observed all it listed.
LEMMA TikTokRecordsPosts ==
    ASSUME TikTokInv, TikTokRecordPosts
    PROVE  TikTokInv'
  <1> USE DEF TikTokInv
  <1>1. /\ published' = published /\ shown' = shown /\ held' = held /\ media' = media
        /\ tombs' = tombs /\ trouble' = trouble /\ blame' = blame
        /\ Presence(TikTokQualification, Recorded(Observed, Timeline))
        /\ scan' = [scan EXCEPT !.step = "media"]
        /\ ~NoScan /\ scan.step = "posts"
        BY DEF TikTokRecordPosts
  <1>2. TikTokRuns
        BY <1>1, TikTokKinds
  <1>3. /\ scan.deleted \subseteq scan.keys /\ scan.posts \subseteq 1..published
        /\ scan.observed \subseteq scan.posts /\ scan.queue \subseteq scan.chosen
        /\ scan.got \subseteq scan.chosen /\ scan.chosen \subseteq scan.posts \ scan.keys
        BY <1>2 DEF TikTokOrderly
  <1>4. Observed \subseteq 1..published /\ \A p \in Observed : Timeline[p] \in Section
        BY <1>3, PresenceAssumption
        DEF Observed, Timeline, Section, Post, ProfileSound, PresenceTypeOK
  <1>5. Refresh /\ Unmistaken /\ Qualifies(TikTokQualification) =>
            AtStake \subseteq Observed \cup left
    <2> SUFFICES ASSUME Refresh, Unmistaken, Qualifies(TikTokQualification)
                 PROVE  AtStake \subseteq Observed \cup left
        OBVIOUS
    <2>1. ~scan.limited /\ ~scan.errors
          BY DEF Qualifies, TikTokQualification
    <2>2. AtStake \subseteq scan.posts \cup left
          BY <1>1, <1>2, <2>1 DEF TikTokSeen, Stands
    <2>3. scan.posts \subseteq scan.chosen \cup scan.observed /\ scan.chosen \subseteq scan.got
          BY <1>1, <1>2, <2>1 DEF TikTokThorough
    <2> QED BY <2>2, <2>3 DEF Observed
  <1>6. Judged(TikTokQualification, Recorded(Observed, Timeline)) \subseteq Known \cup Observed
        BY DEF Judged, Recorded, Known
  <1>7. /\ ProfileSound' /\ (Refresh => SuspectsHaveLeft') /\ Known' = Known \cup Observed
    <2>1. TikTokQualification.observed = Observed
          BY DEF TikTokQualification
    <2>2. /\ ProfileSound'
          /\ /\ SuspectsHaveLeft
             /\ Unmistaken' /\ Qualifies(TikTokQualification) =>
                   Judged(TikTokQualification, Recorded(Observed, Timeline))
                      \ TikTokQualification.observed \subseteq left
             => SuspectsHaveLeft'
          /\ Known' = Known \cup Observed
      <3>1. blame \subseteq blame' /\ Observed \in SUBSET (1..published)
            BY <1>1, <1>4
      <3> QED BY <1>1, <1>4, <3>1, JudgedProfile
    <2>3. Refresh => (Unmistaken' /\ Qualifies(TikTokQualification) =>
             Judged(TikTokQualification, Recorded(Observed, Timeline))
                \ TikTokQualification.observed \subseteq left)
          BY <1>1, <1>5, <1>6, <2>1 DEF Unmistaken, AtStake
    <2> QED BY <2>2, <2>3
  <1>8. TikTokRuns'
        BY <1>1, <1>2 DEF TikTokRuns, TikTokStep
  <1>9. /\ scan'.step = "media" /\ scan'.keys = scan.keys /\ scan'.deleted = scan.deleted
        /\ scan'.posts = scan.posts /\ scan'.chosen = scan.chosen /\ scan'.got = scan.got
        /\ scan'.observed = scan.observed /\ scan'.queue = scan.queue
        BY <1>1, <1>2 DEF TikTokRuns
  <1>10. TikTokOrderly' /\ TikTokThorough' /\ TikTokSeen'
        BY <1>1, <1>3, <1>9 DEF TikTokOrderly, TikTokThorough, TikTokSeen, Stands
  <1>11. DeletedStaysDeleted'
        BY <1>1 DEF DeletedStaysDeleted
  <1> QED BY <1>7, <1>8, <1>10, <1>11

\* The last writes of a sync, and the ends it may come to.
LEMMA TikTokCloses ==
    ASSUME TikTokInv, TikTokRename \/ TikTokRecordMedia \/ TikTokEnd \/ TikTokStop
    PROVE  TikTokInv'
  <1>1. CASE TikTokRename \/ TikTokEnd \/ TikTokStop
    <2>1. /\ published' = published /\ shown' = shown /\ ledger' = ledger /\ tombs' = tombs
          /\ left' = left /\ held' = held /\ media' = media /\ blame' = blame
          /\ trouble' = trouble \/ Happens
          /\ scan' = Idle
          BY <1>1 DEF TikTokRename, Rehandle, TikTokEnd, TikTokStop, tiktok_vars
    <2>2. /\ ProfileSound' /\ (Refresh => SuspectsHaveLeft') /\ DeletedStaysDeleted'
      <3>1. blame \subseteq blame'
            BY <2>1
      <3> QED BY <2>1, <3>1, TikTokAside
    <2> QED BY <2>1, <2>2, TikTokAfterwards, TikTokVoid
  <1>2. CASE TikTokRecordMedia
    <2> USE DEF TikTokInv
    <2>1. /\ published' = published /\ shown' = shown /\ ledger' = ledger /\ tombs' = tombs
          /\ left' = left /\ held' = held /\ media' = media \cup scan.got /\ blame' = blame
          /\ trouble' = trouble /\ ~NoScan /\ scan.step = "media"
          BY <1>2 DEF TikTokRecordMedia
    <2>2. PICK step \in {"warning", "succeeded"} : scan' = [scan EXCEPT !.step = step]
          BY <1>2 DEF TikTokRecordMedia
    <2>3. TikTokRuns
          BY <2>1, TikTokKinds
    <2>4. TikTokRuns'
          BY <2>2, <2>3 DEF TikTokRuns, TikTokStep
    <2>5. /\ scan'.step = step /\ scan'.keys = scan.keys /\ scan'.deleted = scan.deleted
          /\ scan'.posts = scan.posts /\ scan'.chosen = scan.chosen /\ scan'.got = scan.got
          /\ scan'.observed = scan.observed /\ scan'.queue = scan.queue
          BY <2>2, <2>3 DEF TikTokRuns
    <2>6. TikTokOrderly' /\ TikTokThorough' /\ TikTokSeen'
      <3>1. /\ scan.deleted \subseteq scan.keys /\ scan.posts \subseteq 1..published
            /\ scan.observed \subseteq scan.posts /\ scan.queue \subseteq scan.chosen
            /\ scan.got \subseteq scan.chosen /\ scan.chosen \subseteq scan.posts \ scan.keys
            BY <2>3 DEF TikTokOrderly
      <3> QED BY <2>1, <2>5, <3>1 DEF TikTokOrderly, TikTokThorough, TikTokSeen, Stands
    <2>7. ProfileSound' /\ (SuspectsHaveLeft => SuspectsHaveLeft')
      <3>1. /\ held' \subseteq 1..published /\ media' \subseteq 1..published
            /\ trouble' \in 0..MaxTrouble /\ blame \subseteq blame'
            BY <2>1, <2>3 DEF TikTokOrderly, ProfileSound, PresenceTypeOK
      <3> QED BY <2>1, <3>1, UntouchedProfile
    <2>8. DeletedStaysDeleted'
          BY <2>1 DEF DeletedStaysDeleted
    <2> QED BY <2>4, <2>6, <2>7, <2>8
  <1> QED BY <1>1, <1>2

LEMMA TikTokInductive ==
    ASSUME TikTokInv, [TikTokNext]_<<profile_vars, tiktok_vars>>
    PROVE  TikTokInv'
  <1>1. CASE TikTokStart
        BY <1>1, TikTokStarts
  <1>2. CASE TikTokRecover
        BY <1>2, TikTokReconciles
  <1>3. CASE TikTokList
        BY <1>3, TikTokLists
  <1>4. CASE TikTokFallback
        BY <1>4, TikTokFallsBack
  <1>5. CASE TikTokSettle
        BY <1>5, TikTokSettles
  <1>6. CASE TikTokBatch \/ TikTokRetry
        BY <1>6, TikTokFetches
  <1>7. CASE TikTokRecordPosts
        BY <1>7, TikTokRecordsPosts
  <1>8. CASE TikTokRename \/ TikTokRecordMedia \/ TikTokEnd \/ TikTokStop
        BY <1>8, TikTokCloses
  <1>9. CASE \/ AuthorStep
             \/ Rename
             \/ \E p \in Post : TikTokDelete(p)
        BY <1>9, TikTokOutside
  <1>10. ASSUME NEW p \in Post, Vanish(p)
        PROVE  TikTokInv'
        BY <1>10, TikTokVanishes
  <1>11. CASE UNCHANGED <<profile_vars, tiktok_vars>>
    <2>1. /\ published' = published /\ shown' = shown /\ held' = held /\ media' = media
          /\ ledger' = ledger /\ tombs' = tombs /\ scan' = scan /\ left' = left
          /\ trouble' = trouble /\ blame' = blame
          BY <1>11 DEF profile_vars
    <2> QED BY <2>1
            DEF TikTokInv, ProfileSound, PresenceTypeOK, HiddenHaveLeft, Known, SuspectsHaveLeft,
                Suspected, Unmistaken, NoScan, TikTokRuns, TikTokRecovers, TikTokOrderly,
                TikTokThorough, TikTokSeen, Stands, AtStake, DeletedStaysDeleted
  <1> QED BY <1>1, <1>2, <1>3, <1>4, <1>5, <1>6, <1>7, <1>8, <1>9, <1>10, <1>11 DEF TikTokNext

LEMMA TikTokAlways == TikTokSpec => []TikTokInv
  <1>1. PresenceInit /\ TikTokInit => TikTokInv
        BY TikTokInitial
  <1>2. TikTokInv /\ [TikTokNext]_<<profile_vars, tiktok_vars>> => TikTokInv'
        BY TikTokInductive
  <1> QED BY <1>1, <1>2, PTL DEF TikTokSpec

\* The same of a profile of TikTok whose known posts are looked at again: without
\* refresh_existing_media_stats a sync does not count them as seen, and flags who
\* is still there.
THEOREM TikTokFlagsTheGone ==
    ASSUME Refresh
    PROVE  TikTokSpec => []FlaggedWasGone
  <1>1. TikTokInv => FlaggedWasGone
        BY FlaggedAreSuspected DEF TikTokInv
  <1> QED BY <1>1, TikTokAlways, PTL

\* TikTok's syncs go by the deletions themselves: whatever the folder and the ledgers
\* lost, what was deleted before a sync loaded its keys is not fetched by it.
THEOREM TikTokDeletionsStand == TikTokSpec => []DeletedStaysDeleted
  <1>1. TikTokInv => DeletedStaysDeleted
        BY DEF TikTokInv
  <1> QED BY <1>1, TikTokAlways, PTL

-----------------------------------------------------------------------------
(***************************************************************************)
(* Instagram.                                                              *)
(***************************************************************************)

LooksAs(s) ==
    s \in [step : {"timeline", "reels", "plan"}, from : {s.from}, span : {s.span},
           full : {s.full}, missing_only : {s.missing_only}, gql : {s.gql},
           keys : {s.keys}, deleted : {s.deleted}, media : {s.media},
           on_disk : {s.on_disk}, head : SUBSET Post, via : {s.via}, at : {s.at},
           streak : {s.streak}, listed : SUBSET Post, posts : SUBSET Post,
           errors : BOOLEAN, limited : BOOLEAN, plan : {{}}, got : {{}}]
InstagramLooks == LooksAs(scan)

InstagramGets ==
    scan \in [step : {"fetch", "media", "posts", "warning", "succeeded"}, from : {scan.from},
              span : {scan.span}, full : {scan.full}, missing_only : {scan.missing_only},
              listed : SUBSET Post, posts : SUBSET Post, plan : SUBSET Post,
              got : SUBSET Post, errors : BOOLEAN, limited : BOOLEAN]

\* What may still be listed after post last.
Ahead(last, p) == last # 0 => Before(last, p)

\* A sync that may judge.
MayJudge == scan.full /\ ~scan.missing_only /\ ~scan.errors /\ ~scan.limited /\ Unmistaken

\* What is listed is published; while a sync lists nothing comes to the folder, and it
\* fetches what is not there.
InstagramOrderly ==
    /\ InstagramLooks =>
          /\ scan.head \cup scan.listed \cup scan.posts \subseteq 1..published
          /\ held \subseteq scan.on_disk
    /\ InstagramGets =>
          /\ scan.listed \subseteq 1..published /\ scan.posts \subseteq scan.listed
          /\ scan.plan \subseteq scan.posts /\ scan.got \subseteq scan.plan
          /\ scan.step = "fetch" => scan.plan \cap held = {}

\* The head of the profile, from which the timeline may start over: what it does not
\* have comes after it.
HeadIsFirst ==
    InstagramLooks /\ MayJudge /\ scan.step = "timeline" =>
        \A p \in AtStake : p \in scan.head \cup left \/ Ahead(LastOf(scan.head), p)

\* Of the section that is listed, a post at stake was listed, has left or is ahead.
SectionSeen ==
    InstagramLooks /\ MayJudge /\ scan.step \in {"timeline", "reels"} =>
        \A p \in AtStake :
            KindOf[p] = scan.step => p \in scan.listed \cup left \/ Ahead(scan.at, p)

\* Of the sections that were listed, it was listed or has left.
SectionsSeen ==
    /\ InstagramLooks /\ MayJudge /\ scan.step # "timeline" =>
          \A p \in AtStake : KindOf[p] = "timeline" \/ scan.step = "plan" =>
              p \in scan.posts \cup left
    /\ InstagramGets /\ MayJudge /\ scan.step \in {"fetch", "media", "posts"} =>
          AtStake \subseteq scan.listed \cup left

InstagramSeen == HeadIsFirst /\ SectionSeen /\ SectionsSeen

\* What was deleted is recorded, and what a sync does not know to be deleted was here
\* when it began.
InstagramPassesOver ==
    "unrecorded" \notin blame =>
        /\ tombs \subseteq Known \cup media
        /\ InstagramLooks =>
              /\ scan.deleted \subseteq scan.keys \cup scan.media
              /\ tombs \subseteq scan.deleted \cup scan.on_disk
        /\ InstagramGets /\ scan.step = "fetch" => scan.plan \cap tombs = {}

InstagramInv ==
    /\ ProfileSound /\ SuspectsHaveLeft
    /\ NoScan \/ InstagramLooks \/ InstagramGets
    /\ InstagramOrderly /\ InstagramSeen /\ InstagramPassesOver
    /\ DeletedStaysDeleted

LEMMA InstagramKinds ==
    /\ InstagramLooks => scan.step \in {"timeline", "reels", "plan"}
    /\ InstagramGets => scan.step \in {"fetch", "media", "posts", "warning", "succeeded"}
    /\ NoScan => scan.step = "idle"
    /\ NoScan => ~InstagramLooks /\ ~InstagramGets
    /\ InstagramLooks => ~InstagramGets
  <1>1. InstagramLooks => scan.step \in {"timeline", "reels", "plan"}
        BY DEF InstagramLooks, LooksAs
  <1>2. InstagramGets => scan.step \in {"fetch", "media", "posts", "warning", "succeeded"}
        BY DEF InstagramGets
  <1>3. NoScan => scan.step = "idle"
        BY DEF NoScan, Idle
  <1> QED BY <1>1, <1>2, <1>3

LEMMA InstagramAfterwards ==
    /\ InstagramLooks' => scan'.step \in {"timeline", "reels", "plan"}
    /\ InstagramGets' => scan'.step \in {"fetch", "media", "posts", "warning", "succeeded"}
    /\ scan' = Idle => NoScan' /\ ~InstagramLooks' /\ ~InstagramGets'
  <1>1. InstagramLooks' => scan'.step \in {"timeline", "reels", "plan"}
        BY DEF InstagramLooks, LooksAs
  <1>2. InstagramGets' => scan'.step \in {"fetch", "media", "posts", "warning", "succeeded"}
        BY DEF InstagramGets
  <1> QED BY <1>1, <1>2 DEF NoScan, Idle

LEMMA LeastNatural ==
    ASSUME NEW S \in SUBSET Nat, S # {}
    PROVE  \E m \in S : \A n \in S : m <= n
  <1> DEFINE less == OpToRel(<, Nat)
  <1>1. IsWellFoundedOn(less, Nat)
        BY NatLessThanWellFounded
  <1>2. \A m, n \in Nat : n < m => <<n, m>> \in less
        BY DEF OpToRel
  <1> HIDE DEF less
  <1>3. PICK m \in S : \A n \in S : ~ (<<n, m>> \in less)
        BY <1>1, WFMin
  <1>4. ASSUME NEW n \in S PROVE m <= n
    <2>1. m \in Nat /\ n \in Nat /\ ~(n < m)
          BY <1>2, <1>3
    <2> QED BY <2>1
  <1> QED BY <1>4

LEMMA GreatestBelow ==
    ASSUME NEW N \in Nat, NEW S \in SUBSET (1..N), S # {}
    PROVE  \E m \in S : \A n \in S : n <= m
  <1> DEFINE gaps == {N - s : s \in S}
  <1>1. gaps \in SUBSET Nat
    <2>1. \A s \in S : N - s \in Nat
          OBVIOUS
    <2> QED BY <2>1
  <1>2. gaps # {}
        OBVIOUS
  <1>3. PICK d \in gaps : \A other \in gaps : d <= other
        BY <1>1, <1>2, LeastNatural
  <1>4. PICK m \in S : d = N - m
        BY <1>3
  <1>5. ASSUME NEW n \in S PROVE n <= m
    <2>1. N - m <= N - n
          BY <1>3, <1>4
    <2>2. m \in 1..N /\ n \in 1..N
          OBVIOUS
    <2> QED BY <2>1, <2>2
  <1> QED BY <1>5

\* A feed is listed in order: what is ahead of a place comes with the next page or
\* after it, and there is a next page as long as something is ahead.
LEMMA PageIsNext ==
    ASSUME NEW last, NEW N \in Nat, NEW posts \in SUBSET (1..N)
    PROVE  /\ PageAfter(last, posts) \subseteq posts
           /\ \A p \in PageAfter(last, posts) : \A q \in posts :
                 Ahead(last, q) => q = p \/ Before(p, q)
           /\ PageAfter(last, posts) = {} => \A q \in posts : ~Ahead(last, q)
  <1> DEFINE later == {p \in posts : Ahead(last, p)}
  <1>1. PageAfter(last, posts) = {p \in later : \A q \in later \ {p} : Before(p, q)}
        BY DEF PageAfter, Ahead
  <1>2. later # {} => PageAfter(last, posts) # {}
    <2> SUFFICES ASSUME later # {} PROVE \E m \in later : \A q \in later \ {m} : Before(m, q)
        BY <1>1
    <2>1. CASE later \cap OnTop # {}
      <3>1. later \cap OnTop \in SUBSET (1..N)
            OBVIOUS
      <3>2. PICK m \in later \cap OnTop : \A n \in later \cap OnTop : n <= m
            BY <2>1, <3>1, GreatestBelow
      <3>3. ASSUME NEW q \in later \ {m} PROVE Before(m, q)
        <4>1. q \in 1..N /\ m \in 1..N /\ q # m
              OBVIOUS
        <4>2. CASE q \in OnTop
          <5>1. m > q
                BY <3>2, <4>1, <4>2
          <5> QED BY <5>1, <4>2 DEF Before
        <4>3. CASE q \notin OnTop
              BY <4>3 DEF Before
        <4> QED BY <4>2, <4>3
      <3> QED BY <3>3
    <2>2. CASE later \cap OnTop = {}
      <3>1. later \in SUBSET (1..N)
            OBVIOUS
      <3>2. PICK m \in later : \A n \in later : n <= m
            BY <3>1, GreatestBelow
      <3>3. ASSUME NEW q \in later \ {m} PROVE Before(m, q)
        <4>1. q \in 1..N /\ m \in 1..N /\ q # m /\ q <= m
              BY <3>2
        <4>2. m > q /\ m \notin OnTop /\ q \notin OnTop
              BY <4>1, <2>2
        <4> QED BY <4>2 DEF Before
      <3> QED BY <3>3
    <2> QED BY <2>1, <2>2
  <1>3. PageAfter(last, posts) \subseteq posts
        BY <1>1
  <1>4. ASSUME NEW p \in PageAfter(last, posts), NEW q \in posts, Ahead(last, q)
        PROVE  q = p \/ Before(p, q)
    <2>1. q \in later
          BY <1>4
    <2> QED BY <1>1, <1>4, <2>1
  <1>5. PageAfter(last, posts) = {} => \A q \in posts : ~Ahead(last, q)
        BY <1>2
  <1> HIDE DEF later
  <1> QED BY <1>3, <1>4, <1>5

LEMMA KindsOfPosts == \A p \in Post : KindOf[p] \in {"timeline", "reels"}
  BY DEF KindOf

\* A sync that is over says nothing.
LEMMA InstagramOver ==
    ASSUME ProfileSound', SuspectsHaveLeft', DeletedStaysDeleted', scan' = Idle,
           "unrecorded" \notin blame' => tombs' \subseteq Known' \cup media'
    PROVE  InstagramInv'
  <1>1. NoScan' /\ ~InstagramLooks' /\ ~InstagramGets'
        BY InstagramAfterwards
  <1> QED BY <1>1
          DEF InstagramInv, InstagramOrderly, InstagramSeen, HeadIsFirst, SectionSeen,
              SectionsSeen, InstagramPassesOver

LEMMA InstagramInitial == PresenceInit => InstagramInv
  <1> SUFFICES ASSUME PresenceInit PROVE InstagramInv
      OBVIOUS
  <1>1. ProfileSound /\ SuspectsHaveLeft /\ NoScan
        BY ProfileInitial
  <1>2. ~InstagramLooks /\ ~InstagramGets
        BY <1>1, InstagramKinds
  <1>3. tombs = {}
        BY DEF PresenceInit
  <1> QED BY <1>1, <1>2, <1>3
          DEF InstagramInv, InstagramOrderly, InstagramSeen, HeadIsFirst, SectionSeen,
              SectionsSeen, InstagramPassesOver, DeletedStaysDeleted

\* A step beside an Instagram sync.
LEMMA InstagramBeside ==
    ASSUME InstagramInv, ProfileSound', SuspectsHaveLeft', Outside, blame \subseteq blame',
           "unrecorded" \notin blame' => tombs' \subseteq Known' \cup media'
    PROVE  InstagramInv'
  <1> USE DEF InstagramInv
  <1>1. /\ scan' = scan /\ AtStake' \subseteq AtStake /\ left \subseteq left'
        /\ held' \subseteq held /\ tombs' \subseteq tombs \cup (held \ held')
        /\ 1..published \subseteq 1..published'
        BY PresenceAssumption DEF Outside, ProfileSound, PresenceTypeOK, AtStake
  <1>2. /\ NoScan' <=> NoScan
        /\ InstagramLooks' <=> InstagramLooks
        /\ InstagramGets' <=> InstagramGets
        BY <1>1 DEF NoScan, InstagramLooks, LooksAs, InstagramGets
  <1>3. MayJudge' => MayJudge
        BY <1>1 DEF MayJudge, Unmistaken
  <1>4. InstagramOrderly'
        BY <1>1, <1>2 DEF InstagramOrderly
  <1>5. HeadIsFirst'
        BY <1>1, <1>2, <1>3 DEF HeadIsFirst, InstagramSeen
  <1>6. SectionSeen'
        BY <1>1, <1>2, <1>3 DEF SectionSeen, InstagramSeen
  <1>7. SectionsSeen'
        BY <1>1, <1>2, <1>3 DEF SectionsSeen, InstagramSeen
  <1>8. InstagramPassesOver'
    <2> SUFFICES ASSUME "unrecorded" \notin blame'
                 PROVE  /\ InstagramLooks =>
                              /\ scan.deleted \subseteq scan.keys \cup scan.media
                              /\ tombs' \subseteq scan.deleted \cup scan.on_disk
                        /\ InstagramGets /\ scan.step = "fetch" => scan.plan \cap tombs' = {}
        BY <1>1, <1>2 DEF InstagramPassesOver
    <2>1. "unrecorded" \notin blame
          OBVIOUS
    <2>2. InstagramLooks =>
              /\ scan.deleted \subseteq scan.keys \cup scan.media
              /\ tombs' \subseteq scan.deleted \cup scan.on_disk
          BY <1>1, <2>1 DEF InstagramPassesOver, InstagramOrderly
    <2>3. InstagramGets /\ scan.step = "fetch" => scan.plan \cap tombs' = {}
          BY <1>1, <2>1 DEF InstagramPassesOver, InstagramOrderly
    <2> QED BY <2>2, <2>3
  <1>9. DeletedStaysDeleted'
        BY <1>1 DEF DeletedStaysDeleted
  <1> QED BY <1>2, <1>4, <1>5, <1>6, <1>7, <1>8, <1>9 DEF InstagramSeen

LEMMA InstagramOutside ==
    ASSUME InstagramInv, AuthorStep \/ \E p \in Post : InstagramDelete(p)
    PROVE  InstagramInv'
  <1>1. CASE AuthorStep
    <2>1. /\ ProfileSound' /\ (SuspectsHaveLeft => SuspectsHaveLeft') /\ Outside
          /\ ledger' = ledger /\ tombs' = tombs /\ blame' = blame
          BY <1>1, AuthorOutside DEF InstagramInv
    <2>2. Known' = Known /\ media' = media
          BY <2>1 DEF Known, Outside
    <2>3. "unrecorded" \notin blame' => tombs' \subseteq Known' \cup media'
          BY <2>1, <2>2 DEF InstagramInv, InstagramPassesOver
    <2> QED BY <2>1, <2>3, InstagramBeside DEF InstagramInv
  <1>2. ASSUME NEW p \in Post, InstagramDelete(p)
        PROVE  InstagramInv'
    <2>1. /\ DeleteMedium(p, KindOf[p])
          /\ blame' = IF ledger'[p] = NoRow /\ p \notin media THEN blame \cup {"unrecorded"}
                      ELSE blame
          BY <1>2 DEF InstagramDelete
    <2>2. KindOf[p] \in Section /\ blame \subseteq blame'
          BY <2>1 DEF KindOf, Section
    <2>3. /\ ProfileSound' /\ (SuspectsHaveLeft => SuspectsHaveLeft') /\ Outside
          /\ tombs' = tombs \cup {p} /\ Known \subseteq Known'
          BY <2>1, <2>2, DeletionOutside DEF InstagramInv
    <2>4. "unrecorded" \notin blame' => tombs' \subseteq Known' \cup media'
      <3> SUFFICES ASSUME "unrecorded" \notin blame' PROVE tombs' \subseteq Known' \cup media'
          OBVIOUS
      <3>1. media' = media /\ tombs \subseteq Known \cup media
            BY <2>2, <2>3 DEF Outside, InstagramInv, InstagramPassesOver
      <3>2. p \in Known' \/ p \in media
            BY <2>1 DEF Known
      <3> QED BY <2>3, <3>1, <3>2
    <2> QED BY <2>2, <2>3, <2>4, InstagramBeside DEF InstagramInv
  <1> QED BY <1>1, <1>2

\* A step of an Instagram sync that leaves the profile as it is.
LEMMA InstagramAside ==
    ASSUME InstagramInv, published' = published, shown' = shown, ledger' = ledger,
           tombs' = tombs, left' = left, held' = held, media' = media,
           blame \subseteq blame', trouble' = trouble \/ Happens
    PROVE  /\ ProfileSound' /\ SuspectsHaveLeft' /\ DeletedStaysDeleted'
           /\ Known' = Known /\ AtStake' = AtStake
           /\ Unmistaken' => Unmistaken
           /\ "unrecorded" \notin blame' => tombs' \subseteq Known' \cup media'
  <1>1. /\ held \subseteq 1..published /\ media \subseteq 1..published
        /\ trouble' \in 0..MaxTrouble
        BY PresenceAssumption DEF InstagramInv, Happens, ProfileSound, PresenceTypeOK
  <1>2. ProfileSound' /\ (SuspectsHaveLeft => SuspectsHaveLeft') /\ Known' = Known
        BY <1>1, UntouchedProfile DEF InstagramInv
  <1>3. "unrecorded" \notin blame' => tombs' \subseteq Known' \cup media'
        BY <1>2 DEF InstagramInv, InstagramPassesOver
  <1>4. DeletedStaysDeleted'
        BY DEF InstagramInv, DeletedStaysDeleted
  <1> QED BY <1>2, <1>3, <1>4 DEF InstagramInv, AtStake, Unmistaken

LEMMA InstagramStarts ==
    ASSUME InstagramInv, NEW full \in BOOLEAN, NEW missing_only \in BOOLEAN,
           NEW gql \in BOOLEAN, InstagramStart(full, missing_only, gql)
    PROVE  InstagramInv'
  <1> USE DEF InstagramInv
  <1> DEFINE head == PageAfter(0, shown)
             at == IF gql THEN 0 ELSE LastOf(head)
             listed == IF gql THEN {} ELSE OfKind(head, "timeline")
  <1>1. /\ published' = published /\ shown' = shown /\ ledger' = ledger /\ tombs' = tombs
        /\ left' = left /\ held' = held /\ media' = media /\ blame' = blame
        /\ trouble' = trouble
        BY DEF InstagramStart
  <1>2. scan' = [step |-> "timeline", from |-> published, span |-> 1..published,
                 full |-> full, missing_only |-> missing_only, gql |-> gql,
                 keys |-> Known, deleted |-> tombs, media |-> media, on_disk |-> held,
                 head |-> head, via |-> gql, at |-> at, streak |-> 0, listed |-> listed,
                 posts |-> {}, errors |-> FALSE, limited |-> FALSE, plan |-> {}, got |-> {}]
        BY DEF InstagramStart
  <1>3. shown \subseteq 1..published /\ published \in Nat /\ shown \subseteq Post
        /\ AtStake \subseteq 1..published
        BY PresenceAssumption DEF ProfileSound, PresenceTypeOK, Post, AtStake
  <1>4. /\ head \subseteq shown
        /\ \A p \in head : \A q \in shown : Ahead(0, q) => q = p \/ Before(p, q)
        BY <1>3, PageIsNext
  <1>5. \A q \in shown : q \in head \/ Ahead(LastOf(head), q)
    <2>1. CASE head = {}
          BY <2>1 DEF LastOf, Ahead
    <2>2. CASE head # {}
      <3>1. LastOf(head) \in head
            BY <2>2 DEF LastOf
      <3> QED BY <1>4, <3>1 DEF Ahead
    <2> QED BY <2>1, <2>2
  <1>6. \A p \in AtStake : p \in head \cup left \/ Ahead(LastOf(head), p)
        BY <1>3, <1>5 DEF ProfileSound, HiddenHaveLeft
  <1>7. /\ listed \subseteq 1..published /\ listed \subseteq Post
        /\ \A p \in AtStake : KindOf[p] = "timeline" => p \in listed \cup left \/ Ahead(at, p)
        BY <1>3, <1>4, <1>6 DEF OfKind, Ahead
  <1>8. head \subseteq 1..published /\ head \subseteq Post
        BY <1>3, <1>4
  <1> HIDE DEF head, at, listed
  <1>9. InstagramLooks'
        BY <1>2, <1>7, <1>8 DEF InstagramLooks, LooksAs
  <1>10. ~NoScan' /\ ~InstagramGets'
        BY <1>2, InstagramAfterwards DEF NoScan, Idle
  <1>11. /\ ProfileSound' /\ SuspectsHaveLeft' /\ DeletedStaysDeleted'
         /\ Known' = Known /\ AtStake' = AtStake
         /\ "unrecorded" \notin blame' => tombs' \subseteq Known' \cup media'
    <2>1. blame \subseteq blame'
          BY <1>1
    <2> QED BY <1>1, <2>1, InstagramAside
  <1>12. InstagramOrderly'
        BY <1>1, <1>2, <1>7, <1>8, <1>10 DEF InstagramOrderly
  <1>13. HeadIsFirst'
        BY <1>1, <1>2, <1>6, <1>11 DEF HeadIsFirst
  <1>14. SectionSeen'
        BY <1>1, <1>2, <1>7, <1>11 DEF SectionSeen
  <1>15. SectionsSeen'
        BY <1>2, <1>10 DEF SectionsSeen
  <1>16. InstagramPassesOver'
        BY <1>1, <1>2, <1>10, <1>11 DEF InstagramPassesOver
  <1> QED BY <1>9, <1>11, <1>12, <1>13, <1>14, <1>15, <1>16 DEF InstagramSeen

\* The sync goes on with the section it lists.
LEMMA InstagramStays ==
    ASSUME InstagramInv, InstagramLooks, scan.step \in {"timeline", "reels"},
           published' = published, shown' = shown, ledger' = ledger, tombs' = tombs,
           left' = left, held' = held, media' = media, blame' = blame,
           trouble' = trouble \/ Happens,
           NEW at, NEW streak, NEW via, NEW listed \in SUBSET (1..published),
           scan' = [scan EXCEPT !.at = at, !.streak = streak, !.via = via, !.listed = listed],
           MayJudge => \A p \in AtStake :
               KindOf[p] = scan.step => p \in listed \cup left \/ Ahead(at, p)
    PROVE  InstagramInv'
  <1> USE DEF InstagramInv
  <1>1. /\ ProfileSound' /\ SuspectsHaveLeft' /\ DeletedStaysDeleted'
        /\ Known' = Known /\ AtStake' = AtStake
        /\ "unrecorded" \notin blame' => tombs' \subseteq Known' \cup media'
    <2>1. blame \subseteq blame'
          OBVIOUS
    <2> QED BY <2>1, InstagramAside
  <1>2. listed \subseteq Post
        BY PresenceAssumption DEF ProfileSound, PresenceTypeOK, Post
  <1>3. InstagramLooks'
        BY <1>2 DEF InstagramLooks, LooksAs
  <1>4. ~NoScan' /\ ~InstagramGets'
        BY <1>3, InstagramAfterwards DEF NoScan, Idle
  <1>5. /\ scan'.step = scan.step /\ scan'.head = scan.head /\ scan'.posts = scan.posts
        /\ scan'.keys = scan.keys /\ scan'.deleted = scan.deleted
        /\ scan'.media = scan.media /\ scan'.on_disk = scan.on_disk
        /\ scan'.full = scan.full /\ scan'.missing_only = scan.missing_only
        /\ scan'.errors = scan.errors /\ scan'.limited = scan.limited
        /\ scan'.listed = listed /\ scan'.at = at
        BY DEF InstagramLooks, LooksAs
  <1>6. MayJudge' => MayJudge
        BY <1>5 DEF MayJudge, Unmistaken
  <1>7. InstagramOrderly'
        BY <1>4, <1>5 DEF InstagramOrderly
  <1>8. HeadIsFirst'
        BY <1>1, <1>5, <1>6 DEF HeadIsFirst, InstagramSeen
  <1>9. SectionSeen'
        BY <1>1, <1>5, <1>6 DEF SectionSeen
  <1>10. SectionsSeen'
        BY <1>1, <1>4, <1>5, <1>6 DEF SectionsSeen, InstagramSeen
  <1>11. InstagramPassesOver'
        BY <1>1, <1>4, <1>5 DEF InstagramPassesOver
  <1> QED BY <1>1, <1>3, <1>7, <1>8, <1>9, <1>10, <1>11 DEF InstagramSeen

\* It turns to the next one; unless an error made it do so, what is at stake of this
\* one was listed or has left.
LEMMA InstagramTurns ==
    ASSUME InstagramInv, InstagramLooks, scan.step \in {"timeline", "reels"},
           published' = published, shown' = shown, ledger' = ledger, tombs' = tombs,
           left' = left, held' = held, media' = media, blame \subseteq blame',
           trouble' = trouble \/ Happens,
           NEW listed \in SUBSET (1..published), NEW errors \in BOOLEAN, NEW limited \in BOOLEAN,
           \/ scan' = NextSection(listed) /\ errors = scan.errors /\ limited = scan.limited
           \/ scan' = [NextSection(listed) EXCEPT !.errors = errors, !.limited = limited],
           scan.errors => errors, scan.limited => limited,
           MayJudge /\ Unmistaken' /\ ~errors => \A p \in AtStake :
               KindOf[p] = scan.step => p \in listed \cup left
    PROVE  InstagramInv'
  <1> USE DEF InstagramInv
  <1>1. /\ ProfileSound' /\ SuspectsHaveLeft' /\ DeletedStaysDeleted'
        /\ Known' = Known /\ AtStake' = AtStake
        /\ Unmistaken' => Unmistaken
        /\ "unrecorded" \notin blame' => tombs' \subseteq Known' \cup media'
        BY InstagramAside
  <1>2. /\ listed \subseteq Post /\ scan.head \subseteq Post /\ scan.posts \subseteq Post
        /\ scan.head \cup scan.posts \subseteq 1..published
        /\ OfKind(scan.head, "reels") \subseteq scan.head
        BY PresenceAssumption
        DEF ProfileSound, PresenceTypeOK, Post, InstagramLooks, LooksAs, InstagramOrderly, OfKind
  <1>3. CASE scan.step = "timeline"
    <2> DEFINE next == [scan EXCEPT !.step = "reels", !.posts = listed, !.via = scan.gql,
                                    !.at = 0, !.streak = 0,
                                    !.listed = OfKind(scan.head, "reels")]
    <2>1. next = NextSection(listed)
          BY <1>3 DEF NextSection
    <2>2. LooksAs(next)
          BY <1>2 DEF InstagramLooks, LooksAs
    <2>3. /\ next.step = "reels" /\ next.head = scan.head /\ next.posts = listed
          /\ next.keys = scan.keys /\ next.deleted = scan.deleted
          /\ next.media = scan.media /\ next.on_disk = scan.on_disk
          /\ next.full = scan.full /\ next.missing_only = scan.missing_only
          /\ next.listed = OfKind(scan.head, "reels") /\ next.at = 0
          /\ next.errors = scan.errors /\ next.limited = scan.limited
          BY DEF InstagramLooks, LooksAs
    <2> HIDE DEF next
    <2>4. InstagramLooks'
      <3>1. CASE scan' = [next EXCEPT !.errors = errors, !.limited = limited]
            BY <2>2, <3>1, ZenonT(60) DEF InstagramLooks, LooksAs
      <3>2. CASE scan' = next
            BY <2>2, <3>2 DEF InstagramLooks, LooksAs
      <3> QED BY <2>1, <3>1, <3>2
    <2>5. /\ scan'.step = "reels" /\ scan'.head = scan.head /\ scan'.posts = listed
          /\ scan'.keys = scan.keys /\ scan'.deleted = scan.deleted
          /\ scan'.media = scan.media /\ scan'.on_disk = scan.on_disk
          /\ scan'.full = scan.full /\ scan'.missing_only = scan.missing_only
          /\ scan'.listed = OfKind(scan.head, "reels") /\ scan'.at = 0
          /\ scan'.errors = errors /\ scan'.limited = limited
      <3>1. CASE scan' = [next EXCEPT !.errors = errors, !.limited = limited]
            BY <2>2, <2>3, <3>1 DEF LooksAs
      <3>2. CASE scan' = next /\ errors = scan.errors /\ limited = scan.limited
            BY <2>3, <3>2
      <3> QED BY <2>1, <3>1, <3>2
    <2>6. ~NoScan' /\ ~InstagramGets'
          BY <2>4, InstagramAfterwards DEF NoScan, Idle
    <2>7. MayJudge' => MayJudge /\ Unmistaken' /\ ~errors
          BY <1>1, <2>5 DEF MayJudge
    <2>8. InstagramOrderly'
          BY <1>2, <2>5, <2>6 DEF InstagramOrderly
    <2>9. HeadIsFirst'
          BY <2>5 DEF HeadIsFirst
    <2>10. SectionSeen'
          BY <2>5 DEF SectionSeen, Ahead
    <2>11. SectionsSeen'
          BY <1>1, <1>3, <2>5, <2>6, <2>7 DEF SectionsSeen
    <2>12. InstagramPassesOver'
          BY <1>1, <2>5, <2>6 DEF InstagramPassesOver
    <2> QED BY <1>1, <2>4, <2>8, <2>9, <2>10, <2>11, <2>12 DEF InstagramSeen
  <1>4. CASE scan.step = "reels"
    <2> DEFINE next == [scan EXCEPT !.step = "plan", !.posts = scan.posts \cup listed,
                                    !.via = FALSE, !.at = 0, !.streak = 0, !.listed = {},
                                    !.head = {}]
    <2>1. next = NextSection(listed)
          BY <1>4 DEF NextSection, InstagramLooks, LooksAs
    <2>2. LooksAs(next)
          BY <1>2 DEF InstagramLooks, LooksAs
    <2>3. /\ next.step = "plan" /\ next.head = {} /\ next.posts = scan.posts \cup listed
          /\ next.keys = scan.keys /\ next.deleted = scan.deleted
          /\ next.media = scan.media /\ next.on_disk = scan.on_disk
          /\ next.full = scan.full /\ next.missing_only = scan.missing_only
          /\ next.listed = {} /\ next.at = 0
          /\ next.errors = scan.errors /\ next.limited = scan.limited
          BY DEF InstagramLooks, LooksAs
    <2> HIDE DEF next
    <2>4. InstagramLooks'
      <3>1. CASE scan' = [next EXCEPT !.errors = errors, !.limited = limited]
            BY <2>2, <3>1, ZenonT(60) DEF InstagramLooks, LooksAs
      <3>2. CASE scan' = next
            BY <2>2, <3>2 DEF InstagramLooks, LooksAs
      <3> QED BY <2>1, <3>1, <3>2
    <2>5. /\ scan'.step = "plan" /\ scan'.head = {} /\ scan'.posts = scan.posts \cup listed
          /\ scan'.keys = scan.keys /\ scan'.deleted = scan.deleted
          /\ scan'.media = scan.media /\ scan'.on_disk = scan.on_disk
          /\ scan'.full = scan.full /\ scan'.missing_only = scan.missing_only
          /\ scan'.listed = {} /\ scan'.at = 0
          /\ scan'.errors = errors /\ scan'.limited = limited
      <3>1. CASE scan' = [next EXCEPT !.errors = errors, !.limited = limited]
            BY <2>2, <2>3, <3>1 DEF LooksAs
      <3>2. CASE scan' = next /\ errors = scan.errors /\ limited = scan.limited
            BY <2>3, <3>2
      <3> QED BY <2>1, <3>1, <3>2
    <2>6. ~NoScan' /\ ~InstagramGets'
          BY <2>4, InstagramAfterwards DEF NoScan, Idle
    <2>7. MayJudge' => MayJudge /\ Unmistaken' /\ ~errors
          BY <1>1, <2>5 DEF MayJudge
    <2>8. InstagramOrderly'
          BY <1>2, <2>5, <2>6 DEF InstagramOrderly
    <2>9. HeadIsFirst' /\ SectionSeen'
          BY <2>5 DEF HeadIsFirst, SectionSeen
    <2>10. MayJudge' => \A p \in AtStake : p \in scan.posts \cup listed \cup left
      <3> SUFFICES ASSUME MayJudge', NEW p \in AtStake PROVE p \in scan.posts \cup listed \cup left
          OBVIOUS
      <3>1. p \in Post
            BY PresenceAssumption DEF AtStake, ProfileSound, PresenceTypeOK, Post
      <3>2. CASE KindOf[p] = "timeline"
            BY <1>4, <2>7, <3>2 DEF SectionsSeen, InstagramSeen
      <3>3. CASE KindOf[p] = "reels"
            BY <1>4, <2>7, <3>3
      <3> QED BY <3>1, <3>2, <3>3, KindsOfPosts
    <2>11. SectionsSeen'
          BY <1>1, <2>5, <2>6, <2>10 DEF SectionsSeen
    <2>12. InstagramPassesOver'
          BY <1>1, <2>5, <2>6 DEF InstagramPassesOver
    <2> QED BY <1>1, <2>4, <2>8, <2>9, <2>11, <2>12 DEF InstagramSeen
  <1> QED BY <1>3, <1>4

\* What is at stake and not shown has left.
LEMMA AtStakeShown ==
    ASSUME ProfileSound
    PROVE  \A p \in AtStake : p \in shown \cup left
  BY DEF ProfileSound, PresenceTypeOK, HiddenHaveLeft, AtStake

LEMMA InstagramPages ==
    ASSUME InstagramInv, InstagramPage
    PROVE  InstagramInv'
  <1> USE DEF InstagramInv
  <1> DEFINE page == PageAfter(scan.at, Feed)
  <1>1. /\ published' = published /\ shown' = shown /\ ledger' = ledger /\ tombs' = tombs
        /\ left' = left /\ held' = held /\ media' = media /\ trouble' = trouble
        /\ ~NoScan /\ scan.step \in {"timeline", "reels"}
        BY DEF InstagramPage, Discovering
  <1>2. InstagramLooks
        BY <1>1, InstagramKinds
  <1>3. scan.listed \subseteq 1..published /\ shown \subseteq 1..published /\ published \in Nat
        BY <1>2, PresenceAssumption DEF InstagramOrderly, ProfileSound, PresenceTypeOK
  <1>4. /\ Feed \subseteq shown
        /\ \A p \in shown : KindOf[p] = scan.step => p \in Feed
        BY <1>1 DEF Feed, OfKind
  <1>5. /\ page \subseteq Feed
        /\ \A p \in page : \A q \in Feed : Ahead(scan.at, q) => q = p \/ Before(p, q)
        /\ page = {} => \A q \in Feed : ~Ahead(scan.at, q)
    <2>1. Feed \in SUBSET (1..published)
          BY <1>3, <1>4
    <2> QED BY <1>3, <2>1, PageIsNext
  <1>6. MayJudge => \A p \in AtStake :
            KindOf[p] = scan.step => p \in scan.listed \cup left \/ Ahead(scan.at, p)
        BY <1>1, <1>2 DEF SectionSeen, InstagramSeen
  <1>7. scan.errors \in BOOLEAN /\ scan.limited \in BOOLEAN
        BY <1>2 DEF InstagramLooks, LooksAs
  <1>8. CASE page = {} /\ scan' = NextSection(scan.listed) /\ blame' = blame
    <2>1. MayJudge => \A p \in AtStake : KindOf[p] = scan.step => p \in scan.listed \cup left
          BY <1>4, <1>5, <1>6, <1>8, AtStakeShown
    <2>2. blame \subseteq blame'
          BY <1>8
    <2> QED BY <1>1, <1>2, <1>3, <1>7, <1>8, <2>1, <2>2, InstagramTurns
  <1>9. ASSUME NEW p \in page, scan' = NextSection(scan.listed), Cut(scan.listed)
        PROVE  InstagramInv'
    <2>1. blame \subseteq blame'
          BY <1>9 DEF Cut
    <2>2. Unmistaken' => OfKind(shown, scan.step) \subseteq scan.listed
          BY <1>9 DEF Cut, Unmistaken
    <2>3. Unmistaken' =>
              \A x \in AtStake : KindOf[x] = scan.step => x \in scan.listed \cup left
          BY <2>2, AtStakeShown DEF OfKind
    <2> QED BY <1>1, <1>2, <1>3, <1>7, <1>9, <2>1, <2>3, InstagramTurns
  <1>10. ASSUME NEW p \in page, NEW streak, blame' = blame,
                scan' = IF EnoughKnown(streak)
                        THEN NextSection(scan.listed \cup OfKind({p}, scan.step))
                        ELSE [scan EXCEPT !.at = p, !.streak = streak,
                                          !.listed = scan.listed \cup OfKind({p}, scan.step)]
        PROVE  InstagramInv'
    <2> DEFINE listed == scan.listed \cup OfKind({p}, scan.step)
    <2>1. listed \subseteq 1..published /\ scan.listed \subseteq listed
          BY <1>3, <1>4, <1>5, <1>10 DEF OfKind
    <2>2. KindOf[p] = scan.step => p \in listed
          BY DEF OfKind
    <2>3. scan' = IF EnoughKnown(streak) THEN NextSection(listed)
                  ELSE [scan EXCEPT !.at = p, !.streak = streak, !.listed = listed]
          BY <1>10
    <2> HIDE DEF listed
    <2>4. CASE EnoughKnown(streak)
      <3>1. ~MayJudge
            BY <2>4 DEF EnoughKnown, StopsEarly, MayJudge
      <3>2. scan' = NextSection(listed) /\ blame \subseteq blame'
            BY <1>10, <2>3, <2>4
      <3> QED BY <1>1, <1>2, <1>7, <2>1, <3>1, <3>2, InstagramTurns
    <2>5. CASE ~EnoughKnown(streak)
      <3>1. scan' = [scan EXCEPT !.at = p, !.streak = streak, !.via = scan.via, !.listed = listed]
            BY <1>2, <2>3, <2>5 DEF InstagramLooks, LooksAs
      <3>2. MayJudge => \A x \in AtStake :
                KindOf[x] = scan.step => x \in listed \cup left \/ Ahead(p, x)
        <4> SUFFICES ASSUME MayJudge, NEW x \in AtStake, KindOf[x] = scan.step,
                            x \notin listed \cup left
                     PROVE  Before(p, x)
            BY DEF Ahead
        <4>1. Ahead(scan.at, x) /\ x \in Feed
              BY <1>4, <1>6, <2>1, AtStakeShown
        <4>2. x # p
              BY <2>2
        <4> QED BY <1>5, <1>10, <4>1, <4>2
      <3> QED BY <1>1, <1>2, <1>10, <2>1, <3>1, <3>2, InstagramStays
    <2> QED BY <2>4, <2>5
  <1>11. \/ page = {} /\ scan' = NextSection(scan.listed) /\ blame' = blame
         \/ \E p \in page :
              IF scan.via /\ scan.step = "timeline" /\ p \in Clips
              THEN scan' = NextSection(scan.listed) /\ Cut(scan.listed)
              ELSE LET streak == IF PageKnown(p) THEN scan.streak + 1 ELSE 0
                       listed == scan.listed \cup OfKind({p}, scan.step)
                   IN  /\ scan' = IF EnoughKnown(streak) THEN NextSection(listed)
                                  ELSE [scan EXCEPT !.at = p, !.streak = streak, !.listed = listed]
                       /\ UNCHANGED blame
        BY DEF InstagramPage
  <1> HIDE DEF page
  <1>12. CASE page = {} /\ scan' = NextSection(scan.listed) /\ blame' = blame
        BY <1>8, <1>12
  <1>13. ASSUME NEW p \in page,
                IF scan.via /\ scan.step = "timeline" /\ p \in Clips
                THEN scan' = NextSection(scan.listed) /\ Cut(scan.listed)
                ELSE LET streak == IF PageKnown(p) THEN scan.streak + 1 ELSE 0
                         listed == scan.listed \cup OfKind({p}, scan.step)
                     IN  /\ scan' = IF EnoughKnown(streak) THEN NextSection(listed)
                                    ELSE [scan EXCEPT !.at = p, !.streak = streak, !.listed = listed]
                         /\ UNCHANGED blame
         PROVE  InstagramInv'
    <2>1. CASE scan.via /\ scan.step = "timeline" /\ p \in Clips
          BY <1>9, <1>13, <2>1
    <2>2. CASE ~(scan.via /\ scan.step = "timeline" /\ p \in Clips)
      <3> DEFINE streak == IF PageKnown(p) THEN scan.streak + 1 ELSE 0
      <3>1. /\ scan' = IF EnoughKnown(streak)
                       THEN NextSection(scan.listed \cup OfKind({p}, scan.step))
                       ELSE [scan EXCEPT !.at = p, !.streak = streak,
                                         !.listed = scan.listed \cup OfKind({p}, scan.step)]
            /\ blame' = blame
            BY <1>13, <2>2
      <3> HIDE DEF streak
      <3> QED BY <1>10, <1>13, <3>1
    <2> QED BY <2>1, <2>2
  <1> QED BY <1>11, <1>12, <1>13

LEMMA InstagramIsRefused ==
    ASSUME InstagramInv, InstagramRefused
    PROVE  InstagramInv'
  <1> USE DEF InstagramInv
  <1>1. /\ published' = published /\ shown' = shown /\ ledger' = ledger /\ tombs' = tombs
        /\ left' = left /\ held' = held /\ media' = media /\ Happens
        /\ ~NoScan /\ scan.step \in {"timeline", "reels"}
        BY DEF InstagramRefused, Discovering
  <1>2. InstagramLooks
        BY <1>1, InstagramKinds
  <1>3. /\ scan.head \cup scan.listed \subseteq 1..published
        /\ scan.errors \in BOOLEAN /\ scan.limited \in BOOLEAN
        BY <1>2 DEF InstagramOrderly, InstagramLooks, LooksAs
  <1>4. CASE scan.step = "timeline" /\ blame' = blame
             /\ scan' = [scan EXCEPT !.via = FALSE, !.streak = 0, !.at = LastOf(scan.head),
                                     !.listed = OfKind(scan.head, "timeline")]
    <2>1. scan' = [scan EXCEPT !.at = LastOf(scan.head), !.streak = 0, !.via = FALSE,
                               !.listed = OfKind(scan.head, "timeline")]
          BY <1>2, <1>4 DEF InstagramLooks, LooksAs
    <2>2. OfKind(scan.head, "timeline") \in SUBSET (1..published)
          BY <1>3 DEF OfKind
    <2>3. MayJudge => \A p \in AtStake : KindOf[p] = scan.step =>
              p \in OfKind(scan.head, "timeline") \cup left \/ Ahead(LastOf(scan.head), p)
          BY <1>2, <1>4 DEF HeadIsFirst, InstagramSeen, OfKind
    <2> QED BY <1>1, <1>2, <1>4, <2>1, <2>2, <2>3, InstagramStays
  <1>5. CASE blame' = blame /\ scan' = [scan EXCEPT !.via = FALSE, !.streak = 0, !.at = 0]
    <2> DEFINE start == 0
               listed == scan.listed
    <2>1. scan' = [scan EXCEPT !.at = start, !.streak = start, !.via = FALSE, !.listed = listed]
          BY <1>2, <1>5 DEF InstagramLooks, LooksAs
    <2>2. listed \in SUBSET (1..published) /\ blame' = blame
          BY <1>3, <1>5
    <2>3. MayJudge => \A p \in AtStake : KindOf[p] = scan.step =>
              p \in listed \cup left \/ Ahead(start, p)
          BY DEF Ahead
    <2> HIDE DEF start, listed
    <2> QED BY <1>1, <1>2, <2>1, <2>2, <2>3, InstagramStays
  <1>6. ASSUME NEW limited \in BOOLEAN, blame' = blame,
               scan' = [NextSection({}) EXCEPT !.errors = TRUE, !.limited = @ \/ limited]
        PROVE  InstagramInv'
    <2> DEFINE either == NextSection({}).limited \/ limited
    <2>1. scan' = [NextSection({}) EXCEPT !.errors = TRUE, !.limited = either]
          BY <1>6 DEF NextSection
    <2>2. NextSection({}).limited = scan.limited
          BY <1>2 DEF NextSection, InstagramLooks, LooksAs
    <2>3. either \in BOOLEAN /\ (scan.limited => either)
          BY <2>2
    <2> HIDE DEF either
    <2>4. blame \subseteq blame' /\ {} \in SUBSET (1..published)
          BY <1>6
    <2>5. TRUE \in BOOLEAN
          OBVIOUS
    <2> QED BY <1>1, <1>2, <2>1, <2>3, <2>4, <2>5, InstagramTurns
  <1>7. CASE scan' = NextSection(scan.listed) /\ Cut(scan.listed)
    <2>1. blame \subseteq blame'
          BY <1>7 DEF Cut
    <2>2. Unmistaken' => OfKind(shown, scan.step) \subseteq scan.listed
          BY <1>7 DEF Cut, Unmistaken
    <2>3. Unmistaken' =>
              \A p \in AtStake : KindOf[p] = scan.step => p \in scan.listed \cup left
          BY <2>2, AtStakeShown DEF OfKind
    <2> QED BY <1>1, <1>2, <1>3, <1>7, <2>1, <2>3, InstagramTurns
  <1>8. \/ /\ scan' = IF scan.step = "timeline"
                      THEN [scan EXCEPT !.via = FALSE, !.streak = 0,
                                        !.at = LastOf(scan.head),
                                        !.listed = OfKind(scan.head, "timeline")]
                      ELSE [scan EXCEPT !.via = FALSE, !.streak = 0, !.at = 0]
           /\ blame' = blame
        \/ /\ \E limited \in BOOLEAN :
                scan' = [NextSection({}) EXCEPT !.errors = TRUE, !.limited = @ \/ limited]
           /\ blame' = blame
        \/ scan' = NextSection(scan.listed) /\ Cut(scan.listed)
        BY Zenon DEF InstagramRefused
  <1>9. CASE \E limited \in BOOLEAN :
                /\ scan' = [NextSection({}) EXCEPT !.errors = TRUE, !.limited = @ \/ limited]
                /\ blame' = blame
        BY <1>6, <1>9
  <1> QED BY <1>1, <1>4, <1>5, <1>7, <1>8, <1>9

\* What is fetched was listed, is not here and was not deleted.
LEMMA InstagramPlans ==
    ASSUME InstagramInv, InstagramPlan
    PROVE  InstagramInv'
  <1> USE DEF InstagramInv
  <1> DEFINE posts == scan.posts \ Suppressed
             plan == posts \ Present
  <1>1. /\ published' = published /\ shown' = shown /\ ledger' = ledger /\ tombs' = tombs
        /\ left' = left /\ held' = held /\ media' = media /\ blame' = blame
        /\ trouble' = trouble /\ ~NoScan /\ scan.step = "plan"
        BY DEF InstagramPlan
  <1>2. scan' = [step |-> "fetch", from |-> scan.from, span |-> scan.span, full |-> scan.full,
                 missing_only |-> scan.missing_only, listed |-> scan.posts,
                 posts |-> posts, plan |-> plan, got |-> {},
                 errors |-> scan.errors, limited |-> scan.limited]
        BY DEF InstagramPlan
  <1>3. InstagramLooks
        BY <1>1, InstagramKinds
  <1>4. /\ scan.posts \subseteq 1..published /\ held \subseteq scan.on_disk
        /\ scan.posts \subseteq Post
        /\ scan.errors \in BOOLEAN /\ scan.limited \in BOOLEAN
        BY <1>3 DEF InstagramOrderly, InstagramLooks, LooksAs
  <1>5. /\ posts \subseteq scan.posts /\ plan \subseteq posts /\ plan \cap scan.on_disk = {}
        BY DEF Present
  <1>6. "unrecorded" \notin blame => plan \cap tombs = {}
    <2> SUFFICES ASSUME "unrecorded" \notin blame PROVE plan \cap tombs = {}
        OBVIOUS
    <2>1. /\ scan.deleted \subseteq scan.keys \cup scan.media
          /\ tombs \subseteq scan.deleted \cup scan.on_disk
          BY <1>3 DEF InstagramPassesOver
    <2> QED BY <2>1 DEF Suppressed, Present
  <1> HIDE DEF posts, plan
  <1>7. /\ ProfileSound' /\ SuspectsHaveLeft' /\ DeletedStaysDeleted'
        /\ Known' = Known /\ AtStake' = AtStake
        /\ Unmistaken' => Unmistaken
        /\ "unrecorded" \notin blame' => tombs' \subseteq Known' \cup media'
    <2>1. blame \subseteq blame'
          BY <1>1
    <2> QED BY <1>1, <2>1, InstagramAside
  <1>8. InstagramGets'
        BY <1>2, <1>4, <1>5 DEF InstagramGets
  <1>9. ~NoScan' /\ ~InstagramLooks'
        BY <1>2, InstagramAfterwards DEF NoScan, Idle
  <1>10. InstagramOrderly'
        BY <1>1, <1>2, <1>4, <1>5, <1>9 DEF InstagramOrderly
  <1>11. HeadIsFirst' /\ SectionSeen'
        BY <1>9 DEF HeadIsFirst, SectionSeen
  <1>12. SectionsSeen'
    <2>1. MayJudge' => MayJudge
          BY <1>2, <1>7 DEF MayJudge
    <2>2. MayJudge => AtStake \subseteq scan.posts \cup left
          BY <1>1, <1>3 DEF SectionsSeen, InstagramSeen
    <2> QED BY <1>1, <1>2, <1>7, <1>9, <2>1, <2>2 DEF SectionsSeen
  <1>13. InstagramPassesOver'
        BY <1>1, <1>2, <1>6, <1>7, <1>9 DEF InstagramPassesOver
  <1> QED BY <1>7, <1>8, <1>10, <1>11, <1>12, <1>13 DEF InstagramSeen

LEMMA InstagramFetches ==
    ASSUME InstagramInv, InstagramFetch
    PROVE  InstagramInv'
  <1> USE DEF InstagramInv
  <1>1. /\ published' = published /\ shown' = shown /\ ledger' = ledger /\ tombs' = tombs
        /\ left' = left /\ media' = media /\ blame' = blame
        /\ ~NoScan /\ scan.step = "fetch"
        BY DEF InstagramFetch
  <1>2. InstagramGets
        BY <1>1, InstagramKinds
  <1>3. PICK timeline \in Leading(OfKind(scan.plan, "timeline")),
             reels \in Leading(OfKind(scan.plan, "reels")), limited \in BOOLEAN :
           LET got == timeline \cup reels IN
           /\ limited => got # scan.plan
           /\ held' = held \cup got
           /\ scan' = [scan EXCEPT !.step = "media", !.got = got,
                                   !.errors = @ \/ got # scan.plan, !.limited = @ \/ limited]
           /\ IF got = scan.plan THEN UNCHANGED trouble ELSE Happens
        BY Zenon DEF InstagramFetch
  <1> DEFINE got == timeline \cup reels
             errors == scan.errors \/ got # scan.plan
             now_limited == scan.limited \/ limited
  <1>4. got \subseteq scan.plan
        BY DEF Leading, OfKind
  <1>5. /\ held' = held \cup got /\ (trouble' = trouble \/ Happens)
        /\ scan' = [scan EXCEPT !.step = "media", !.got = got, !.errors = errors,
                                !.limited = now_limited]
        BY <1>2, <1>3 DEF InstagramGets
  <1>6. errors \in BOOLEAN /\ now_limited \in BOOLEAN
        OBVIOUS
  <1>7. (~errors => ~scan.errors) /\ (~now_limited => ~scan.limited)
        OBVIOUS
  <1> HIDE DEF got, errors, now_limited
  <1>8. /\ scan.listed \subseteq 1..published /\ scan.posts \subseteq scan.listed
        /\ scan.plan \subseteq scan.posts /\ scan.plan \in SUBSET Post
        BY <1>2 DEF InstagramOrderly, InstagramGets
  <1>9. InstagramGets'
        BY <1>2, <1>4, <1>5, <1>6, <1>8 DEF InstagramGets
  <1>10. /\ scan'.step = "media" /\ scan'.full = scan.full
         /\ scan'.missing_only = scan.missing_only /\ scan'.listed = scan.listed
         /\ scan'.posts = scan.posts /\ scan'.plan = scan.plan /\ scan'.got = got
         /\ scan'.errors = errors /\ scan'.limited = now_limited
        BY <1>2, <1>5 DEF InstagramGets
  <1>11. ~NoScan' /\ ~InstagramLooks'
        BY <1>10, InstagramAfterwards DEF NoScan, Idle
  <1>12. ProfileSound' /\ (SuspectsHaveLeft => SuspectsHaveLeft') /\ Known' = Known
    <2>1. held \subseteq 1..published /\ media \subseteq 1..published
          BY DEF ProfileSound, PresenceTypeOK
    <2>2. held' \subseteq 1..published /\ media' \subseteq 1..published
          BY <1>1, <1>4, <1>5, <1>8, <2>1
    <2>3. trouble' \in 0..MaxTrouble
          BY <1>5, PresenceAssumption DEF Happens, ProfileSound, PresenceTypeOK
    <2>4. blame \subseteq blame'
          BY <1>1
    <2> QED BY <1>1, <2>2, <2>3, <2>4, UntouchedProfile
  <1>13. InstagramOrderly'
        BY <1>1, <1>4, <1>8, <1>10, <1>11 DEF InstagramOrderly
  <1>14. HeadIsFirst' /\ SectionSeen'
        BY <1>11 DEF HeadIsFirst, SectionSeen
  <1>15. SectionsSeen'
    <2>1. MayJudge' => MayJudge
          BY <1>1, <1>7, <1>10 DEF MayJudge, Unmistaken
    <2>2. MayJudge => AtStake \subseteq scan.listed \cup left
          BY <1>1, <1>2 DEF SectionsSeen, InstagramSeen
    <2>3. AtStake' = AtStake \cup got
          BY <1>5, <1>12 DEF AtStake
    <2>4. got \subseteq scan.listed
          BY <1>4, <1>8
    <2> QED BY <1>1, <1>10, <1>11, <2>1, <2>2, <2>3, <2>4 DEF SectionsSeen
  <1>16. InstagramPassesOver'
        BY <1>1, <1>10, <1>11, <1>12 DEF InstagramPassesOver
  <1>17. DeletedStaysDeleted'
    <2>1. "unrecorded" \notin blame => got \cap tombs = {}
          BY <1>1, <1>2, <1>4 DEF InstagramPassesOver
    <2> QED BY <1>1, <1>5, <2>1 DEF DeletedStaysDeleted
  <1> QED BY <1>9, <1>12, <1>13, <1>14, <1>15, <1>16, <1>17 DEF InstagramSeen

\* The verdict: who was listed and passed over is told apart, and who was not listed
\* has left.
LEMMA InstagramRecordsPosts ==
    ASSUME InstagramInv, InstagramRecordPosts
    PROVE  InstagramInv'
  <1> USE DEF InstagramInv
  <1> DEFINE q == InstagramQualification
             rs == Recorded(scan.posts, KindOf)
  <1>1. /\ published' = published /\ shown' = shown /\ held' = held /\ media' = media
        /\ tombs' = tombs /\ trouble' = trouble /\ ~NoScan /\ scan.step = "posts"
        /\ Presence(q, rs)
        /\ blame' = blame
             \cup (IF scan.plan \subseteq scan.got THEN {} ELSE {"dropped"})
             \cup (IF Qualifies(q) /\ (Judged(q, rs) \cap scan.listed) \ scan.posts # {}
                   THEN {"unseen"} ELSE {})
        BY DEF InstagramRecordPosts
  <1>2. PICK step \in {"warning", "succeeded"} : scan' = [scan EXCEPT !.step = step]
        BY DEF InstagramRecordPosts
  <1>3. InstagramGets
        BY <1>1, InstagramKinds
  <1>4. /\ scan.listed \subseteq 1..published /\ scan.posts \subseteq scan.listed
        /\ scan.plan \subseteq scan.posts /\ scan.got \subseteq scan.plan
        BY <1>3 DEF InstagramOrderly
  <1>5. scan.posts \in SUBSET (1..published) /\ \A p \in scan.posts : KindOf[p] \in Section
        BY <1>4, PresenceAssumption DEF KindOf, Section, Post, ProfileSound, PresenceTypeOK
  <1>6. q.observed = scan.posts
        BY DEF InstagramQualification
  <1>7. Unmistaken' /\ Qualifies(q) => Judged(q, rs) \ q.observed \subseteq left
    <2> SUFFICES ASSUME Unmistaken', Qualifies(q), NEW p \in Judged(q, rs), p \notin scan.posts
                 PROVE  p \in left
        BY <1>6
    <2>1. /\ Unmistaken
          /\ (Judged(q, rs) \cap scan.listed) \ scan.posts = {}
          BY <1>1 DEF Unmistaken
    <2>2. MayJudge
          BY <2>1 DEF MayJudge, Qualifies, InstagramQualification
    <2>3. p \in Known
          BY DEF Judged, Recorded, Known
    <2>4. p \in scan.listed \cup left
          BY <1>1, <1>3, <2>2, <2>3 DEF SectionsSeen, InstagramSeen, AtStake
    <2> QED BY <2>1, <2>4
  <1>8. ProfileSound' /\ SuspectsHaveLeft' /\ Known' = Known \cup scan.posts
    <2>1. blame \subseteq blame'
          BY <1>1
    <2> QED BY <1>1, <1>5, <1>7, <2>1, JudgedProfile, SMTT(30)
  <1> HIDE DEF q, rs
  <1>9. InstagramGets'
        BY <1>2, <1>3 DEF InstagramGets
  <1>10. /\ scan'.step = step /\ scan'.listed = scan.listed /\ scan'.posts = scan.posts
         /\ scan'.plan = scan.plan /\ scan'.got = scan.got
        BY <1>2, <1>3 DEF InstagramGets
  <1>11. ~NoScan' /\ ~InstagramLooks'
        BY <1>10, InstagramAfterwards DEF NoScan, Idle
  <1>12. InstagramOrderly'
        BY <1>1, <1>4, <1>10, <1>11 DEF InstagramOrderly
  <1>13. InstagramSeen'
        BY <1>10, <1>11 DEF InstagramSeen, HeadIsFirst, SectionSeen, SectionsSeen
  <1>14. InstagramPassesOver'
        BY <1>1, <1>8, <1>10, <1>11 DEF InstagramPassesOver
  <1>15. DeletedStaysDeleted'
        BY <1>1 DEF DeletedStaysDeleted
  <1> QED BY <1>8, <1>9, <1>12, <1>13, <1>14, <1>15

\* The media ledger, and the ends a sync may come to.
LEMMA InstagramCloses ==
    ASSUME InstagramInv, InstagramRecordMedia \/ InstagramEnd \/ InstagramStop
    PROVE  InstagramInv'
  <1> USE DEF InstagramInv
  <1>1. CASE InstagramRecordMedia
    <2>1. /\ published' = published /\ shown' = shown /\ ledger' = ledger /\ tombs' = tombs
          /\ left' = left /\ held' = held /\ media' = media \cup scan.got /\ blame' = blame
          /\ trouble' = trouble /\ scan' = [scan EXCEPT !.step = "posts"]
          /\ ~NoScan /\ scan.step = "media"
          BY <1>1 DEF InstagramRecordMedia
    <2>2. InstagramGets
          BY <2>1, InstagramKinds
    <2>3. /\ scan.listed \subseteq 1..published /\ scan.posts \subseteq scan.listed
          /\ scan.plan \subseteq scan.posts /\ scan.got \subseteq scan.plan
          BY <2>2 DEF InstagramOrderly
    <2>4. InstagramGets'
          BY <2>1, <2>2 DEF InstagramGets
    <2>5. /\ scan'.step = "posts" /\ scan'.full = scan.full
          /\ scan'.missing_only = scan.missing_only /\ scan'.listed = scan.listed
          /\ scan'.posts = scan.posts /\ scan'.plan = scan.plan /\ scan'.got = scan.got
          /\ scan'.errors = scan.errors /\ scan'.limited = scan.limited
          BY <2>1, <2>2 DEF InstagramGets
    <2>6. ~NoScan' /\ ~InstagramLooks'
          BY <2>5, InstagramAfterwards DEF NoScan, Idle
    <2>7. ProfileSound' /\ (SuspectsHaveLeft => SuspectsHaveLeft') /\ Known' = Known
      <3>1. held \subseteq 1..published /\ media \subseteq 1..published
            /\ trouble \in 0..MaxTrouble
            BY DEF ProfileSound, PresenceTypeOK
      <3>2. media' \subseteq 1..published /\ blame \subseteq blame'
            BY <2>1, <2>3, <3>1
      <3> QED BY <2>1, <3>1, <3>2, UntouchedProfile
    <2>8. InstagramOrderly'
          BY <2>1, <2>3, <2>5, <2>6 DEF InstagramOrderly
    <2>9. InstagramSeen'
      <3>1. MayJudge' => MayJudge
            BY <2>1, <2>5 DEF MayJudge, Unmistaken
      <3>2. MayJudge => AtStake \subseteq scan.listed \cup left
            BY <2>1, <2>2 DEF SectionsSeen, InstagramSeen
      <3> QED BY <2>1, <2>5, <2>6, <2>7, <3>1, <3>2
              DEF InstagramSeen, HeadIsFirst, SectionSeen, SectionsSeen, AtStake
    <2>10. InstagramPassesOver'
          BY <2>1, <2>5, <2>6, <2>7 DEF InstagramPassesOver
    <2>11. DeletedStaysDeleted'
          BY <2>1 DEF DeletedStaysDeleted
    <2> QED BY <2>4, <2>7, <2>8, <2>9, <2>10, <2>11
  <1>2. CASE InstagramEnd
    <2>1. /\ published' = published /\ shown' = shown /\ ledger' = ledger /\ tombs' = tombs
          /\ left' = left /\ held' = held /\ media' = media /\ blame' = blame
          /\ trouble' = trouble /\ scan' = Idle
          BY <1>2 DEF InstagramEnd
    <2>2. blame \subseteq blame'
          BY <2>1
    <2> QED BY <2>1, <2>2, InstagramAside, InstagramOver
  <1>3. CASE InstagramStop
    <2>1. /\ published' = published /\ shown' = shown /\ ledger' = ledger /\ tombs' = tombs
          /\ left' = left /\ media' = media /\ Happens /\ scan' = Idle /\ ~NoScan
          BY <1>3 DEF InstagramStop
    <2>2. PICK timeline \in Leading(OfKind(scan.plan, "timeline")),
               reels \in Leading(OfKind(scan.plan, "reels")) :
             LET got == IF scan.step = "fetch" THEN timeline \cup reels ELSE scan.got IN
             /\ held' = IF scan.step = "fetch" THEN held \cup got ELSE held
             /\ blame' = IF got # {} /\ got # scan.plan THEN blame \cup {"hidden"} ELSE blame
          BY <1>3 DEF InstagramStop
    <2>3. timeline \cup reels \subseteq scan.plan
          BY DEF Leading, OfKind
    <2>4. blame \subseteq blame' /\ ("unrecorded" \notin blame' => "unrecorded" \notin blame)
          /\ ("overtaken" \notin blame' => "overtaken" \notin blame)
          BY <2>2
    <2>5. CASE scan.step # "fetch"
      <3>1. held' = held
            BY <2>2, <2>5
      <3>2. /\ ProfileSound' /\ SuspectsHaveLeft' /\ DeletedStaysDeleted'
            /\ "unrecorded" \notin blame' => tombs' \subseteq Known' \cup media'
            BY <2>1, <2>4, <3>1, InstagramAside
      <3> QED BY <2>1, <3>2, InstagramOver
    <2>6. CASE scan.step = "fetch"
      <3>1. InstagramGets
            BY <2>1, <2>6, InstagramKinds
      <3>2. PICK got \in SUBSET scan.plan : held' = held \cup got
            BY <2>2, <2>3, <2>6
      <3>3. scan.plan \subseteq 1..published
            BY <3>1 DEF InstagramOrderly
      <3>4. ProfileSound' /\ (SuspectsHaveLeft => SuspectsHaveLeft') /\ Known' = Known
        <4>1. /\ held \subseteq 1..published /\ media \subseteq 1..published
              /\ trouble' \in 0..MaxTrouble
              BY <2>1, PresenceAssumption DEF Happens, ProfileSound, PresenceTypeOK
        <4>2. held' \subseteq 1..published
              BY <3>2, <3>3, <4>1
        <4> QED BY <2>1, <2>4, <4>1, <4>2, UntouchedProfile
      <3>5. DeletedStaysDeleted'
        <4>1. "unrecorded" \notin blame => scan.plan \cap tombs = {}
              BY <2>6, <3>1 DEF InstagramPassesOver
        <4> QED BY <2>1, <2>4, <3>2, <4>1 DEF DeletedStaysDeleted
      <3>6. "unrecorded" \notin blame' => tombs' \subseteq Known' \cup media'
            BY <2>1, <2>4, <3>4 DEF InstagramPassesOver
      <3> QED BY <2>1, <3>4, <3>5, <3>6, InstagramOver
    <2> QED BY <2>5, <2>6
  <1> QED BY <1>1, <1>2, <1>3

LEMMA InstagramInductive ==
    ASSUME InstagramInv, [InstagramNext]_profile_vars
    PROVE  InstagramInv'
  <1>1. ASSUME NEW full \in BOOLEAN, NEW missing_only \in BOOLEAN, NEW gql \in BOOLEAN,
               InstagramStart(full, missing_only, gql)
        PROVE  InstagramInv'
        BY <1>1, InstagramStarts
  <1>2. CASE InstagramPage
        BY <1>2, InstagramPages
  <1>3. CASE InstagramRefused
        BY <1>3, InstagramIsRefused
  <1>4. CASE InstagramPlan
        BY <1>4, InstagramPlans
  <1>5. CASE InstagramFetch
        BY <1>5, InstagramFetches
  <1>6. CASE InstagramRecordPosts
        BY <1>6, InstagramRecordsPosts
  <1>7. CASE InstagramRecordMedia \/ InstagramEnd \/ InstagramStop
        BY <1>7, InstagramCloses
  <1>8. CASE AuthorStep \/ \E p \in Post : InstagramDelete(p)
        BY <1>8, InstagramOutside
  <1>9. CASE UNCHANGED profile_vars
    <2>1. /\ published' = published /\ shown' = shown /\ held' = held /\ media' = media
          /\ ledger' = ledger /\ tombs' = tombs /\ scan' = scan /\ left' = left
          /\ trouble' = trouble /\ blame' = blame
          BY <1>9 DEF profile_vars
    <2>2. blame \subseteq blame'
          BY <2>1
    <2>3. /\ ProfileSound' /\ SuspectsHaveLeft' /\ Known' = Known
          /\ "unrecorded" \notin blame' => tombs' \subseteq Known' \cup media'
          BY <2>1, <2>2, InstagramAside
    <2>4. Outside
          BY <2>1, <2>3, PresenceAssumption
          DEF Outside, AtStake, InstagramInv, ProfileSound, PresenceTypeOK
    <2> QED BY <2>2, <2>3, <2>4, InstagramBeside
  <1> QED BY <1>1, <1>2, <1>3, <1>4, <1>5, <1>6, <1>7, <1>8, <1>9 DEF InstagramNext

LEMMA InstagramAlways == InstagramSpec => []InstagramInv
  <1>1. PresenceInit => InstagramInv
        BY InstagramInitial
  <1>2. InstagramInv /\ [InstagramNext]_profile_vars => InstagramInv'
        BY InstagramInductive
  <1> QED BY <1>1, <1>2, PTL DEF InstagramSpec

\* The same of a profile of Instagram, whatever is pinned or a reel and however many
\* known pages end a listing: an incremental scan, one for what is missing, a GraphQL
\* listing that gave way or a section that was dropped flags nobody.
THEOREM InstagramFlagsTheGone == InstagramSpec => []FlaggedWasGone
  <1>1. InstagramInv => FlaggedWasGone
        BY FlaggedAreSuspected DEF InstagramInv
  <1> QED BY <1>1, InstagramAlways, PTL

\* Instagram's syncs go by both ledgers, or by the deletions when they look for what is
\* missing: what either ledger names and the user deleted is not fetched.
THEOREM InstagramDeletionsStand == InstagramSpec => []DeletedStaysDeleted
  <1>1. InstagramInv => DeletedStaysDeleted
        BY DEF InstagramInv
  <1> QED BY <1>1, InstagramAlways, PTL

-----------------------------------------------------------------------------
(***************************************************************************)
(* The videos that the owner of a TikTok account likes.                    *)
(***************************************************************************)

LikesListing ==
    [step : {"list", "fetch", "save"}, stops : BOOLEAN, limit : ItemLimits, known : SUBSET Clip,
     cursor : 0..(LastLike + 1), items : SUBSET Clip, streak : Nat, failed : BOOLEAN,
     ends : BOOLEAN, liked : SUBSET Clip]

LikesSound ==
    /\ liked \subseteq 1..likes /\ likes \in FirstLikes..LastLike
    /\ clips \subseteq 1..likes /\ noted \subseteq 1..likes
    /\ listing \in {NoListing} \cup LikesListing
    /\ full_scan \in BOOLEAN /\ gap \subseteq {"limited", "cut"}
    /\ unfetched \subseteq Clip /\ discarded \subseteq Clip /\ scans \in 0..MaxScans

Settled == clips \cup discarded

\* What a listing knows and has: the files there were, videos liked when it began,
\* and nothing of what was liked since, which is newer than all of it.
ListingSound ==
    listing # NoListing =>
        /\ listing.known \subseteq 1..likes /\ listing.liked \subseteq 1..likes
        /\ listing.known \subseteq Settled
        /\ listing.items \subseteq listing.liked
        /\ \A w \in liked \ listing.liked :
             \A v \in clips \cup listing.known \cup listing.liked : v < w
        /\ listing.stops => full_scan

\* While it lists, it has what is ahead of its cursor.
ListedSoFar ==
    listing.step = "list" =>
        /\ listing.cursor <= likes + 1
        /\ \A w \in liked \ listing.liked : listing.cursor <= w
        /\ \A w \in liked \cap listing.liked : listing.cursor <= w => w \in listing.items

\* While it fetches, it has what is not settled of all that was liked when it began.
FetchingSound ==
    listing.step \in {"fetch", "save"} =>
        /\ listing.ends => full_scan
        /\ full_scan /\ gap = {} => liked \cap listing.liked \subseteq Settled \cup listing.items
        /\ listing.step = "save" => listing.items # {} /\ Newest(listing.items) \in Settled

\* Between, what is older than a settled video is settled.
SettledBelow ==
    listing.step \in {"none", "list"} /\ full_scan /\ gap = {} =>
        \A v \in clips \cup (IF listing = NoListing THEN {} ELSE listing.known) :
            \A w \in liked : w < v => w \in Settled

LikesInv ==
    /\ LikesSound /\ ListingSound /\ ListedSoFar /\ FetchingSound /\ SettledBelow
    /\ LikesAreFetched

LEMMA ListingRuns ==
    ASSUME LikesInv, listing.step \in {"list", "fetch", "save"}
    PROVE  listing \in LikesListing /\ listing # NoListing
  <1>1. NoListing.step = "none"
        BY DEF NoListing
  <1> QED BY <1>1 DEF LikesInv, LikesSound

LEMMA LikesNumbers ==
    ASSUME LikesInv
    PROVE  /\ likes \in Nat /\ LastLike \in Nat /\ likes <= LastLike /\ MaxScans \in Nat
           /\ 1..likes \subseteq Clip /\ FirstLikes <= likes
  BY LikesAssumption DEF LikesInv, LikesSound, Clip

LEMMA LikesInitial == LikesInit => LikesInv
  <1> SUFFICES ASSUME LikesInit PROVE LikesInv
      OBVIOUS
  <1>1. NoListing.step = "none"
        BY DEF NoListing
  <1>2. LikesSound
    <2>1. FirstLikes \in FirstLikes..LastLike /\ 0 \in 0..MaxScans
          BY LikesAssumption
    <2>2. liked \subseteq 1..likes /\ likes \in FirstLikes..LastLike /\ scans \in 0..MaxScans
          BY <2>1 DEF LikesInit
    <2> QED BY <2>2 DEF LikesInit, LikesSound
  <1>3. ListingSound /\ ListedSoFar /\ FetchingSound /\ SettledBelow /\ LikesAreFetched
        BY <1>1 DEF LikesInit, ListingSound, ListedSoFar, FetchingSound, SettledBelow,
                    LikesAreFetched
  <1> QED BY <1>2, <1>3 DEF LikesInv

\* The owner's and the user's steps: a new like is newer than everything, and what
\* has no file any more was discarded.
LEMMA LikeKeeps ==
    ASSUME LikesInv, Like
    PROVE  LikesInv'
  <1>1. /\ likes < LastLike /\ likes' = likes + 1 /\ liked' = liked \cup {likes + 1}
        /\ clips' = clips /\ noted' = noted /\ full_scan' = full_scan /\ listing' = listing
        /\ unfetched' = unfetched /\ gap' = gap /\ discarded' = discarded /\ scans' = scans
        BY DEF Like
  <1>2. /\ likes \in Nat /\ LastLike \in Nat /\ 1..likes \subseteq 1..(likes + 1)
        /\ \A v \in 1..likes : v < likes + 1
        BY LikesNumbers
  <1>3. LikesSound'
        BY <1>1, <1>2, LikesAssumption DEF LikesInv, LikesSound
  <1>4. ListingSound'
    <2> SUFFICES ASSUME listing # NoListing
                 PROVE  /\ listing.known \subseteq 1..likes' /\ listing.liked \subseteq 1..likes'
                        /\ listing.known \subseteq Settled
                        /\ listing.items \subseteq listing.liked
                        /\ \A w \in liked' \ listing.liked :
                             \A v \in clips \cup listing.known \cup listing.liked : v < w
                        /\ listing.stops => full_scan
        BY <1>1 DEF ListingSound, Settled
    <2>1. ListingSound /\ clips \subseteq 1..likes
          BY DEF LikesInv, LikesSound
    <2> QED BY <2>1, <1>1, <1>2 DEF ListingSound
  <1>5. ListedSoFar'
    <2> SUFFICES ASSUME listing.step = "list"
                 PROVE  /\ listing.cursor <= likes' + 1
                        /\ \A w \in liked' \ listing.liked : listing.cursor <= w
                        /\ \A w \in liked' \cap listing.liked :
                              listing.cursor <= w => w \in listing.items
        BY <1>1 DEF ListedSoFar
    <2>1. listing # NoListing /\ ListedSoFar
          BY ListingRuns DEF LikesInv
    <2>2. likes + 1 \notin listing.liked
          BY <2>1, <1>2 DEF LikesInv, ListingSound
    <2>3. listing.cursor <= likes + 1 /\ listing.cursor \in Nat
          BY <2>1, <1>2, ListingRuns DEF ListedSoFar, LikesListing
    <2> QED BY <2>1, <2>2, <2>3, <1>1, <1>2 DEF ListedSoFar
  <1>6. FetchingSound'
    <2> SUFFICES ASSUME listing.step \in {"fetch", "save"}
                 PROVE  /\ listing.ends => full_scan
                        /\ full_scan /\ gap = {} =>
                              liked' \cap listing.liked \subseteq Settled \cup listing.items
                        /\ listing.step = "save" =>
                              listing.items # {} /\ Newest(listing.items) \in Settled
        BY <1>1 DEF FetchingSound, Settled, Newest
    <2>1. listing # NoListing /\ FetchingSound
          BY ListingRuns DEF LikesInv
    <2>2. likes + 1 \notin listing.liked
          BY <2>1, <1>2 DEF LikesInv, ListingSound
    <2> QED BY <2>1, <2>2, <1>1 DEF FetchingSound
  <1>7. SettledBelow'
    <2> DEFINE had == clips \cup (IF listing = NoListing THEN {} ELSE listing.known)
    <2>1. had \subseteq 1..likes
          BY DEF LikesInv, LikesSound, ListingSound
    <2>2. \A v \in had : ~(likes + 1 < v)
          BY <2>1, <1>2
    <2> QED BY <2>2, <1>1 DEF LikesInv, SettledBelow, Settled
  <1>8. LikesAreFetched'
        BY <1>1 DEF LikesInv, LikesAreFetched
  <1> QED BY <1>3, <1>4, <1>5, <1>6, <1>7, <1>8 DEF LikesInv

LEMMA UserKeeps ==
    ASSUME LikesInv, NEW v \in Clip, Unlike(v) \/ DiscardClip(v)
    PROVE  LikesInv'
  <1>1. /\ liked' \subseteq liked /\ clips' \subseteq clips /\ discarded \subseteq discarded'
        /\ discarded' \subseteq Clip /\ clips' \cup discarded' = Settled
        BY DEF Unlike, DiscardClip, Settled, LikesInv, LikesSound
  <1>2. /\ likes' = likes /\ noted' = noted /\ full_scan' = full_scan /\ listing' = listing
        /\ unfetched' = unfetched /\ gap' = gap /\ scans' = scans
        BY DEF Unlike, DiscardClip
  <1>3. Settled' = Settled
        BY <1>1 DEF Settled
  <1>4. LikesSound'
        BY <1>1, <1>2 DEF LikesInv, LikesSound
  <1>5. ListingSound' /\ ListedSoFar'
        BY <1>1, <1>2, <1>3 DEF LikesInv, ListingSound, ListedSoFar
  <1>6. FetchingSound' /\ SettledBelow' /\ LikesAreFetched'
    <2>1. FetchingSound /\ SettledBelow /\ LikesAreFetched
          BY DEF LikesInv
    <2>2. FetchingSound'
          BY <2>1, <1>1, <1>2, <1>3 DEF FetchingSound, Newest
    <2>3. SettledBelow'
          BY <2>1, <1>1, <1>2, <1>3 DEF SettledBelow
    <2> QED BY <2>1, <2>2, <2>3, <1>2 DEF LikesAreFetched
  <1> QED BY <1>4, <1>5, <1>6 DEF LikesInv

LEMMA StartLikesKeeps ==
    ASSUME LikesInv, NEW incremental \in BOOLEAN, NEW refresh \in BOOLEAN,
           NEW limit \in ItemLimits, StartLikes(incremental, refresh, limit)
    PROVE  LikesInv'
  <1> DEFINE stops == Incremental(incremental, refresh)
  <1>1. /\ listing = NoListing /\ scans < MaxScans /\ scans' = scans + 1
        /\ listing' = [step |-> "list", stops |-> stops, limit |-> limit, known |-> clips,
                       cursor |-> likes + 1, items |-> {}, streak |-> 0,
                       failed |-> FALSE, ends |-> FALSE, liked |-> liked]
        /\ unfetched' = {} /\ liked' = liked /\ likes' = likes /\ clips' = clips
        /\ noted' = noted /\ full_scan' = full_scan /\ gap' = gap /\ discarded' = discarded
        BY DEF StartLikes, WithFile
  <1>2. stops \in BOOLEAN /\ (stops => full_scan)
        BY DEF Incremental, LikesInv, LikesSound
  <1> HIDE DEF stops
  <1>3. /\ likes \in Nat /\ LastLike \in Nat /\ likes <= LastLike /\ 1..likes \subseteq Clip
        /\ liked \subseteq 1..likes /\ clips \subseteq 1..likes
        BY LikesNumbers DEF LikesInv, LikesSound
  <1>4. likes + 1 \in 0..(LastLike + 1) /\ scans' \in 0..MaxScans
        BY <1>1, <1>3, LikesNumbers DEF LikesInv, LikesSound
  <1>5. listing' \in LikesListing
    <2>1. liked \in SUBSET Clip /\ clips \in SUBSET Clip /\ {} \in SUBSET Clip /\ 0 \in Nat
          BY <1>3
    <2> QED BY <2>1, <1>1, <1>2, <1>4 DEF LikesListing
  <1>6. /\ listing'.step = "list" /\ listing'.stops = stops /\ listing'.known = clips
        /\ listing'.cursor = likes + 1 /\ listing'.items = {} /\ listing'.liked = liked
        BY <1>1
  <1>7. LikesSound'
        BY <1>1, <1>4, <1>5 DEF LikesInv, LikesSound
  <1>8. ListingSound'
        BY <1>1, <1>2, <1>3, <1>6 DEF ListingSound, Settled
  <1>9. ListedSoFar'
    <2>1. \A w \in liked : ~(likes + 1 <= w)
          BY <1>3
    <2>2. likes + 1 <= likes + 1
          BY <1>3
    <2> QED BY <2>1, <2>2, <1>1, <1>6 DEF ListedSoFar
  <1>10. FetchingSound' /\ LikesAreFetched'
        BY <1>1, <1>6 DEF FetchingSound, LikesAreFetched
  <1>11. SettledBelow'
    <2>1. listing.step = "none"
          BY <1>1 DEF NoListing
    <2> QED BY <2>1, <1>1, <1>6 DEF LikesInv, SettledBelow, Settled
  <1> QED BY <1>7, <1>8, <1>9, <1>10, <1>11 DEF LikesInv

\* A page is the newest of what is ahead of the cursor, and there is one as long as
\* something is.
LEMMA PageIsNewest ==
    ASSUME LikesInv, NEW cursor \in Nat
    PROVE  /\ Page(cursor) \subseteq After(cursor) /\ After(cursor) \subseteq liked
           /\ \A v \in Page(cursor) : \A w \in liked : w < cursor => w <= v
           /\ Page(cursor) = {} => After(cursor) = {}
           /\ \A v, w \in Page(cursor) : v = w
  <1>1. After(cursor) \in SUBSET (1..likes) /\ likes \in Nat /\ After(cursor) \subseteq liked
        BY LikesNumbers DEF After, LikesInv, LikesSound
  <1>2. \A v \in Page(cursor) : \A w \in liked : w < cursor => w <= v
        BY DEF Page, After
  <1>3. ASSUME After(cursor) # {} PROVE Page(cursor) # {}
    <2>1. PICK v \in After(cursor) : \A w \in After(cursor) : w <= v
          BY <1>1, <1>3, GreatestBelow
    <2> QED BY <2>1 DEF Page
  <1>4. ASSUME NEW v \in Page(cursor), NEW w \in Page(cursor) PROVE v = w
    <2>1. v <= w /\ w <= v /\ v \in Nat /\ w \in Nat
          BY <1>1, <1>4 DEF Page
    <2> QED BY <2>1
  <1> QED BY <1>1, <1>2, <1>3, <1>4 DEF Page

LEMMA ListPageKeeps ==
    ASSUME LikesInv, ListPage
    PROVE  LikesInv'
  <1> DEFINE page == Page(listing.cursor)
             items == listing.items \cup page
             next == IF page = {} THEN 0 ELSE CHOOSE v \in page : TRUE
             more == page # {} /\ After(next) # {}
             stopped == listing.stops /\ more /\ Streak(page) >= KnownPageThreshold
             over == ~more \/ stopped \/ Limited(items)
  <1>1. /\ listing.step = "list"
        /\ liked' = liked /\ likes' = likes /\ clips' = clips /\ noted' = noted
        /\ unfetched' = unfetched /\ discarded' = discarded /\ scans' = scans
        /\ over =>
             /\ listing' = [listing EXCEPT !.step = "fetch", !.items = items,
                                           !.ends = (~more \/ stopped)]
             /\ full_scan' = (full_scan \/ ~more)
             /\ gap' = IF more /\ ~stopped /\ full_scan THEN gap \cup {"limited"} ELSE gap
        /\ ~over =>
             /\ listing' = [listing EXCEPT !.items = items, !.cursor = next,
                                           !.streak = Streak(page)]
             /\ full_scan' = full_scan /\ gap' = gap
        BY DEF ListPage
  <1>2. listing \in LikesListing /\ listing # NoListing /\ listing.cursor \in Nat
        BY <1>1, ListingRuns, LikesAssumption DEF LikesListing
  <1>3. /\ page \subseteq After(listing.cursor) /\ After(listing.cursor) \subseteq liked
        /\ \A v \in page : \A w \in liked : w < listing.cursor => w <= v
        /\ page = {} => After(listing.cursor) = {}
        /\ \A v, w \in page : v = w
        BY <1>2, PageIsNewest
  <1>4. /\ page # {} => page = {next} /\ next \in page
        /\ page = {} => next = 0
    <2>1. page # {} => next \in page
          OBVIOUS
    <2> QED BY <2>1, <1>3
  <1>5. /\ liked \subseteq 1..likes /\ likes \in Nat /\ likes <= LastLike /\ LastLike \in Nat
        /\ liked \subseteq Clip /\ full_scan \in BOOLEAN /\ gap \subseteq {"limited", "cut"}
        BY LikesNumbers DEF LikesInv, LikesSound
  <1>6. /\ next \in 0..(LastLike + 1) /\ next <= likes + 1
    <2>1. next = 0 \/ next \in liked
          BY <1>3, <1>4
    <2> HIDE DEF next
    <2>2. next = 0 \/ (next \in Nat /\ next <= likes)
      <3>1. \A v \in 1..likes : v \in Nat /\ v <= likes
            OBVIOUS
      <3> QED BY <2>1, <3>1, <1>5
    <2> QED BY <2>2, <1>5
  <1>7. ListingSound /\ ListedSoFar /\ SettledBelow /\ LikesAreFetched
        BY DEF LikesInv
  <1>8. page \subseteq listing.liked
    <2> SUFFICES ASSUME NEW v \in page, v \notin listing.liked PROVE FALSE
        OBVIOUS
    <2>1. v \in liked /\ v < listing.cursor
          BY <1>3 DEF After
    <2>2. listing.cursor <= v
          BY <2>1, <1>1, <1>7 DEF ListedSoFar
    <2>3. v \in Nat
          BY <2>1, <1>5
    <2> QED BY <2>1, <2>2, <2>3, <1>2
  <1>9. \A w \in liked \cap listing.liked : \A v \in page : v <= w => w \in items
    <2> SUFFICES ASSUME NEW w \in liked \cap listing.liked, NEW v \in page, v <= w
                 PROVE  w \in items
        OBVIOUS
    <2>1. CASE listing.cursor <= w
          BY <2>1, <1>1, <1>7 DEF ListedSoFar
    <2>2. CASE w < listing.cursor
      <3>1. w <= v
            BY <2>2, <1>3
      <3>2. w \in 1..likes /\ v \in 1..likes
        <4>1. w \in liked /\ v \in liked
              BY <1>3
        <4> QED BY <4>1, <1>5
      <3> QED BY <3>1, <3>2, <1>5
    <2>3. w \in Nat
          BY <1>5
    <2> QED BY <2>1, <2>2, <2>3, <1>2
  <1>10. ~more => liked \cap listing.liked \subseteq items
    <2> SUFFICES ASSUME ~more, NEW w \in liked \cap listing.liked PROVE w \in items
        OBVIOUS
    <2>1. w \in Nat
          BY <1>5
    <2>2. CASE page = {}
      <3>1. ~(w < listing.cursor)
            BY <2>2, <1>3 DEF After
      <3>2. listing.cursor <= w
            BY <3>1, <2>1, <1>2
      <3> QED BY <3>2, <1>1, <1>7 DEF ListedSoFar
    <2>3. CASE page # {}
      <3>1. After(next) = {} /\ next \in page
            BY <2>3, <1>4
      <3>2. ~(w < next)
            BY <3>1 DEF After
      <3>3. next <= w
            BY <3>2, <2>1, <1>6, <1>5
      <3> QED BY <3>1, <3>3, <1>9
    <2> QED BY <2>2, <2>3
  <1>11. stopped /\ gap = {} => liked \cap listing.liked \subseteq Settled \cup items
    <2> SUFFICES ASSUME stopped, gap = {}, NEW w \in liked \cap listing.liked
                 PROVE  w \in Settled \cup items
        OBVIOUS
    <2>1. page # {} /\ next \in page
          BY <1>4
    <2>2. page \subseteq listing.known
      <3>1. Streak(page) # 0
        <4>1. ~(0 >= KnownPageThreshold)
              BY LikesAssumption
        <4> QED BY <4>1
      <3> QED BY <3>1 DEF Streak
    <2>3. full_scan
          BY <1>2, <1>7 DEF ListingSound
    <2>4. CASE next <= w
          BY <2>1, <2>4, <1>9
    <2>5. CASE w < next
          BY <2>1, <2>2, <2>3, <2>5, <1>1, <1>2, <1>7 DEF SettledBelow
    <2>6. w \in Nat /\ next \in Nat
          BY <1>5, <1>6
    <2> QED BY <2>4, <2>5, <2>6
  <1> DEFINE ended == [listing EXCEPT !.step = "fetch", !.items = items,
                                      !.ends = (~more \/ stopped)]
             going == [listing EXCEPT !.items = items, !.cursor = next, !.streak = Streak(page)]
  <1>12. /\ items \in SUBSET Clip /\ more \in BOOLEAN /\ (~more \/ stopped) \in BOOLEAN
         /\ Streak(page) \in Nat
    <2>1. Streak(page) \in Nat
          BY <1>2 DEF Streak, LikesListing
    <2>2. items \in SUBSET Clip
          BY <1>2, <1>3, <1>5 DEF LikesListing
    <2> QED BY <2>1, <2>2
  <1>13. /\ ended \in LikesListing /\ ended.step = "fetch" /\ ended.items = items
         /\ ended.ends = (~more \/ stopped) /\ ended.stops = listing.stops
         /\ ended.known = listing.known /\ ended.liked = listing.liked
         BY <1>2, <1>12 DEF LikesListing
  <1>14. /\ going \in LikesListing /\ going.step = "list" /\ going.items = items
         /\ going.cursor = next /\ going.stops = listing.stops
         /\ going.known = listing.known /\ going.liked = listing.liked
         BY <1>1, <1>2, <1>6, <1>12 DEF LikesListing
  <1> DEFINE ending == ~more \/ stopped
  <1>15. stopped => more
         OBVIOUS
  <1> HIDE DEF page, items, next, more, stopped
  <1>16. NoListing.step = "none"
         BY DEF NoListing
  <1>17. /\ listing' \in LikesListing /\ listing'.items = items
         /\ listing'.stops = listing.stops /\ listing'.known = listing.known
         /\ listing'.liked = listing.liked
         BY <1>1, <1>13, <1>14
  <1>18. /\ full_scan' \in BOOLEAN /\ (full_scan => full_scan')
         /\ gap \subseteq gap' /\ gap' \subseteq {"limited", "cut"}
         BY <1>1, <1>5, <1>12
  <1>19. LikesSound'
         BY <1>1, <1>17, <1>18 DEF LikesInv, LikesSound
  <1>20. ListingSound'
    <2>1. items \subseteq listing.liked
          BY <1>2, <1>7, <1>8 DEF ListingSound, items
    <2> QED BY <2>1, <1>1, <1>2, <1>7, <1>17, <1>18 DEF ListingSound, Settled
  <1>21. LikesAreFetched'
         BY <1>1, <1>7, <1>18 DEF LikesAreFetched
  <1>22. CASE over
    <2>1. listing' = ended /\ full_scan' = (full_scan \/ ~more)
          /\ gap' = IF more /\ ~stopped /\ full_scan THEN gap \cup {"limited"} ELSE gap
          BY <1>1, <1>22
    <2>2. listing'.step = "fetch" /\ listing'.ends = (~more \/ stopped)
          BY <2>1, <1>13
    <2>3. listing'.ends => full_scan'
          BY <2>1, <2>2, <1>2, <1>7, <1>12 DEF ListingSound, stopped
    <2>4. ASSUME full_scan', gap' = {}
          PROVE  liked \cap listing.liked \subseteq Settled \cup items
      <3>1. gap = {} /\ (~more \/ stopped)
            BY <2>4, <2>1
      <3> QED BY <3>1, <1>10, <1>11
    <2>5. ListedSoFar' /\ SettledBelow'
          BY <2>2 DEF ListedSoFar, SettledBelow
    <2>6. FetchingSound'
          BY <2>2, <2>3, <2>4, <1>1, <1>17 DEF FetchingSound, Settled
    <2> QED BY <2>5, <2>6, <1>19, <1>20, <1>21 DEF LikesInv
  <1>23. CASE ~over
    <2>1. listing' = going /\ full_scan' = full_scan /\ gap' = gap /\ more
          BY <1>1, <1>23
    <2>2. page # {} /\ page = {next} /\ next \in page
          BY <2>1, <1>4 DEF more
    <2>3. listing'.step = "list" /\ listing'.cursor = next
          BY <2>1, <1>14
    <2>4. ListedSoFar'
      <3>1. \A w \in liked \ listing.liked : next <= w
            BY <2>2, <1>2, <1>5, <1>7, <1>8 DEF ListingSound
      <3>2. \A w \in liked \cap listing.liked : next <= w => w \in items
            BY <2>2, <1>9
      <3> QED BY <3>1, <3>2, <2>3, <1>1, <1>6, <1>17 DEF ListedSoFar
    <2>5. FetchingSound'
          BY <2>3 DEF FetchingSound
    <2>6. SettledBelow'
          BY <2>1, <2>3, <1>1, <1>2, <1>7, <1>16, <1>17 DEF SettledBelow, Settled
    <2> QED BY <2>4, <2>5, <2>6, <1>19, <1>20, <1>21 DEF LikesInv
  <1> QED BY <1>22, <1>23

\* Once it is listed, a sync takes one video after the other.
LEMMA FetchingVideo ==
    ASSUME LikesInv, listing.step \in {"fetch", "save"}, listing.items # {}
    PROVE  /\ Newest(listing.items) \in listing.items
           /\ Newest(listing.items) \in 1..likes
           /\ Rest \subseteq listing.items /\ Rest \cup {Newest(listing.items)} = listing.items
  <1>1. listing \in LikesListing /\ listing # NoListing
        BY ListingRuns
  <1>2. listing.items \in SUBSET (1..likes) /\ likes \in Nat
        BY <1>1, LikesNumbers DEF LikesInv, ListingSound
  <1>3. \E v \in listing.items : \A w \in listing.items : w <= v
        BY <1>2, GreatestBelow
  <1>4. Newest(listing.items) \in listing.items
        BY <1>3 DEF Newest
  <1> QED BY <1>2, <1>4 DEF Rest

LEMMA StepKeeps ==
    ASSUME LikesInv, listing.step \in {"fetch", "save"}, listing' \in LikesListing,
           liked' = liked, likes' = likes, full_scan' = full_scan, unfetched' = unfetched,
           discarded' = discarded, scans' = scans, noted' \subseteq 1..likes,
           gap \subseteq gap', gap' \subseteq {"limited", "cut"},
           clips \subseteq clips', clips' \subseteq clips \cup listing.items,
           listing'.step \in {"fetch", "save"}, listing'.items \subseteq listing.items,
           listing'.stops = listing.stops, listing'.known = listing.known,
           listing'.liked = listing.liked, listing'.ends = listing.ends,
           full_scan /\ gap' = {} => listing.items \subseteq Settled' \cup listing'.items,
           listing'.step = "save" => listing'.items # {} /\ Newest(listing'.items) \in Settled'
    PROVE  LikesInv'
  <1>1. listing # NoListing
        BY ListingRuns
  <1>2. ListingSound /\ FetchingSound /\ LikesAreFetched
        BY DEF LikesInv
  <1>3. listing.items \subseteq listing.liked /\ listing.liked \subseteq 1..likes
        BY <1>1, <1>2 DEF ListingSound
  <1>4. LikesSound'
        BY <1>3 DEF LikesInv, LikesSound
  <1>5. Settled \subseteq Settled'
        BY DEF Settled
  <1>6. ListingSound'
    <2> SUFFICES /\ listing.known \subseteq 1..likes /\ listing.liked \subseteq 1..likes
                 /\ listing.known \subseteq Settled'
                 /\ listing'.items \subseteq listing.liked
                 /\ \A w \in liked \ listing.liked :
                      \A v \in clips' \cup listing.known \cup listing.liked : v < w
                 /\ listing.stops => full_scan
        BY DEF ListingSound
    <2>1. clips' \cup listing.known \cup listing.liked
            \subseteq clips \cup listing.known \cup listing.liked
          BY <1>3
    <2> QED BY <2>1, <1>1, <1>2, <1>3, <1>5 DEF ListingSound
  <1>7. FetchingSound'
    <2>1. ASSUME full_scan, gap' = {}
          PROVE  liked \cap listing.liked \subseteq Settled' \cup listing'.items
      <3>1. liked \cap listing.liked \subseteq Settled \cup listing.items
            BY <2>1, <1>2 DEF FetchingSound
      <3> QED BY <3>1, <2>1, <1>5
    <2> QED BY <2>1, <1>2 DEF FetchingSound
  <1>8. ListedSoFar' /\ SettledBelow'
        BY DEF ListedSoFar, SettledBelow
  <1>9. LikesAreFetched'
        BY <1>2 DEF LikesAreFetched
  <1> QED BY <1>4, <1>6, <1>7, <1>8, <1>9 DEF LikesInv

LEMMA VideoKeeps ==
    ASSUME LikesInv, SkipClip \/ FetchClip \/ SaveClip \/ ClipFails
    PROVE  LikesInv'
  <1> DEFINE v == Newest(listing.items)
  <1>1. /\ listing.step \in {"fetch", "save"} /\ liked' = liked /\ likes' = likes
        /\ full_scan' = full_scan /\ unfetched' = unfetched /\ discarded' = discarded
        /\ scans' = scans
        BY DEF SkipClip, FetchClip, SaveClip, ClipFails
  <1>2. listing \in LikesListing /\ listing # NoListing
        BY <1>1, ListingRuns
  <1>3. /\ noted \subseteq 1..likes /\ gap \subseteq {"limited", "cut"}
        /\ listing.known \subseteq Settled
        BY <1>2 DEF LikesInv, LikesSound, ListingSound
  <1>4. listing.items # {}
        BY <1>1 DEF SkipClip, FetchClip, SaveClip, ClipFails, LikesInv, FetchingSound
  <1>5. v \in listing.items /\ v \in 1..likes
        /\ Rest \subseteq listing.items /\ Rest \cup {v} = listing.items
        BY <1>1, <1>4, FetchingVideo
  <1>6. Rest \in SUBSET Clip
        BY <1>2, <1>5 DEF LikesListing
  <1> HIDE DEF v
  <1>7. CASE SkipClip
    <2>1. /\ v \in listing.known /\ noted' = noted \cup {v} /\ clips' = clips /\ gap' = gap
          /\ listing.step = "fetch" /\ listing' = [listing EXCEPT !.items = Rest]
          BY <1>7 DEF SkipClip, v
    <2>2. /\ listing' \in LikesListing /\ listing'.step = "fetch" /\ listing'.items = Rest
          /\ listing'.stops = listing.stops /\ listing'.known = listing.known
          /\ listing'.liked = listing.liked /\ listing'.ends = listing.ends
          BY <1>2, <1>6, <2>1 DEF LikesListing
    <2>3. listing.items \subseteq Settled' \cup listing'.items
          BY <1>1, <1>3, <1>5, <2>1, <2>2 DEF Settled
    <2> QED BY <1>1, <1>3, <1>5, <2>1, <2>2, <2>3, StepKeeps
  <1>8. CASE FetchClip
    <2>1. /\ clips' = clips \cup {v} /\ noted' = noted /\ gap' = gap
          /\ listing' = [listing EXCEPT !.step = "save"]
          BY <1>8 DEF FetchClip, v
    <2>2. /\ listing' \in LikesListing /\ listing'.step = "save"
          /\ listing'.items = listing.items
          /\ listing'.stops = listing.stops /\ listing'.known = listing.known
          /\ listing'.liked = listing.liked /\ listing'.ends = listing.ends
          BY <1>2, <2>1 DEF LikesListing
    <2>3. Newest(listing'.items) \in Settled'
          BY <2>1, <2>2 DEF Settled, v
    <2> QED BY <1>1, <1>3, <1>4, <1>5, <2>1, <2>2, <2>3, StepKeeps
  <1>9. CASE SaveClip
    <2>1. /\ noted' = noted \cup {v} /\ clips' = clips /\ gap' = gap /\ listing.step = "save"
          /\ listing' = [listing EXCEPT !.step = "fetch", !.items = Rest]
          BY <1>9 DEF SaveClip, v
    <2>2. /\ listing' \in LikesListing /\ listing'.step = "fetch" /\ listing'.items = Rest
          /\ listing'.stops = listing.stops /\ listing'.known = listing.known
          /\ listing'.liked = listing.liked /\ listing'.ends = listing.ends
          BY <1>2, <1>6, <2>1 DEF LikesListing
    <2>3. v \in Settled
          BY <2>1 DEF LikesInv, FetchingSound, v
    <2>4. listing.items \subseteq Settled' \cup listing'.items
          BY <1>1, <1>5, <2>1, <2>2, <2>3 DEF Settled
    <2> QED BY <1>1, <1>3, <1>5, <2>1, <2>2, <2>4, StepKeeps
  <1>10. CASE ClipFails
    <2>1. /\ noted' = noted /\ clips' = clips /\ gap' = Cutting /\ listing.step = "fetch"
          /\ listing' = [listing EXCEPT !.items = Rest, !.failed = TRUE]
          BY <1>10 DEF ClipFails
    <2>2. /\ listing' \in LikesListing /\ listing'.step = "fetch" /\ listing'.items = Rest
          /\ listing'.stops = listing.stops /\ listing'.known = listing.known
          /\ listing'.liked = listing.liked /\ listing'.ends = listing.ends
          BY <1>2, <1>6, <2>1 DEF LikesListing
    <2>3. gap \subseteq gap' /\ gap' \subseteq {"limited", "cut"} /\ ~(full_scan /\ gap' = {})
          BY <1>3, <2>1 DEF Cutting
    <2> QED BY <1>1, <1>3, <1>5, <2>1, <2>2, <2>3, StepKeeps
  <1> QED BY <1>7, <1>8, <1>9, <1>10

\* A sync that is over leaves nothing older than a settled video unsettled.
LEMMA OverKeeps ==
    ASSUME LikesInv, ListFails \/ FetchStops \/ EndScan
    PROVE  LikesInv'
  <1>1. /\ listing' = NoListing /\ liked' = liked /\ likes' = likes /\ clips' = clips
        /\ noted' = noted /\ full_scan' = full_scan /\ discarded' = discarded /\ scans' = scans
        /\ NoListing.step = "none" /\ listing.step \in {"list", "fetch", "save"}
        BY DEF ListFails, FetchStops, EndScan, NoListing
  <1>2. listing \in LikesListing /\ listing # NoListing
        BY <1>1, ListingRuns
  <1>3. gap \subseteq gap' /\ gap' \subseteq {"limited", "cut"}
        BY DEF ListFails, FetchStops, EndScan, Cutting, LikesInv, LikesSound
  <1>4. liked \subseteq Clip
        BY LikesNumbers DEF LikesInv, LikesSound
  <1>5. LikesSound'
    <2>1. unfetched' \subseteq Clip
          BY <1>4 DEF ListFails, FetchStops, EndScan, LikesInv, LikesSound
    <2> QED BY <2>1, <1>1, <1>3 DEF LikesInv, LikesSound
  <1>6. ListingSound' /\ ListedSoFar' /\ FetchingSound'
        BY <1>1 DEF ListingSound, ListedSoFar, FetchingSound
  <1>7. ASSUME full_scan, gap' = {}, listing.step \in {"fetch", "save"}
        PROVE  liked \cap listing.liked \subseteq Settled
    <2>1. liked \cap listing.liked \subseteq Settled \cup listing.items
          BY <1>3, <1>7 DEF LikesInv, FetchingSound
    <2>2. listing.items \subseteq Settled
      <3>1. CASE FetchStops
            BY <3>1, <1>7 DEF FetchStops, Cutting, Settled
      <3>2. CASE EndScan
            BY <3>2 DEF EndScan
      <3>3. CASE ListFails
            BY <3>3, <1>7 DEF ListFails
      <3> QED BY <3>1, <3>2, <3>3
    <2> QED BY <2>1, <2>2
  <1>8. SettledBelow'
    <2> SUFFICES ASSUME full_scan, gap' = {}, NEW v \in clips, NEW w \in liked, w < v
                 PROVE  w \in Settled
        BY <1>1 DEF SettledBelow, Settled
    <2>1. CASE listing.step = "list"
          BY <2>1, <1>2, <1>3 DEF LikesInv, SettledBelow
    <2>2. CASE listing.step \in {"fetch", "save"}
      <3>1. w \in listing.liked
        <4> SUFFICES ASSUME w \notin listing.liked PROVE FALSE
            OBVIOUS
        <4>1. v < w
              BY <1>2 DEF LikesInv, ListingSound
        <4>2. v \in Nat /\ w \in Nat
              BY LikesNumbers DEF LikesInv, LikesSound
        <4> QED BY <4>1, <4>2
      <3> QED BY <3>1, <2>2, <1>7
    <2> QED BY <2>1, <2>2, <1>1
  <1>9. LikesAreFetched'
    <2> SUFFICES ASSUME gap' = {} PROVE unfetched' = {}
        BY DEF LikesAreFetched
    <2>1. CASE ListFails \/ FetchStops
          BY <2>1, <1>3 DEF ListFails, FetchStops, LikesInv, LikesAreFetched
    <2>2. CASE EndScan /\ listing.ends
      <3>1. listing.step = "fetch" /\ full_scan
            BY <2>2 DEF EndScan, LikesInv, FetchingSound
      <3> QED BY <3>1, <2>2, <1>7 DEF EndScan, Settled
    <2>3. CASE EndScan /\ ~listing.ends
          BY <2>3 DEF EndScan
    <2> QED BY <2>1, <2>2, <2>3
  <1> QED BY <1>5, <1>6, <1>8, <1>9 DEF LikesInv

LEMMA LikesInductive ==
    ASSUME LikesInv, [LikesNext]_likes_vars
    PROVE  LikesInv'
  <1>1. CASE Like
        BY <1>1, LikeKeeps
  <1>2. CASE ListPage
        BY <1>2, ListPageKeeps
  <1>3. CASE SkipClip \/ FetchClip \/ SaveClip \/ ClipFails
        BY <1>3, VideoKeeps
  <1>4. CASE ListFails \/ FetchStops \/ EndScan
        BY <1>4, OverKeeps
  <1>5. ASSUME NEW v \in Clip, Unlike(v) \/ DiscardClip(v)
        PROVE  LikesInv'
        BY <1>5, UserKeeps
  <1>6. ASSUME NEW b \in BOOLEAN, NEW c \in BOOLEAN, NEW n \in ItemLimits, StartLikes(b, c, n)
        PROVE  LikesInv'
        BY <1>6, StartLikesKeeps
  <1>7. CASE UNCHANGED likes_vars
        BY <1>7 DEF likes_vars, LikesInv, LikesSound, ListingSound, ListedSoFar, FetchingSound,
                    SettledBelow, LikesAreFetched, Settled, Newest
  <1> QED BY <1>1, <1>2, <1>3, <1>4, <1>5, <1>6, <1>7 DEF LikesNext

LEMMA LikesAlways == LikesSpec => []LikesInv
  <1>1. LikesInit => LikesInv
        BY LikesInitial
  <1>2. LikesInv /\ [LikesNext]_likes_vars => LikesInv'
        BY LikesInductive
  <1> QED BY <1>1, <1>2, PTL DEF LikesSpec

\* What is liked, what has a file and what a listing carries keep their types.
THEOREM LikesTypeCorrect == LikesSpec => []LikesTypeOK
  <1>1. ASSUME LikesInv PROVE LikesTypeOK
    <2>1. 1..likes \subseteq Clip
          BY <1>1, LikesNumbers
    <2>2. listing.step \in {"none", "list", "fetch", "save"}
          BY <1>1 DEF LikesInv, LikesSound, LikesListing, NoListing
    <2>3. listing.step = "save" => listing.items # {}
          BY <1>1 DEF LikesInv, FetchingSound
    <2> QED BY <1>1, <2>1, <2>2, <2>3 DEF LikesInv, LikesSound, LikesTypeOK
  <1> QED BY <1>1, LikesAlways, PTL

\* For every number of likes, of syncs and of known pages that end a listing, whatever
\* is liked, unliked or deleted meanwhile: a sync of the liked videos that ends well
\* leaves none without a file, unless an earlier one skipped some past the first full
\* listing.
THEOREM LikesAreAlwaysFetched == LikesSpec => []LikesAreFetched
  <1>1. LikesInv => LikesAreFetched
        BY DEF LikesInv
  <1> QED BY <1>1, LikesAlways, PTL

-----------------------------------------------------------------------------
(***************************************************************************)
(* Who a profile is.                                                       *)
(***************************************************************************)

IdentityRun ==
    [step : {"identify", "download"}, profile : Profile, handle : Handle, hint : Account,
     problem : BOOLEAN, first : BOOLEAN, scheduled : BOOLEAN, as : Account]
Finding ==
    [error : {"", "unresolvable", "private", "other"}, handle : Handle \cup {""}, as : Account]
Checking == [step : {"settle"}, profile : Profile, previous : Handle, found : Finding]

IdentitySound ==
    /\ IdentityTypeOK
    /\ running \in {NoRun} \cup IdentityRun
    /\ check \in {NoRun} \cup Checking
    /\ check # NoRun => check.found.error # "other"
    /\ running.step = "identify" => network = "instagram"

\* What a profile of Instagram is known by: the column and the hint agree, a run
\* that got through is of that person, no two profiles have the same one, and a
\* sync goes by what the row says.
IdsAgree == \A s \in Profile : row[s].uid = row[s].hint
SyncedAreKnown == \A s \in Profile : row[s].synced => row[s].uid # Nobody
RunsAreOfUser ==
    \A s \in Profile : lastRun[s] # Nobody =>
        row[s].alive /\ row[s].synced /\ row[s].uid = lastRun[s]
FoldersAreOfRuns == \A s \in Profile : \A p \in folder[s] : p = lastRun[s] /\ p # Nobody
UsersDiffer ==
    \A s, t \in Profile :
        s # t /\ row[s].alive /\ row[t].alive /\ row[s].uid = row[t].uid => row[s].uid = Nobody
RunGoesByRow ==
    running # NoRun =>
        LET r == row[running.profile] IN
        /\ r.alive
        /\ running.first = ~r.synced
        /\ running.step = "identify" => running.hint = r.hint
        /\ running.step = "download" => running.as = r.uid /\ r.uid # Nobody

UsersKnown ==
    /\ IdsAgree /\ SyncedAreKnown /\ RunsAreOfUser
    /\ FoldersAreOfRuns /\ UsersDiffer /\ RunGoesByRow

IdentityInv == IdentitySound /\ (network = "instagram" /\ mishaps = {} => UsersKnown)

\* What each step makes of a row.
LEMMA RowSteps ==
    ASSUME NEW r \in ProfileRow, NEW h \in Handle, NEW code \in Problem
    PROVE  /\ Marked(r, code) \in ProfileRow /\ Resumed(r) \in ProfileRow
           /\ Rehandled(r, h) \in ProfileRow /\ Synced(r) \in ProfileRow
           /\ Removed(r) \in ProfileRow /\ Committed(r) \in ProfileRow
           /\ \A x \in {Marked(r, code), Resumed(r), Rehandled(r, h)} :
                x.uid = r.uid /\ x.hint = r.hint /\ x.alive = r.alive /\ x.synced = r.synced
           /\ Removed(r).uid = r.uid /\ Removed(r).hint = r.hint /\ Removed(r).synced = r.synced
           /\ ~Removed(r).alive
           /\ \A x \in {Synced(r), Committed(r)} :
                x.uid = r.uid /\ x.hint = r.hint /\ x.alive = r.alive /\ x.synced
  <1>1. /\ Marked(r, code) \in ProfileRow /\ Resumed(r) \in ProfileRow
        /\ Rehandled(r, h) \in ProfileRow /\ Synced(r) \in ProfileRow /\ Removed(r) \in ProfileRow
        BY DEF Marked, Resumed, Rehandled, Synced, Removed, ProfileRow, Problem
  <1>2. /\ \A x \in {Marked(r, code), Resumed(r), Rehandled(r, h)} :
             x.uid = r.uid /\ x.hint = r.hint /\ x.alive = r.alive /\ x.synced = r.synced
        /\ Removed(r).uid = r.uid /\ Removed(r).hint = r.hint /\ Removed(r).synced = r.synced
        /\ ~Removed(r).alive
        BY DEF Marked, Resumed, Rehandled, Removed, ProfileRow
  <1>3. \A q \in ProfileRow : /\ Synced(q) \in ProfileRow
                              /\ Synced(q).uid = q.uid /\ Synced(q).hint = q.hint
                              /\ Synced(q).alive = q.alive /\ Synced(q).synced
        BY DEF Synced, ProfileRow
  <1>4. Committed(r) = Synced(Resumed(r))
        BY DEF Committed
  <1> QED BY <1>1, <1>2, <1>3, <1>4

LEMMA NewRows ==
    ASSUME NEW alive \in BOOLEAN, NEW h \in Handle, NEW ready \in BOOLEAN
    PROVE  LET r == [NewRow(alive, h) EXCEPT !.ready = ready] IN
           /\ NewRow(alive, h) \in ProfileRow /\ r \in ProfileRow
           /\ r.uid = Nobody /\ r.hint = Nobody /\ r.alive = alive /\ ~r.synced
  BY DEF NewRow, ProfileRow, Problem, Account

\* A lookup finds who is expected, if anybody is.
LEMMA FoundIsExpected ==
    ASSUME IdentityTypeOK, NEW h \in Handle, NEW expected \in Account,
           NEW found \in Resolved(h, expected) \cup {Failure("other")}
    PROVE  /\ found \in Finding
           /\ found.error = "" => /\ found.as \in Person /\ found.as # Nobody
                                  /\ found.handle \in Handle /\ expected \in {Nobody, found.as}
           /\ found.error # "" => found.as = Nobody
  <1>1. owner[h] \in Account
        BY DEF IdentityTypeOK
  <1>2. /\ ByName(h) \in Finding
        /\ ByName(h).error = "" => /\ ByName(h).as \in Person /\ ByName(h).as # Nobody
                                   /\ ByName(h).handle \in Handle
        /\ ByName(h).error # "" => ByName(h).as = Nobody
        BY <1>1 DEF ByName, Failure, Found, Finding, Account
  <1>3. Failure("other") \in Finding /\ Failure("unresolvable") \in Finding
        /\ \A code \in {"other", "unresolvable"} : Failure(code).error # "" /\ Failure(code).as = Nobody
        BY DEF Failure, Finding, Account
  <1>4. ASSUME NEW g \in Handle
        PROVE  /\ Found(g, expected) \in Finding /\ Found(g, expected).as = expected
               /\ Found(g, expected).error = "" /\ Found(g, expected).handle = g
        BY DEF Found, Finding
  <1>5. CASE found = ByName(h) /\ ByName(h).as # Nobody /\ expected \in {Nobody, ByName(h).as}
        BY <1>2, <1>5
  <1>6. CASE found = ByName(h) /\ (expected = Nobody \/ ByName(h).as = Nobody)
        BY <1>2, <1>6
  <1>7. CASE expected # Nobody /\ \E g \in NamesOf(expected) : found = Found(g, expected)
        BY <1>4, <1>7 DEF NamesOf, Account
  <1>8. CASE found \in {Failure("other"), Failure("unresolvable")}
        BY <1>3, <1>8
  <1> QED BY <1>5, <1>6, <1>7, <1>8 DEF Resolved

\* What everybody else's steps keep: the rows' ids, who is there and what runs, unless it ends.
Kept ==
    /\ network' = network /\ lastRun' = lastRun /\ folder' = folder
    /\ running' \in {running, NoRun} /\ mishaps' = mishaps
    /\ \A s \in Profile :
        /\ row'[s].uid = row[s].uid /\ row'[s].hint = row[s].hint
        /\ row'[s].alive = row[s].alive /\ row'[s].synced = row[s].synced

LEMMA KeptUsers ==
    ASSUME IdentityInv, Kept, IdentitySound'
    PROVE  IdentityInv'
  <1> SUFFICES ASSUME network = "instagram", mishaps = {} PROVE UsersKnown'
      BY DEF IdentityInv, Kept
  <1>1. UsersKnown
        BY DEF IdentityInv
  <1>2. IdsAgree' /\ SyncedAreKnown' /\ RunsAreOfUser' /\ FoldersAreOfRuns' /\ UsersDiffer'
        BY <1>1 DEF UsersKnown, Kept, IdsAgree, SyncedAreKnown, RunsAreOfUser, FoldersAreOfRuns,
                    UsersDiffer
  <1>3. running # NoRun => running.profile \in Profile
        BY DEF IdentityInv, IdentitySound, IdentityRun
  <1>4. RunGoesByRow'
    <2>1. CASE running' = running
          BY <1>1, <1>3, <2>1 DEF UsersKnown, Kept, RunGoesByRow
    <2>2. CASE running' = NoRun
          BY <2>2 DEF RunGoesByRow
    <2> QED BY <2>1, <2>2 DEF Kept
  <1> QED BY <1>2, <1>4 DEF UsersKnown

LEMMA IdentityInitial == IdentityInit => IdentityInv
  <1> SUFFICES ASSUME IdentityInit PROVE IdentityInv
      OBVIOUS
  <1> USE IdentityAssumption
  <1>1. NewRow(FALSE, Taken) \in ProfileRow /\ NewRow(FALSE, Taken).uid = Nobody
        /\ NewRow(FALSE, Taken).hint = Nobody /\ ~NewRow(FALSE, Taken).alive
        /\ ~NewRow(FALSE, Taken).synced
        BY DEF NewRow, ProfileRow, Problem, Account
  <1>2. IdentityTypeOK
    <2>1. owner \in [Handle -> Account] /\ lastRun \in [Profile -> Account]
          BY DEF IdentityInit, Account
    <2>2. row \in [Profile -> ProfileRow] /\ folder \in [Profile -> SUBSET Person]
          BY <1>1 DEF IdentityInit
    <2>3. moves \in 0..MaxMoves /\ edits \in 0..MaxEdits
          BY DEF IdentityInit
    <2>4. running.step \in {"idle", "identify", "download"} /\ check.step \in {"idle", "settle"}
          BY DEF IdentityInit, NoRun
    <2> QED BY <2>1, <2>2, <2>3, <2>4 DEF IdentityInit, IdentityTypeOK
  <1>3. IdentitySound
        BY <1>2 DEF IdentityInit, IdentitySound, NoRun
  <1>4. UsersKnown
        BY <1>1 DEF IdentityInit, UsersKnown, IdsAgree, SyncedAreKnown, RunsAreOfUser,
                    FoldersAreOfRuns, UsersDiffer, RunGoesByRow
  <1> QED BY <1>3, <1>4 DEF IdentityInv

LEMMA UpstreamKeeps ==
    ASSUME IdentityInv, Upstream
    PROVE  IdentityInv'
  <1>1. Kept /\ running' = running /\ row' = row /\ check' = check /\ noticed' = noticed /\ edits' = edits
        BY DEF Upstream, Kept
  <1>2. owner' \in [Handle -> Account] /\ hidden' \in SUBSET Person /\ moves' \in 0..MaxMoves
    <2>1. owner \in [Handle -> Account] /\ hidden \in SUBSET Person /\ moves \in 0..MaxMoves
          BY DEF IdentityInv, IdentitySound, IdentityTypeOK
    <2> QED BY <2>1, IdentityAssumption DEF Upstream, Account
  <1>3. IdentitySound'
        BY <1>1, <1>2 DEF IdentityInv, IdentitySound, IdentityTypeOK, Kept
  <1> QED BY <1>1, <1>3, KeptUsers

LEMMA SaveKeeps ==
    ASSUME IdentityInv, NEW s \in Profile, NEW h \in Handle, NEW ready \in BOOLEAN,
           SaveProfile(s, h, ready)
    PROVE  IdentityInv'
  <1> DEFINE new == IF row[s].alive THEN Saved(row[s], h, ready)
                    ELSE [NewRow(TRUE, h) EXCEPT !.ready = ready]
  <1>1. /\ network' = network /\ owner' = owner /\ hidden' = hidden /\ lastRun' = lastRun
        /\ folder' = folder /\ running' = running /\ check' = check /\ mishaps' = mishaps
        /\ moves' = moves /\ noticed' = noticed \ {s} /\ edits < MaxEdits /\ edits' = edits + 1
        /\ row[s].alive \/ (lastRun[s] = Nobody /\ folder[s] = {})
        /\ row' = [row EXCEPT ![s] = new]
        BY DEF SaveProfile
  <1>2. row \in [Profile -> ProfileRow]
        BY DEF IdentityInv, IdentitySound, IdentityTypeOK
  <1>3. /\ new \in ProfileRow /\ new.alive
        /\ row[s].alive => new.uid = row[s].uid /\ new.hint = row[s].hint /\ new.synced = row[s].synced
        /\ ~row[s].alive => new.uid = Nobody /\ new.hint = Nobody /\ ~new.synced
    <2>1. CASE row[s].alive
          BY <2>1, <1>2 DEF Saved, ProfileRow
    <2>2. CASE ~row[s].alive
          BY <2>2, NewRows
    <2> QED BY <2>1, <2>2
  <1> HIDE DEF new
  <1>4. row' \in [Profile -> ProfileRow] /\ row'[s] = new /\ \A t \in Profile \ {s} : row'[t] = row[t]
        BY <1>1, <1>2, <1>3
  <1>5. edits' \in 0..MaxEdits
        BY <1>1, IdentityAssumption DEF IdentityInv, IdentitySound, IdentityTypeOK
  <1>6. IdentitySound'
        BY <1>1, <1>4, <1>5 DEF IdentityInv, IdentitySound, IdentityTypeOK
  <1>7. ASSUME network = "instagram", mishaps = {} PROVE UsersKnown'
    <2>1. UsersKnown
          BY <1>7 DEF IdentityInv
    <2>2. running # NoRun => running.profile \in Profile /\ row[running.profile].alive
          BY <2>1 DEF IdentityInv, IdentitySound, IdentityRun, UsersKnown, RunGoesByRow
    <2>3. IdsAgree' /\ SyncedAreKnown'
          BY <2>1, <1>3, <1>4 DEF UsersKnown, IdsAgree, SyncedAreKnown
    <2>4. RunsAreOfUser' /\ FoldersAreOfRuns'
          BY <2>1, <1>1, <1>3, <1>4 DEF UsersKnown, RunsAreOfUser, FoldersAreOfRuns
    <2>5. UsersDiffer'
      <3> SUFFICES ASSUME NEW t \in Profile', NEW u \in Profile',
                          t # u, row'[t].alive, row'[u].alive, row'[t].uid = row'[u].uid
                   PROVE  row'[t].uid = Nobody
          BY DEF UsersDiffer
      <3>1. CASE row[s].alive
            BY <3>1, <2>1, <1>3, <1>4 DEF UsersKnown, UsersDiffer
      <3>2. CASE ~row[s].alive /\ s \in {t, u}
            BY <3>2, <1>3, <1>4
      <3>3. CASE s \notin {t, u}
            BY <3>3, <2>1, <1>4 DEF UsersKnown, UsersDiffer
      <3> QED BY <3>1, <3>2, <3>3
    <2>6. RunGoesByRow'
          BY <2>1, <2>2, <1>1, <1>3, <1>4 DEF UsersKnown, RunGoesByRow
    <2> QED BY <2>3, <2>4, <2>5, <2>6 DEF UsersKnown
  <1> QED BY <1>1, <1>6, <1>7 DEF IdentityInv

LEMMA TakeKeeps ==
    ASSUME IdentityInv, NEW s \in Profile, NEW scheduled \in BOOLEAN, TakeProfile(s, scheduled)
    PROVE  IdentityInv'
  <1>1. /\ network' = network /\ owner' = owner /\ hidden' = hidden /\ lastRun' = lastRun
        /\ folder' = folder /\ row' = row /\ check' = check /\ mishaps' = mishaps
        /\ moves' = moves /\ noticed' = noticed /\ edits' = edits /\ row[s].alive
        /\ running' = [step |-> IF network = "instagram" THEN "identify" ELSE "download",
                       profile |-> s, handle |-> row[s].handle, hint |-> row[s].hint,
                       problem |-> row[s].problem # "none", first |-> ~row[s].synced,
                       scheduled |-> scheduled, as |-> Nobody]
        BY DEF TakeProfile
  <1>2. row[s] \in ProfileRow
        BY DEF IdentityInv, IdentitySound, IdentityTypeOK
  <1>3. running' \in IdentityRun
        BY <1>1, <1>2 DEF IdentityRun, ProfileRow, Account
  <1>4. running'.step \in {"idle", "identify", "download"} /\ running'.profile = s
        /\ running'.first = ~row[s].synced /\ running'.hint = row[s].hint
        /\ network = "instagram" => running'.step = "identify"
        BY <1>1
  <1>5. IdentitySound'
        BY <1>1, <1>3, <1>4 DEF IdentityInv, IdentitySound, IdentityTypeOK
  <1>6. ASSUME network = "instagram", mishaps = {} PROVE UsersKnown'
    <2>1. UsersKnown
          BY <1>6 DEF IdentityInv
    <2>2. IdsAgree' /\ SyncedAreKnown' /\ RunsAreOfUser' /\ FoldersAreOfRuns' /\ UsersDiffer'
          BY <1>1, <2>1 DEF UsersKnown, IdsAgree, SyncedAreKnown, RunsAreOfUser, FoldersAreOfRuns,
                            UsersDiffer
    <2>3. RunGoesByRow'
          BY <1>1, <1>4, <1>6 DEF RunGoesByRow
    <2> QED BY <2>2, <2>3 DEF UsersKnown
  <1> QED BY <1>1, <1>5, <1>6 DEF IdentityInv

\* A sync that learns the user id: the profile has it already, or nobody else does.
LEMMA IdentifyKeeps ==
    ASSUME IdentityInv, network = "instagram", running.step = "identify",
           NEW found \in Resolved(running.handle, Expected(running.hint, running.profile))
                             \cup {Failure("other")},
           found.error = "", Identify(found),
           UNCHANGED <<network, owner, hidden, lastRun, folder, check, mishaps, moves, edits>>
    PROVE  IdentityInv'
  <1> DEFINE s == running.profile
             p == found.as
             hinted == [row[s] EXCEPT !.hint = p]
             judged == IF Recycled(hinted, p) THEN Marked(hinted, "handle_recycled")
                       ELSE [hinted EXCEPT !.uid = p]
             known == IF running.problem THEN Resumed(judged) ELSE judged
  <1>1. running \in IdentityRun /\ s \in Profile /\ running # NoRun
    <2>1. NoRun.step = "idle"
          BY DEF NoRun
    <2>2. running \in IdentityRun
          BY <2>1 DEF IdentityInv, IdentitySound
    <2> QED BY <2>1, <2>2 DEF IdentityRun
  <1>2. row \in [Profile -> ProfileRow] /\ row[s] \in ProfileRow /\ lastRun[s] \in Account
        /\ noticed \subseteq Profile
        BY <1>1 DEF IdentityInv, IdentitySound, IdentityTypeOK
  <1>3. Expected(running.hint, s) \in Account /\ running.handle \in Handle
        BY <1>1, <1>2 DEF Expected, IdentityRun
  <1>4. /\ p \in Person /\ p # Nobody /\ found.handle \in Handle
        /\ Expected(running.hint, s) \in {Nobody, p}
        BY <1>3, FoundIsExpected DEF IdentityInv, IdentitySound
  <1>5. hinted \in ProfileRow /\ hinted.uid = row[s].uid /\ hinted.hint = p
        /\ hinted.alive = row[s].alive /\ hinted.synced = row[s].synced
        BY <1>2, <1>4 DEF ProfileRow, Account
  <1>6. judged \in ProfileRow /\ judged.hint = p
        /\ judged.alive = row[s].alive /\ judged.synced = row[s].synced
        /\ judged.uid = IF row[s].uid \in {Nobody, p} THEN p ELSE row[s].uid
    <2>1. CASE Recycled(hinted, p)
      <3>1. Marked(hinted, "handle_recycled") \in ProfileRow
            /\ Marked(hinted, "handle_recycled").uid = hinted.uid
            /\ Marked(hinted, "handle_recycled").hint = hinted.hint
            /\ Marked(hinted, "handle_recycled").alive = hinted.alive
            /\ Marked(hinted, "handle_recycled").synced = hinted.synced
            BY <1>5 DEF Marked, ProfileRow, Problem
      <3> QED BY <2>1, <3>1, <1>5 DEF Recycled
    <2>2. CASE ~Recycled(hinted, p)
      <3>1. judged = [hinted EXCEPT !.uid = p]
            BY <2>2
      <3>2. [hinted EXCEPT !.uid = p] \in ProfileRow
            /\ [hinted EXCEPT !.uid = p].uid = p
            /\ [hinted EXCEPT !.uid = p].hint = hinted.hint
            /\ [hinted EXCEPT !.uid = p].alive = hinted.alive
            /\ [hinted EXCEPT !.uid = p].synced = hinted.synced
            BY <1>5, <1>4 DEF ProfileRow, Account
      <3> QED BY <2>2, <3>1, <3>2, <1>5 DEF Recycled
    <2> QED BY <2>1, <2>2
  <1> HIDE DEF judged
  <1>7. known \in ProfileRow /\ known.hint = p /\ known.uid = judged.uid
        /\ known.alive = row[s].alive /\ known.synced = row[s].synced
    <2>1. Resumed(judged) \in ProfileRow /\ Resumed(judged).hint = judged.hint
          /\ Resumed(judged).uid = judged.uid /\ Resumed(judged).alive = judged.alive
          /\ Resumed(judged).synced = judged.synced
          BY <1>4, <1>6 DEF Resumed, ProfileRow, Problem
    <2> QED BY <2>1, <1>6
  <1> HIDE DEF known
  <1>8. CASE row[s].hint \notin {Nobody, p} /\ lastRun[s] # p
    <2>1. running' = NoRun /\ row' = row /\ noticed' = noticed
          BY <1>8 DEF Identify
    <2>2. NoRun.step = "idle"
          BY DEF NoRun
    <2>3. IdentitySound'
          BY <2>1, <2>2 DEF IdentityInv, IdentitySound, IdentityTypeOK
    <2>4. ASSUME mishaps = {} PROVE UsersKnown'
          BY <2>1, <2>4 DEF IdentityInv, UsersKnown, IdsAgree, SyncedAreKnown, RunsAreOfUser,
                            FoldersAreOfRuns, UsersDiffer, RunGoesByRow
    <2> QED BY <2>3, <2>4 DEF IdentityInv
  <1>9. CASE ~(row[s].hint \notin {Nobody, p} /\ lastRun[s] # p)
    <2>1. /\ noticed' = IF Recycled(row[s], p) THEN noticed \cup {s} ELSE noticed
          /\ IF Duplicate(s, p)
             THEN /\ row' = [row EXCEPT ![s] = Removed(judged)]
                  /\ running' = NoRun
             ELSE /\ row' = [row EXCEPT ![s] = Rehandled(known, found.handle)]
                  /\ running' = [running EXCEPT !.step = "download",
                                                !.handle = found.handle, !.as = p]
          BY <1>9 DEF Identify, Verdict, judged, known
    <2>2. noticed' \subseteq Profile
          BY <2>1, <1>1, <1>2
    <2>3. ASSUME mishaps = {}
          PROVE  UsersKnown /\ row[s].uid \in {Nobody, p} /\ lastRun[s] \in {Nobody, p}
                 /\ row[s].alive /\ running.first = ~row[s].synced
      <3>1. UsersKnown
            BY <2>3 DEF IdentityInv
      <3>2. running.hint = row[s].hint /\ row[s].hint = row[s].uid
            BY <3>1, <1>1 DEF UsersKnown, RunGoesByRow, IdsAgree
      <3>3. lastRun[s] # Nobody => lastRun[s] = row[s].uid
            BY <3>1, <1>1 DEF UsersKnown, RunsAreOfUser
      <3> QED BY <3>1, <3>2, <3>3, <1>1, <1>4 DEF UsersKnown, RunGoesByRow, Expected
    <2>4. CASE Duplicate(s, p)
      <3> DEFINE away == Removed(judged)
      <3>1. away \in ProfileRow /\ ~away.alive /\ away.uid = judged.uid /\ away.hint = p
            /\ away.synced = row[s].synced
            BY <1>4, <1>6 DEF Removed, ProfileRow
      <3> HIDE DEF away
      <3>2. row' = [row EXCEPT ![s] = away] /\ running' = NoRun /\ NoRun.step = "idle"
            BY <2>1, <2>4 DEF away, NoRun
      <3>3. row' \in [Profile -> ProfileRow] /\ row'[s] = away
            /\ \A t \in Profile \ {s} : row'[t] = row[t]
            BY <3>1, <3>2, <1>1, <1>2
      <3>4. IdentitySound'
            BY <2>2, <3>2, <3>3 DEF IdentityInv, IdentitySound, IdentityTypeOK
      <3>5. ASSUME mishaps = {} PROVE UsersKnown'
        <4>1. UsersKnown /\ ~row[s].synced /\ away.uid = p
              BY <3>5, <2>3, <2>4, <3>1, <1>6 DEF Duplicate
        <4>2. lastRun[s] = Nobody
              BY <4>1, <1>1 DEF UsersKnown, RunsAreOfUser
        <4>3. IdsAgree' /\ SyncedAreKnown'
          <5>1. IdsAgree'
                BY <4>1, <3>1, <3>3 DEF UsersKnown, IdsAgree
          <5>2. SyncedAreKnown'
                BY <4>1, <3>1, <3>3, <1>4 DEF UsersKnown, SyncedAreKnown
          <5> QED BY <5>1, <5>2
        <4>4. RunsAreOfUser' /\ FoldersAreOfRuns'
              BY <4>1, <4>2, <3>1, <3>3 DEF UsersKnown, RunsAreOfUser, FoldersAreOfRuns
        <4>5. UsersDiffer'
          <5> SUFFICES ASSUME NEW t \in Profile, NEW u \in Profile,
                              t # u, row'[t].alive, row'[u].alive, row'[t].uid = row'[u].uid
                       PROVE  row'[t].uid = Nobody
              BY DEF UsersDiffer
          <5>1. t # s /\ u # s
                BY <3>1, <3>3
          <5> QED BY <5>1, <4>1, <3>3 DEF UsersKnown, UsersDiffer
        <4> QED BY <4>3, <4>4, <4>5, <3>2 DEF UsersKnown, RunGoesByRow
      <3> QED BY <3>4, <3>5 DEF IdentityInv
    <2>5. CASE ~Duplicate(s, p)
      <3> DEFINE new == Rehandled(known, found.handle)
                 next == [running EXCEPT !.step = "download", !.handle = found.handle, !.as = p]
      <3>1. new \in ProfileRow /\ new.alive = row[s].alive /\ new.uid = judged.uid /\ new.hint = p
            /\ new.synced = row[s].synced
            BY <1>4, <1>7 DEF Rehandled, ProfileRow
      <3>2. next \in IdentityRun /\ next.step = "download" /\ next.as = p /\ next.profile = s
            /\ next.first = running.first
            BY <1>1, <1>4 DEF IdentityRun, Account
      <3>3. row' = [row EXCEPT ![s] = new] /\ running' = next
            BY <2>1, <2>5
      <3> HIDE DEF new, next
      <3>4. row' \in [Profile -> ProfileRow] /\ row'[s] = new
            /\ \A t \in Profile \ {s} : row'[t] = row[t]
            BY <3>1, <3>3, <1>1, <1>2
      <3>5. IdentitySound'
            BY <2>2, <3>2, <3>3, <3>4 DEF IdentityInv, IdentitySound, IdentityTypeOK
      <3>6. ASSUME mishaps = {} PROVE UsersKnown'
        <4>1. UsersKnown /\ new.uid = p /\ lastRun[s] \in {Nobody, p} /\ new.alive
              /\ running.first = ~row[s].synced
              BY <3>6, <2>3, <3>1, <1>6
        <4>2. IdsAgree' /\ SyncedAreKnown'
          <5>1. IdsAgree'
            <6>1. new.uid = new.hint
                  BY <4>1, <3>1
            <6>2. \A t \in Profile \ {s} : row'[t].uid = row'[t].hint
                  BY <4>1, <3>4 DEF UsersKnown, IdsAgree
            <6>3. \A t \in Profile : t = s \/ t \in Profile \ {s}
                  OBVIOUS
            <6> QED BY <6>1, <6>2, <6>3, <3>4 DEF IdsAgree
          <5>2. SyncedAreKnown'
            <6> SUFFICES ASSUME NEW t \in Profile, row'[t].synced PROVE row'[t].uid # Nobody
                BY DEF SyncedAreKnown
            <6>1. CASE t = s
                  BY <6>1, <4>1, <3>4, <1>4
            <6>2. CASE t # s
                  BY <6>2, <4>1, <3>4 DEF UsersKnown, SyncedAreKnown
            <6> QED BY <6>1, <6>2
          <5> QED BY <5>1, <5>2
        <4>3. RunsAreOfUser' /\ FoldersAreOfRuns'
          <5>1. RunsAreOfUser'
                BY <4>1, <3>1, <3>4 DEF UsersKnown, RunsAreOfUser
          <5>2. FoldersAreOfRuns'
                BY <4>1 DEF UsersKnown, FoldersAreOfRuns
          <5> QED BY <5>1, <5>2
        <4>4. \A t \in Profile \ {s} : row[t].alive => row[t].uid # p
          <5>1. CASE running.first
                BY <5>1, <2>5 DEF Duplicate, SameUser
          <5>2. CASE ~running.first
            <6>1. row[s].synced /\ row[s].alive /\ row[s].uid = p
                  BY <5>2, <4>1, <2>3, <3>6, <1>1, <1>2
                  DEF UsersKnown, SyncedAreKnown, ProfileRow
            <6> QED BY <6>1, <4>1, <1>1, <1>4 DEF UsersKnown, UsersDiffer
          <5> QED BY <5>1, <5>2
        <4>5. UsersDiffer'
          <5> SUFFICES ASSUME NEW t \in Profile, NEW u \in Profile,
                              t # u, row'[t].alive, row'[u].alive, row'[t].uid = row'[u].uid
                       PROVE  row'[t].uid = Nobody
              BY DEF UsersDiffer
          <5>1. CASE t = s
                BY <5>1, <4>1, <4>4, <3>4
          <5>2. CASE u = s
                BY <5>2, <4>1, <4>4, <3>4
          <5>3. CASE t # s /\ u # s
                BY <5>3, <4>1, <3>4 DEF UsersKnown, UsersDiffer
          <5> QED BY <5>1, <5>2, <5>3
        <4>6. RunGoesByRow'
          <5>1. running'.profile = s /\ running'.step = "download" /\ running'.as = p
                /\ running'.first = ~new.synced /\ row'[s] = new
                BY <4>1, <3>1, <3>2, <3>3, <3>4
          <5> QED BY <5>1, <4>1, <1>4 DEF RunGoesByRow
        <4> QED BY <4>2, <4>3, <4>5, <4>6 DEF UsersKnown
      <3> QED BY <3>5, <3>6 DEF IdentityInv
    <2> QED BY <2>4, <2>5
  <1> QED BY <1>8, <1>9

\* One that does not learn it, ends.
LEMMA UnidentifiedKeeps ==
    ASSUME IdentityInv, network = "instagram", running.step = "identify",
           NEW found \in Resolved(running.handle, Expected(running.hint, running.profile))
                             \cup {Failure("other")},
           found.error # "", Unidentified(found.error),
           UNCHANGED <<network, owner, hidden, lastRun, folder, check, mishaps, moves, edits>>
    PROVE  IdentityInv'
  <1> DEFINE s == running.profile
  <1>1. running \in IdentityRun /\ s \in Profile /\ NoRun.step = "idle"
    <2>1. NoRun.step = "idle"
          BY DEF NoRun
    <2>2. running \in IdentityRun
          BY <2>1 DEF IdentityInv, IdentitySound
    <2> QED BY <2>1, <2>2 DEF IdentityRun
  <1>2. row \in [Profile -> ProfileRow] /\ row[s] \in ProfileRow /\ lastRun[s] \in Account
        BY <1>1 DEF IdentityInv, IdentitySound, IdentityTypeOK
  <1>3. found \in Finding
    <2>1. Expected(running.hint, s) \in Account /\ running.handle \in Handle
          BY <1>1, <1>2 DEF Expected, IdentityRun
    <2> QED BY <2>1, FoundIsExpected DEF IdentityInv, IdentitySound
  <1>4. /\ row' \in [Profile -> ProfileRow]
        /\ \A t \in Profile :
            /\ row'[t].uid = row[t].uid /\ row'[t].hint = row[t].hint
            /\ row'[t].alive = row[t].alive /\ row'[t].synced = row[t].synced
    <2>1. CASE found.error = "other"
          BY <2>1, <1>2 DEF Unidentified
    <2>2. CASE found.error # "other"
      <3> DEFINE new == Marked(row[s], found.error)
      <3>1. found.error \in Problem
            BY <2>2, <1>3 DEF Finding, Problem
      <3>2. new \in ProfileRow /\ new.uid = row[s].uid /\ new.hint = row[s].hint
            /\ new.alive = row[s].alive /\ new.synced = row[s].synced
            BY <1>2, <3>1 DEF Marked, ProfileRow
      <3> HIDE DEF new
      <3>3. row' = [row EXCEPT ![s] = new]
            BY <2>2 DEF Unidentified, new
      <3>4. row' \in [Profile -> ProfileRow] /\ row'[s] = new
            /\ \A t \in Profile \ {s} : row'[t] = row[t]
            BY <1>1, <1>2, <3>2, <3>3
      <3> QED BY <3>2, <3>4
    <2> QED BY <2>1, <2>2
  <1>5. running' = NoRun /\ noticed' = noticed
        BY DEF Unidentified
  <1>6. IdentitySound'
        BY <1>1, <1>4, <1>5 DEF IdentityInv, IdentitySound, IdentityTypeOK
  <1>7. Kept
        BY <1>4, <1>5 DEF Kept
  <1> QED BY <1>6, <1>7, KeptUsers

LEMMA UserIdentifyKeeps ==
    ASSUME IdentityInv, UserIdentify
    PROVE  IdentityInv'
  <1>1. running.step = "identify" /\ network = "instagram"
        BY DEF UserIdentify, IdentityInv, IdentitySound
  <1>2. PICK found \in Resolved(running.handle, Expected(running.hint, running.profile))
                             \cup {Failure("other")} :
            IF found.error = "" THEN Identify(found) ELSE Unidentified(found.error)
          BY DEF UserIdentify
  <1>3. UNCHANGED <<network, owner, hidden, lastRun, folder, check, mishaps, moves, edits>>
          BY DEF UserIdentify
  <1> QED BY <1>1, <1>2, <1>3, IdentifyKeeps, UnidentifiedKeeps

LEMMA DownloadRuns ==
    ASSUME IdentityInv, running.step = "download"
    PROVE  /\ running \in IdentityRun /\ running # NoRun /\ running.profile \in Profile
           /\ running.handle \in Handle /\ NoRun.step = "idle"
           /\ row \in [Profile -> ProfileRow] /\ lastRun \in [Profile -> Account]
           /\ folder \in [Profile -> SUBSET Person] /\ owner \in [Handle -> Account]
  <1>1. NoRun.step = "idle"
        BY DEF NoRun
  <1>2. running \in IdentityRun
        BY <1>1 DEF IdentityInv, IdentitySound
  <1> QED BY <1>1, <1>2 DEF IdentityInv, IdentitySound, IdentityTypeOK, IdentityRun

LEMMA UserDownloadKeeps ==
    ASSUME IdentityInv, UserDownload
    PROVE  IdentityInv'
  <1> DEFINE s == running.profile
             found == ByName(running.handle)
  <1>1. /\ network = "instagram" /\ running.step = "download" /\ running' = NoRun
        /\ network' = network /\ owner' = owner /\ hidden' = hidden /\ check' = check
        /\ noticed' = noticed /\ moves' = moves /\ edits' = edits
        BY DEF UserDownload
  <1>2. /\ running \in IdentityRun /\ running # NoRun /\ s \in Profile
        /\ running.handle \in Handle /\ NoRun.step = "idle"
        /\ row \in [Profile -> ProfileRow] /\ lastRun \in [Profile -> Account]
        /\ folder \in [Profile -> SUBSET Person] /\ owner \in [Handle -> Account]
        BY <1>1, DownloadRuns
  <1>3. /\ found.as \in Account
        /\ found.as = Nobody => found.error \in {"unresolvable", "private"}
        BY <1>2 DEF ByName, Failure, Found, Account
  <1>4. row[s] \in ProfileRow
        BY <1>2
  <1>5. CASE UNCHANGED <<row, lastRun, folder, mishaps>>
    <2>1. IdentitySound' /\ Kept
          BY <1>1, <1>2, <1>5 DEF IdentityInv, IdentitySound, IdentityTypeOK, Kept
    <2> QED BY <2>1, KeptUsers
  <1>6. CASE /\ found.as = Nobody
             /\ row' = [row EXCEPT ![s] = Marked(@, found.error)]
             /\ UNCHANGED <<lastRun, folder, mishaps>>
    <2> DEFINE new == Marked(row[s], found.error)
    <2>1. new \in ProfileRow /\ new.uid = row[s].uid /\ new.hint = row[s].hint
          /\ new.alive = row[s].alive /\ new.synced = row[s].synced
          BY <1>3, <1>4, <1>6 DEF Marked, ProfileRow, Problem
    <2> HIDE DEF new
    <2>2. row' = [row EXCEPT ![s] = new]
          BY <1>6 DEF new
    <2>3. row' \in [Profile -> ProfileRow] /\ row'[s] = new
          /\ \A t \in Profile \ {s} : row'[t] = row[t]
          BY <1>2, <2>1, <2>2
    <2>4. IdentitySound'
          BY <1>1, <1>2, <1>6, <2>3 DEF IdentityInv, IdentitySound, IdentityTypeOK
    <2>5. Kept
          BY <1>1, <1>6, <2>1, <2>3 DEF Kept
    <2> QED BY <2>4, <2>5, KeptUsers
  <1>7. CASE /\ found.as # Nobody
             /\ folder' = [folder EXCEPT ![s] = @ \cup {found.as}]
             /\ lastRun' = [lastRun EXCEPT ![s] = found.as]
             /\ row' = [row EXCEPT ![s] = Committed(@)]
             /\ mishaps' = IF found.as = running.as THEN mishaps ELSE mishaps \cup {"overtaken"}
    <2> DEFINE new == Committed(row[s])
               p == found.as
    <2>1. new \in ProfileRow /\ new.uid = row[s].uid /\ new.hint = row[s].hint
          /\ new.alive = row[s].alive /\ new.synced
      <3>1. Resumed(row[s]) \in ProfileRow /\ Resumed(row[s]).uid = row[s].uid
            /\ Resumed(row[s]).hint = row[s].hint /\ Resumed(row[s]).alive = row[s].alive
            BY <1>4 DEF Resumed, ProfileRow, Problem
      <3>2. \A q \in ProfileRow : /\ Synced(q) \in ProfileRow
                                  /\ Synced(q).uid = q.uid /\ Synced(q).hint = q.hint
                                  /\ Synced(q).alive = q.alive /\ Synced(q).synced
            BY DEF Synced, ProfileRow
      <3> QED BY <3>1, <3>2 DEF Committed
    <2>2. p \in Person /\ p # Nobody
          BY <1>3, <1>7 DEF Account
    <2> HIDE DEF new, p
    <2>3. /\ row' = [row EXCEPT ![s] = new] /\ lastRun' = [lastRun EXCEPT ![s] = p]
          /\ folder' = [folder EXCEPT ![s] = @ \cup {p}]
          BY <1>7 DEF new, p
    <2>4. /\ row' \in [Profile -> ProfileRow] /\ row'[s] = new
          /\ \A t \in Profile \ {s} : row'[t] = row[t]
          /\ lastRun' \in [Profile -> Account] /\ lastRun'[s] = p
          /\ \A t \in Profile \ {s} : lastRun'[t] = lastRun[t]
          /\ folder' \in [Profile -> SUBSET Person] /\ folder'[s] = folder[s] \cup {p}
          /\ \A t \in Profile \ {s} : folder'[t] = folder[t]
          BY <1>2, <2>1, <2>2, <2>3 DEF Account
    <2>5. mishaps' \subseteq {"overtaken", "poured"}
          BY <1>7 DEF IdentityInv, IdentitySound, IdentityTypeOK
    <2>6. IdentitySound'
          BY <1>1, <1>2, <2>4, <2>5 DEF IdentityInv, IdentitySound, IdentityTypeOK
    <2>7. ASSUME mishaps' = {} PROVE UsersKnown'
      <3>1. mishaps = {} /\ p = running.as
            BY <1>7, <2>7 DEF p
      <3>2. UsersKnown
            BY <3>1, <1>1 DEF IdentityInv
      <3>3. row[s].alive /\ row[s].uid = p /\ lastRun[s] \in {Nobody, p}
            BY <3>1, <3>2, <1>1, <1>2 DEF UsersKnown, RunGoesByRow, RunsAreOfUser
      <3>4. IdsAgree' /\ SyncedAreKnown'
        <4>1. IdsAgree'
              BY <3>2, <2>1, <2>4 DEF UsersKnown, IdsAgree
        <4>2. SyncedAreKnown'
              BY <3>2, <3>3, <2>1, <2>2, <2>4 DEF UsersKnown, SyncedAreKnown
        <4> QED BY <4>1, <4>2
      <3>5. RunsAreOfUser'
            BY <3>2, <3>3, <2>1, <2>2, <2>4 DEF UsersKnown, RunsAreOfUser
      <3>6. FoldersAreOfRuns'
            BY <3>2, <3>3, <2>2, <2>4 DEF UsersKnown, FoldersAreOfRuns
      <3>7. UsersDiffer'
            BY <3>2, <2>1, <2>4 DEF UsersKnown, UsersDiffer
      <3> QED BY <3>4, <3>5, <3>6, <3>7, <1>1 DEF UsersKnown, RunGoesByRow
    <2> QED BY <2>6, <2>7 DEF IdentityInv
  <1> QED BY <1>5, <1>6, <1>7 DEF UserDownload

LEMMA ChannelKeeps ==
    ASSUME IdentityInv, ChannelDownload
    PROVE  IdentityInv'
  <1> DEFINE s == running.profile
             p == owner[running.handle]
  <1>1. /\ network = "youtube" /\ running.step = "download" /\ running' = NoRun
        /\ network' = network /\ owner' = owner /\ hidden' = hidden /\ check' = check
        /\ lastRun' = lastRun /\ moves' = moves /\ edits' = edits
        BY DEF ChannelDownload
  <1>2. /\ s \in Profile /\ running.handle \in Handle /\ NoRun.step = "idle"
        /\ row \in [Profile -> ProfileRow] /\ row[s] \in ProfileRow
        /\ folder \in [Profile -> SUBSET Person] /\ p \in Account
        BY <1>1, DownloadRuns
  <1>3. \A r \in ProfileRow : /\ Synced(r) \in ProfileRow /\ Resumed(r) \in ProfileRow
                              /\ Removed(r) \in ProfileRow /\ FirstHint(r, p) \in ProfileRow
    <2>1. \A r \in ProfileRow : Synced(r) \in ProfileRow /\ Removed(r) \in ProfileRow
          BY DEF Synced, Removed, ProfileRow
    <2>2. \A r \in ProfileRow : Resumed(r) \in ProfileRow
          BY DEF Resumed, ProfileRow, Problem
    <2>3. \A r \in ProfileRow : FirstHint(r, p) \in ProfileRow
          BY <1>2 DEF FirstHint, ProfileRow
    <2> QED BY <2>1, <2>2, <2>3
  <1>4. \A r \in ProfileRow : \A code \in Problem : Marked(r, code) \in ProfileRow
        BY DEF Marked, ProfileRow
  <1>5. \A r \in ProfileRow : Verdict(r, p) \in ProfileRow
    <2>1. "handle_recycled" \in Problem
          BY DEF Problem
    <2>2. \A r \in ProfileRow : [r EXCEPT !.uid = p] \in ProfileRow
          BY <1>2 DEF ProfileRow
    <2> QED BY <2>1, <2>2, <1>4 DEF Verdict
  <1>6. /\ noticed' \subseteq Profile /\ folder' \in [Profile -> SUBSET Person]
        /\ mishaps' \subseteq {"overtaken", "poured"}
    <2>1. /\ noticed' \in {noticed, noticed \cup {s}}
          /\ mishaps' \in {mishaps, mishaps \cup {"poured"}}
          BY DEF ChannelDownload
    <2>2. folder' = folder \/ (p # Nobody /\ folder' = [folder EXCEPT ![s] = @ \cup {p}])
          BY DEF ChannelDownload
    <2>3. folder' \in [Profile -> SUBSET Person]
          BY <2>2, <1>2 DEF Account
    <2> QED BY <2>1, <2>3, <1>2 DEF IdentityInv, IdentitySound, IdentityTypeOK
  <1>7. row' \in [Profile -> ProfileRow]
    <2>1. PICK new : row' = [row EXCEPT ![s] = new] /\
              new \in {row[s], Marked(row[s], "unavailable"), Synced(Resumed(row[s])),
                       Removed(row[s]), Synced(Resumed(Verdict(FirstHint(row[s], p), p)))}
          BY <1>2 DEF ChannelDownload
    <2>2. "unavailable" \in Problem
          BY DEF Problem
    <2>3. new \in ProfileRow
          BY <2>1, <2>2, <1>2, <1>3, <1>4, <1>5
    <2> QED BY <2>1, <2>3, <1>2
  <1>8. IdentitySound'
        BY <1>1, <1>2, <1>6, <1>7 DEF IdentityInv, IdentitySound, IdentityTypeOK
  <1> QED BY <1>1, <1>8 DEF IdentityInv

LEMMA ProbeKeeps ==
    ASSUME IdentityInv, NEW s \in Profile, ProbeProfile(s)
    PROVE  IdentityInv'
  <1> DEFINE expected == Expected(row[s].hint, s)
  <1>1. /\ Kept /\ running' = running /\ row' = row /\ owner' = owner /\ hidden' = hidden
        /\ noticed' = noticed /\ moves' = moves /\ edits' = edits
        BY DEF ProbeProfile, Kept
  <1>2. row[s] \in ProfileRow /\ lastRun[s] \in Account
        BY DEF IdentityInv, IdentitySound, IdentityTypeOK
  <1>3. row[s].handle \in Handle /\ expected \in Account
        BY <1>2 DEF ProfileRow, Expected
  <1>4. PICK found \in Decided(row[s].handle, expected) :
            /\ found.error # "other"
            /\ check' = [step |-> "settle", profile |-> s, previous |-> row[s].handle,
                         found |-> found]
        BY DEF ProbeProfile
  <1> HIDE DEF expected
  <1>5. \A other \in Resolved(row[s].handle, expected) : other \in Finding
        BY <1>3, FoundIsExpected DEF IdentityInv, IdentitySound
  <1>6. ByName(row[s].handle) \in Finding
    <2>1. owner[row[s].handle] \in Account
          BY <1>3 DEF IdentityInv, IdentitySound, IdentityTypeOK
    <2> QED BY <2>1, <1>3 DEF ByName, Failure, Found, Finding, Account
  <1>7. found \in Finding
    <2>1. Failure("other") \in Finding
          BY DEF Failure, Finding, Account
    <2>2. \A other \in Finding : [ByName(row[s].handle) EXCEPT !.handle = other.handle] \in Finding
          BY <1>6 DEF Finding
    <2>3. PICK other \in Resolved(row[s].handle, expected) :
            found \in {ByName(row[s].handle), other, Failure("other"),
                       [ByName(row[s].handle) EXCEPT !.handle = other.handle]}
      <3> DEFINE h == row[s].handle
                 first == ByName(h)
                 astray == expected # Nobody /\ first.as # expected
                 Verdicts(other) ==
                    CASE ~astray -> {first}
                      [] astray /\ first.error = "private" -> {[first EXCEPT !.handle = other.handle]}
                      [] astray /\ first.error # "private" /\ other.error = "" -> {other}
                      [] astray /\ first.error = "unresolvable" /\ other.error # "" -> {first}
                      [] astray /\ first.error = "" /\ other.error # "" -> {Failure("other")}
      <3>1. found \in UNION {Verdicts(other) : other \in Resolved(h, expected)}
            BY <1>4 DEF Decided
      <3>2. PICK other \in Resolved(h, expected) : found \in Verdicts(other)
            BY <3>1
      <3>3. first.error \in {"", "private", "unresolvable"}
            BY DEF ByName, Failure, Found
      <3> HIDE DEF first
      <3>4. Verdicts(other) \subseteq {first, other, Failure("other"),
                                       [first EXCEPT !.handle = other.handle]}
            BY <3>3
      <3> QED BY <3>2, <3>4 DEF first
    <2> QED BY <2>1, <2>2, <2>3, <1>5, <1>6
  <1>8. check' \in Checking /\ check'.found.error # "other" /\ check'.step = "settle"
        BY <1>3, <1>4, <1>7 DEF Checking
  <1>9. IdentitySound'
        BY <1>1, <1>8 DEF IdentityInv, IdentitySound, IdentityTypeOK, Kept
  <1> QED BY <1>1, <1>9, KeptUsers

LEMMA SettleKeeps ==
    ASSUME IdentityInv, SettleCheck
    PROVE  IdentityInv'
  <1> DEFINE s == check.profile
             found == check.found
             moved == IF found.handle \in Handle \ {check.previous}
                      THEN Rehandled(row[s], found.handle) ELSE row[s]
             settled == IF found.error = "" THEN Resumed(moved) ELSE Marked(moved, found.error)
  <1>1. /\ check.step = "settle" /\ check' = NoRun /\ NoRun.step = "idle"
        /\ network' = network /\ owner' = owner /\ hidden' = hidden /\ lastRun' = lastRun
        /\ folder' = folder /\ running' = running /\ noticed' = noticed /\ mishaps' = mishaps
        /\ moves' = moves /\ edits' = edits
        /\ row' = IF row[s].alive THEN [row EXCEPT ![s] = settled] ELSE row
        BY DEF SettleCheck, NoRun
  <1>2. check \in Checking /\ found.error # "other"
        BY <1>1 DEF IdentityInv, IdentitySound
  <1>3. s \in Profile /\ found.error \in {""} \cup Problem
        BY <1>2 DEF Checking, Finding, Problem
  <1>4. row \in [Profile -> ProfileRow] /\ row[s] \in ProfileRow
        BY <1>3 DEF IdentityInv, IdentitySound, IdentityTypeOK
  <1>5. moved \in ProfileRow /\ moved.uid = row[s].uid /\ moved.hint = row[s].hint
        /\ moved.alive = row[s].alive /\ moved.synced = row[s].synced
        BY <1>4 DEF Rehandled, ProfileRow
  <1> HIDE DEF moved, found
  <1>6. settled \in ProfileRow /\ settled.uid = row[s].uid /\ settled.hint = row[s].hint
        /\ settled.alive = row[s].alive /\ settled.synced = row[s].synced
        BY <1>3, <1>5 DEF Resumed, Marked, ProfileRow, Problem
  <1> HIDE DEF settled
  <1>7. /\ row' \in [Profile -> ProfileRow]
        /\ \A t \in Profile :
            /\ row'[t].uid = row[t].uid /\ row'[t].hint = row[t].hint
            /\ row'[t].alive = row[t].alive /\ row'[t].synced = row[t].synced
    <2>1. CASE row[s].alive
      <3>1. row' = [row EXCEPT ![s] = settled]
            BY <1>1, <2>1
      <3>2. row' \in [Profile -> ProfileRow] /\ row'[s] = settled
            /\ \A t \in Profile \ {s} : row'[t] = row[t]
            BY <3>1, <1>3, <1>4, <1>6
      <3> QED BY <3>2, <1>6
    <2> QED BY <2>1, <1>1, <1>4
  <1>8. Kept
        BY <1>1, <1>7 DEF Kept
  <1>9. IdentitySound'
        BY <1>1, <1>7 DEF IdentityInv, IdentitySound, IdentityTypeOK
  <1> QED BY <1>8, <1>9, KeptUsers

LEMMA IdentityInductive ==
    ASSUME IdentityInv, [IdentityNext]_identity_vars
    PROVE  IdentityInv'
  <1>1. CASE Upstream
        BY <1>1, UpstreamKeeps
  <1>2. ASSUME NEW s \in Profile, NEW h \in Handle, NEW ready \in BOOLEAN,
               SaveProfile(s, h, ready)
        PROVE  IdentityInv'
        BY <1>2, SaveKeeps
  <1>3. ASSUME NEW s \in Profile, NEW scheduled \in BOOLEAN, TakeProfile(s, scheduled)
        PROVE  IdentityInv'
        BY <1>3, TakeKeeps
  <1>4. CASE SyncIdentityStep
        BY <1>4, UserIdentifyKeeps, UserDownloadKeeps, ChannelKeeps DEF SyncIdentityStep
  <1>5. ASSUME NEW s \in Profile, ProbeProfile(s)
        PROVE  IdentityInv'
        BY <1>5, ProbeKeeps
  <1>6. CASE SettleCheck
        BY <1>6, SettleKeeps
  <1>7. CASE UNCHANGED identity_vars
    <2>1. IdentitySound'
          BY <1>7 DEF identity_vars, IdentityInv, IdentitySound, IdentityTypeOK
    <2>2. Kept
          BY <1>7 DEF identity_vars, Kept
    <2> QED BY <2>1, <2>2, KeptUsers
  <1> QED BY <1>1, <1>2, <1>3, <1>4, <1>5, <1>6, <1>7 DEF IdentityNext

LEMMA IdentityAlways == IdentitySpec => []IdentityInv
  <1>1. IdentityInit => IdentityInv
        BY IdentityInitial
  <1>2. IdentityInv /\ [IdentityNext]_identity_vars => IdentityInv'
        BY IdentityInductive
  <1> QED BY <1>1, <1>2, PTL DEF IdentitySpec

\* The profiles, and what the syncs and the availability check know of them, keep
\* their types.
THEOREM IdentityTypeCorrect == IdentitySpec => []IdentityTypeOK
  <1>1. IdentityInv => IdentityTypeOK
        BY DEF IdentityInv, IdentitySound
  <1> QED BY <1>1, IdentityAlways, PTL

\* However often handles change hands, profiles are added and edited, and checks
\* write between the steps of a sync: a folder of Instagram holds one person's media
\* and no other profile's does, unless a handle was overtaken before the download.
THEOREM OnePersonInEachFolder == IdentitySpec => []OnePersonEach
  <1>1. ASSUME IdentityInv PROVE OnePersonEach
    <2> SUFFICES ASSUME network = "instagram", mishaps = {}
                 PROVE  /\ \A s \in Profile : Cardinality(folder[s]) <= 1
                        /\ \A s, t \in Profile :
                             s # t /\ row[s].alive /\ row[t].alive => folder[s] \cap folder[t] = {}
        BY DEF OnePersonEach
    <2>1. UsersKnown
          BY <1>1 DEF IdentityInv
    <2>2. ASSUME NEW s \in Profile PROVE Cardinality(folder[s]) <= 1
      <3>1. folder[s] = {} \/ folder[s] = {lastRun[s]}
            BY <2>1 DEF UsersKnown, FoldersAreOfRuns
      <3>2. Cardinality({}) = 0 /\ Cardinality({lastRun[s]}) = 1
            BY FS_EmptySet, FS_Singleton
      <3> QED BY <3>1, <3>2
    <2>3. ASSUME NEW s \in Profile, NEW t \in Profile, s # t, row[s].alive, row[t].alive,
                 NEW p \in folder[s] \cap folder[t]
          PROVE  FALSE
      <3>1. p # Nobody /\ row[s].uid = p /\ row[t].uid = p
            BY <2>1, <2>3 DEF UsersKnown, FoldersAreOfRuns, RunsAreOfUser
      <3> QED BY <3>1, <2>1, <2>3 DEF UsersKnown, UsersDiffer
    <2> QED BY <2>2, <2>3
  <1> QED BY <1>1, IdentityAlways, PTL
=============================================================================
