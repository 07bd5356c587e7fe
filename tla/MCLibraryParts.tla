---------------------------- MODULE MCLibraryParts ----------------------------
(***************************************************************************)
(* What fills the library and what looks after it, side by side: one       *)
(* profile of each provider, synced, scanned and deleted from, two         *)
(* profiles whose accounts change handles, liked videos, the cleanup and   *)
(* the media index.  Each behaviour exercises one of them, the focus, and  *)
(* leaves the others as they start.                                        *)
(***************************************************************************)
EXTENDS TwitterScan, TikTokScan, YoutubeScan, VscoScan, InstagramScan, TikTokLikes,
        SourceIdentity, MediaDedupe, MediaIndex, TLC

\* The profile: the first of its posts is a video and at the top, the second is
\* liked by its author, and a reel, a short and a journal entry where there are
\* such; the first and the third have the same bytes.
FirstPost == {1}
SecondPost == {2}
Copies == {1, 3}
BothModels == {"media", "likes"}
BothTabs == {"videos", "shorts"}
BothSections == {"gallery", "journal"}

\* The limits on liked videos: none, or one.
Limits == {0, 1}

\* Two profiles a user may add, one handle taken and one free.
CONSTANTS q1, q2, h1, h2, anna, bert
BothProfiles == {q1, q2}
BothHandles == {h1, h2}
BothPeople == {anna, bert}

\* The cleanup: two media of one profile and a folder that files come from;
\* i1 and i2 have the same bytes, i3 others.
CONSTANTS s1, m1, m2, i1, i2, i3, gone, binned
Paths == <<m1, m2>>
Owner == (m1 :> s1) @@ (m2 :> s1)
Inodes == {i1, i2, i3}
Bytes == (i1 :> "x") @@ (i2 :> "x") @@ (i3 :> "y")
Library == (m1 :> i1) @@ (m2 :> i2)
Stores == <<i3>>
KeepFirst == [keep |-> m1, remove |-> {m2}]
KeepSecond == [keep |-> m2, remove |-> {m1}]
Selected == {<<KeepFirst, KeepSecond>>}

\* The index.
CONSTANTS f1
Files == {f1}
AllJobs == {{f1} \X Kind}

----------------------------------------------------------------------------
VARIABLE focus

scan_parts == <<profile_vars, twitter_vars, tiktok_vars, films>>
library_vars == <<scan_parts, identity_vars, likes_vars, cleanup_vars, index_vars, focus>>

Provider == {"twitter", "tiktok", "youtube", "vsco", "instagram"}

LibraryInit ==
    /\ PresenceInit /\ TwitterInit /\ TikTokInit /\ VscoInit
    /\ IdentityInit /\ LikesInit /\ CleanupInit /\ IndexInit
    /\ focus \in Provider \cup {"identity", "likes", "cleanup", "index"}

ScansNext ==
    \/ focus = "twitter" /\ TwitterNext /\ UNCHANGED <<tiktok_vars, films>>
    \/ focus = "tiktok" /\ TikTokNext /\ UNCHANGED <<twitter_vars, films>>
    \/ focus = "youtube" /\ YoutubeNext /\ UNCHANGED <<twitter_vars, tiktok_vars, films>>
    \/ focus = "vsco" /\ VscoNext /\ UNCHANGED <<twitter_vars, tiktok_vars>>
    \/ focus = "instagram" /\ InstagramNext /\ UNCHANGED <<twitter_vars, tiktok_vars, films>>

LibraryNext ==
    /\ UNCHANGED focus
    /\ \/ /\ focus \in Provider
          /\ UNCHANGED <<identity_vars, likes_vars, cleanup_vars, index_vars>>
          /\ ScansNext
       \/ /\ focus = "identity"
          /\ UNCHANGED <<scan_parts, likes_vars, cleanup_vars, index_vars>>
          /\ IdentityNext
       \/ /\ focus = "likes"
          /\ UNCHANGED <<scan_parts, identity_vars, cleanup_vars, index_vars>>
          /\ LikesNext
       \/ /\ focus = "cleanup"
          /\ UNCHANGED <<scan_parts, identity_vars, likes_vars, index_vars>>
          /\ CleanupNext
       \/ /\ focus = "index"
          /\ UNCHANGED <<scan_parts, identity_vars, likes_vars, cleanup_vars>>
          /\ IndexNext

LibrarySpec == LibraryInit /\ [][LibraryNext]_library_vars

\* The invariants are conditional on these histories: past them there is little
\* left to check.
Undisturbed ==
    /\ mishaps = {} /\ gap = {} /\ CleanedAlone
    /\ focus \in {"twitter", "tiktok", "instagram"} => "short" \notin blame
    /\ focus \in {"youtube", "vsco", "instagram"} => "unrecorded" \notin blame

\* TLC tells states apart by the part they exercise.
LibraryView ==
    <<focus, CASE focus = "identity" -> identity_vars
               [] focus = "likes"    -> likes_vars
               [] focus = "cleanup"  -> cleanup_vars
               [] focus = "index"    -> index_vars
               [] OTHER              -> scan_parts>>

\* Every variable has its type (the others are those of another initial state).
LibraryTypeOK ==
    /\ focus = "identity" => IdentityTypeOK
    /\ focus = "likes" => LikesTypeOK
    /\ focus = "cleanup" => CleanupTypeOK
    /\ focus = "index" => IndexTypeOK
    /\ focus \in Provider => PresenceTypeOK
    /\ focus = "twitter" => TwitterTypeOK
    /\ focus = "tiktok" => TikTokTypeOK
    /\ focus = "vsco" => VscoTypeOK
=============================================================================
