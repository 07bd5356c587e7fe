--------------------------- MODULE MCWorkspaceParts ---------------------------
(***************************************************************************)
(* The parts of the workspace that share no state with the queues or with  *)
(* one another, checked side by side: each behaviour exercises one part,   *)
(* the focus, and leaves the others as they start.                         *)
(***************************************************************************)
EXTENDS SyncPlans, ConnectorRuntime, WorkspaceDatabase, AccountSessions, LegacyImport,
        SingleVideos, DuplicateScan, TLC

\* The scheduler and the connector.
CONSTANTS p1, r1, r2, t1, t2
Plans == {p1}
Releases == {r1, r2}
Latest == {r2}
Threads == {t1, t2}

\* The database.
Backups == {2}

\* An account with a session, and room for another; the capture of bert lacks what
\* a validation asks for.
CONSTANTS a1, a2, anna, bert
BothLogins == {anna, bert}
BothAccounts == {a1, a2}
OnlyReady == {"ready"}
GenuineLogins == {anna}

\* Two legacy folders of one handle, the second without a name in its XML and with a
\* file its catalogue does not list; another handle that is free.
CONSTANTS l1, l2, k1, k2
LegacyFolders == {l1, l2}
OneHandle == (l1 :> k1) @@ (l2 :> k1)
ByHand == (k1 :> l1) @@ (k2 :> "other")
NamedFolders == {l2}
FilesThere == (l1 :> {1}) @@ (l2 :> {1, 2})
FilesListed == (l1 :> {1, 2}) @@ (l2 :> {1})

\* Two links: a video, and the second image of a slideshow.
CONSTANTS u1, u2, d1, d2
Links == {u1, u2}
Posts == (u1 :> "video") @@ (u2 :> "slides")
Slides == {"slides"}
Asked == (u1 :> 1) @@ (u2 :> 2)
Places == {d1, d2}

\* Three files, in one library videos of two profiles on two volumes, in the other images
\* of one profile; w1 and w2 have the same bytes, and those of w3 resemble the others'.
CONSTANTS n1, n2, n3, w1, w2, w3, w4
ThreeFiles == <<n1, n2, n3>>
FourVersions == {w1, w2, w3, w4}
EqualSizes == [v \in FourVersions |-> 1]
Shots == (w1 :> "x") @@ (w2 :> "x") @@ (w3 :> "y") @@ (w4 :> "z")
Itself == {<<b, b>> : b \in {"x", "y", "z"}}
Chain == Itself \cup {<<"x", "y">>, <<"y", "x">>, <<"y", "z">>, <<"z", "y">>}
Likeness == [recommended |-> Itself, deep |-> Chain, image |-> Chain]
Changing == (n1 :> {w1, w3, NoBytes}) @@ (n2 :> {w2, NoBytes}) @@ (n3 :> {w4})
Films ==
    [kind |-> [f \in Shelved |-> "video"],
     owner |-> (n1 :> "p") @@ (n2 :> "p") @@ (n3 :> "q"),
     volume |-> (n1 :> "c") @@ (n2 :> "c") @@ (n3 :> "d"),
     first |-> (n1 :> w1) @@ (n2 :> w2) @@ (n3 :> w4)]
Stills ==
    [kind |-> [f \in Shelved |-> "image"], owner |-> [f \in Shelved |-> "p"],
     volume |-> [f \in Shelved |-> "c"],
     first |-> (n1 :> w1) @@ (n2 :> w3) @@ (n3 :> w4)]
BothAlbums == {Films, Stills}

----------------------------------------------------------------------------
VARIABLE focus

parts_vars ==
    <<plan_vars, connector_vars, db_vars, session_vars,
      import_vars, single_vars, hunt_vars, focus>>

PartsInit ==
    /\ PlansInit /\ ConnectorInit /\ DatabaseInit
    /\ SessionsInit /\ ImportInit /\ SinglesInit /\ HuntsInit
    /\ focus \in {"plans", "connector", "database", "sessions", "import", "singles",
                 "hunts"}

PartsNext ==
    /\ UNCHANGED focus
    /\ \/ /\ focus = "plans"
          /\ UNCHANGED <<connector_vars, db_vars,
                         session_vars, import_vars, single_vars, hunt_vars>>
          /\ PlansNext
       \/ /\ focus = "connector"
          /\ UNCHANGED <<plan_vars, db_vars,
                         session_vars, import_vars, single_vars, hunt_vars>>
          /\ ConnectorNext
       \/ /\ focus = "database"
          /\ UNCHANGED <<plan_vars, connector_vars,
                         session_vars, import_vars, single_vars, hunt_vars>>
          /\ DatabaseNext
       \/ /\ focus = "sessions"
          /\ UNCHANGED <<plan_vars, connector_vars,
                         db_vars, import_vars, single_vars, hunt_vars>>
          /\ SessionsNext
       \/ /\ focus = "import"
          /\ UNCHANGED <<plan_vars, connector_vars,
                         db_vars, session_vars, single_vars, hunt_vars>>
          /\ ImportNext
       \/ /\ focus = "singles"
          /\ UNCHANGED <<plan_vars, connector_vars,
                         db_vars, session_vars, import_vars, hunt_vars>>
          /\ SinglesNext
       \/ /\ focus = "hunts"
          /\ UNCHANGED <<plan_vars, connector_vars,
                         db_vars, session_vars, import_vars, single_vars>>
          /\ HuntsNext

PartsSpec == PartsInit /\ [][PartsNext]_parts_vars

\* The invariants are conditional on these histories: past them there is little
\* left to check.
Undisturbed ==
    /\ ~torn /\ ~crossed /\ ~moved_open
    /\ accidents \subseteq {"left"} /\ bound \subseteq {a1}
    /\ \A p \in SourceRow : excuses[p] = {}
    /\ doubtful = {}

\* The depth of a comparison makes no difference to images.
HuntsView ==
    <<album, held, index_rows, hunt, changes,
      IF album = Films THEN hunts
      ELSE [s \in DOMAIN hunts |-> [hunts[s] EXCEPT !.depth = "any"]]>>

\* TLC tells states apart by the part they exercise, and a connector's threads
\* by what they do: which of the two does it makes no difference.
ConnectorView ==
    <<record, installed, in_use, chosen, settled_on, losses, crossed,
      {<<todo[t], seen[t], target[t]>> : t \in Thread}>>

PartsView ==
    <<focus, CASE focus = "plans"     -> plan_vars
               [] focus = "connector" -> ConnectorView
               [] focus = "database"  -> db_vars
               [] focus = "sessions"  -> session_vars
               [] focus = "import"    -> import_vars
               [] focus = "singles"   -> single_vars
               [] focus = "hunts"     -> HuntsView>>

\* Every variable has its type (the others are those of another initial state).
PartsTypeOK ==
    /\ focus = "plans" => PlansTypeOK
    /\ focus = "connector" => ConnectorTypeOK
    /\ focus = "database" => DatabaseTypeOK
    /\ focus = "sessions" => SessionsTypeOK
    /\ focus = "import" => ImportTypeOK
    /\ focus = "singles" => SinglesTypeOK
    /\ focus = "hunts" => HuntsTypeOK
=============================================================================
