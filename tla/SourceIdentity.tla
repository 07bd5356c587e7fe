---------------------------- MODULE SourceIdentity ----------------------------
(***************************************************************************)
(* Who a profile is (source_identity.rs, and the identity steps of the     *)
(* Instagram and YouTube syncs and of the availability check in sync.rs).  *)
(* Upstream a handle changes hands; the workspace knows a profile by its   *)
(* handle and by the user id that syncs resolved: a column of the profile, *)
(* a hint in its options and, for Instagram, the id in the summary of its  *)
(* last successful run.  Instagram resolves the id before it downloads and *)
(* trusts it over the handle; the others download what the handle leads to *)
(* and look at the id afterwards.                                          *)
(***************************************************************************)
EXTENDS Naturals, FiniteSets

CONSTANTS
    Profile,    \* profiles the user may add
    Handle,
    Person,     \* who has an account upstream, known by the user id
    Nobody,
    Taken,      \* the handle that somebody has at first
    Taker,      \* who has it
    MaxMoves,   \* changes upstream
    MaxEdits    \* times the user adds or edits a profile

ASSUME IdentityAssumption ==
    /\ Nobody \notin Person
    /\ Taken \in Handle /\ Taker \in Person
    /\ MaxMoves \in Nat /\ MaxEdits \in Nat

VARIABLES
    network,    \* the provider of the profiles: "instagram" or "youtube"
    owner,      \* upstream: who has each handle
    hidden,     \* upstream: who is private
    row,        \* the profiles
    lastRun,    \* the user id in the last successful run of each profile
    folder,     \* whose media each profile's folder holds
    running,    \* the sync that runs
    check,      \* the availability check that runs
    noticed,    \* profiles a sync found to be somebody else's, until the user edits them
    mishaps,    \* "overtaken": a handle changed hands between resolution and download;
                \* "poured": a scheduled sync saved media of who a noticed profile is not
    moves, edits

identity_vars ==
    <<network, owner, hidden, row, lastRun, folder, running, check, noticed, mishaps, moves, edits>>

Account == Person \cup {Nobody}
Problem == {"none", "unresolvable", "private", "unavailable", "handle_recycled"}
ProfileRow == [alive : BOOLEAN, handle : Handle, uid : Account, hint : Account,
        problem : Problem, ready : BOOLEAN, synced : BOOLEAN]
NoRun == [step |-> "idle"]

IdentityTypeOK ==
    /\ network \in {"instagram", "youtube"}
    /\ owner \in [Handle -> Account]
    /\ hidden \subseteq Person
    /\ row \in [Profile -> ProfileRow]
    /\ lastRun \in [Profile -> Account]
    /\ folder \in [Profile -> SUBSET Person]
    /\ running.step \in {"idle", "identify", "download"}
    /\ check.step \in {"idle", "settle"}
    /\ noticed \subseteq Profile
    /\ mishaps \subseteq {"overtaken", "poured"}
    /\ moves \in 0..MaxMoves /\ edits \in 0..MaxEdits

NewRow(alive, h) ==
    [alive |-> alive, handle |-> h, uid |-> Nobody, hint |-> Nobody,
     problem |-> "none", ready |-> TRUE, synced |-> FALSE]

IdentityInit ==
    /\ network \in {"instagram", "youtube"}
    /\ owner = [h \in Handle |-> IF h = Taken THEN Taker ELSE Nobody]
    /\ row = [s \in Profile |-> NewRow(FALSE, Taken)]
    /\ hidden = {}
    /\ lastRun = [s \in Profile |-> Nobody]
    /\ folder = [s \in Profile |-> {}]
    /\ running = NoRun /\ check = NoRun
    /\ noticed = {} /\ mishaps = {}
    /\ moves = 0 /\ edits = 0
-----------------------------------------------------------------------------
\* Upstream: a person takes a free handle, giving up the one they had, leaves,
\* or becomes private or public.
NamesOf(p) == {h \in Handle : owner[h] = p}

Upstream ==
    /\ moves < MaxMoves /\ moves' = moves + 1
    /\ \E p \in Person :
        \/ /\ \E h \in Handle :
                /\ owner[h] = Nobody
                /\ owner' = [g \in Handle |-> IF g = h THEN p ELSE IF owner[g] = p THEN Nobody ELSE owner[g]]
           /\ UNCHANGED hidden
        \/ /\ NamesOf(p) # {}
           /\ owner' = [g \in Handle |-> IF owner[g] = p THEN Nobody ELSE owner[g]]
           /\ UNCHANGED hidden
        \/ /\ hidden' = (hidden \cup {p}) \ (hidden \cap {p})
           /\ UNCHANGED owner
    /\ UNCHANGED <<network, row, lastRun, folder, running, check, noticed, mishaps, edits>>
-----------------------------------------------------------------------------
\* upsert_source_profile: a new profile, or a new handle or readiness of one that
\* is there.
\* preserve_persisted_instagram_metadata: the ids are not in the payload, and stay.
Saved(r, h, ready) == [r EXCEPT !.handle = h, !.ready = ready]

HandleFree(s, h) == \A t \in Profile \ {s} : row[t].alive => row[t].handle # h

SaveProfile(s, h, ready) ==
    /\ edits < MaxEdits /\ edits' = edits + 1
    /\ row[s].alive \/ (lastRun[s] = Nobody /\ folder[s] = {})
    /\ HandleFree(s, h)
    /\ row' = [row EXCEPT ![s] = IF @.alive THEN Saved(@, h, ready)
                                 ELSE [NewRow(TRUE, h) EXCEPT !.ready = ready]]
    /\ noticed' = noticed \ {s}
    /\ UNCHANGED <<network, owner, hidden, lastRun, folder, running, check, mishaps, moves>>
-----------------------------------------------------------------------------
\* set_source_sync_problem and clear_source_sync_problem, on a row.
Marked(r, code) == IF r.alive THEN [r EXCEPT !.problem = code, !.ready = FALSE] ELSE r
Resumed(r) == IF r.alive THEN [r EXCEPT !.problem = "none", !.ready = TRUE] ELSE r

\* update_instagram_source_handle_after_sync; persist_source_sync_run of a run
\* that succeeded.
Rehandled(r, h) == [r EXCEPT !.handle = h]
Synced(r) == [r EXCEPT !.synced = TRUE]

\* record_source_identity and apply_source_identity_verdict: the first id is
\* adopted; another one never replaces it, but stops the profile.
Recycled(r, p) == r.uid \notin {Nobody, p}
Verdict(r, p) == IF Recycled(r, p) THEN Marked(r, "handle_recycled") ELSE [r EXCEPT !.uid = p]

\* find_source_by_provider_user_id: the column, or the hint where there is none.
SameUser(s, p) ==
    \E t \in Profile \ {s} :
        row[t].alive /\ (row[t].uid = p \/ (row[t].uid = Nobody /\ row[t].hint = p))

\* Fault: profiles that synced before are looked at instead of new ones.
DuplicateLater(s, p) == ~running.first /\ SameUser(s, p)

\* detect_duplicate_user_id_on_first_sync
Duplicate(s, p) == running.first /\ SameUser(s, p)
Removed(r) == [r EXCEPT !.alive = FALSE]

\* persist_youtube_user_id_hint: the first one stays.
FirstHint(r, p) == IF r.alive /\ r.hint = Nobody THEN [r EXCEPT !.hint = p] ELSE r

\* The scheduler takes ready profiles only; the user, any.
TakeProfile(s, scheduled) ==
    /\ running = NoRun
    /\ row[s].alive /\ (scheduled => row[s].ready)
    /\ running' = [step |-> IF network = "instagram" THEN "identify" ELSE "download",
                   profile |-> s, handle |-> row[s].handle, hint |-> row[s].hint,
                   problem |-> row[s].problem # "none", first |-> ~row[s].synced,
                   scheduled |-> scheduled, as |-> Nobody]
    /\ UNCHANGED <<network, owner, hidden, row, lastRun, folder, check, noticed,
                   mishaps, moves, edits>>
-----------------------------------------------------------------------------
\* resolve_profile_identity: who the handle leads to if that is who is expected;
\* else the handle of who is expected; else an error.
Failure(code) == [error |-> code, handle |-> "", as |-> Nobody]
Found(h, p) == [error |-> "", handle |-> h, as |-> p]

ByName(h) ==
    IF owner[h] = Nobody THEN Failure("unresolvable")
    ELSE IF owner[h] \in hidden THEN Failure("private")
    ELSE Found(h, owner[h])

Resolved(h, expected) ==
    LET first == ByName(h) IN
    IF first.as # Nobody /\ expected \in {Nobody, first.as} THEN {first}
    ELSE IF expected = Nobody THEN {first}
    ELSE IF NamesOf(expected) # {} THEN {Found(g, expected) : g \in NamesOf(expected)}
    ELSE IF first.as = Nobody THEN {first}
    ELSE {Failure("unresolvable"), Failure("other")}

\* preferred_instagram_user_id_hint
Expected(hint, s) == IF lastRun[s] # Nobody THEN lastRun[s] ELSE hint

\* resolve_instagram_source_identity_preflight, on a found identity.  The hint is
\* replaced only by what the last run confirmed; then the verdict, the duplicate,
\* the problem that was there when the sync was taken, and the handle.
Identify(found) ==
    LET s == running.profile
        p == found.as
        hinted == [row[s] EXCEPT !.hint = p]
        judged == Verdict(hinted, p)
        known == IF running.problem THEN Resumed(judged) ELSE judged
    IN CASE row[s].hint \notin {Nobody, p} /\ lastRun[s] # p ->
              running' = NoRun /\ UNCHANGED <<row, noticed>>
         [] OTHER ->
              /\ noticed' = IF Recycled(row[s], p) THEN noticed \cup {s} ELSE noticed
              /\ IF Duplicate(s, p)
                 THEN /\ row' = [row EXCEPT ![s] = Removed(judged)]
                      /\ running' = NoRun
                 ELSE /\ row' = [row EXCEPT ![s] = Rehandled(known, found.handle)]
                      /\ running' = [running EXCEPT !.step = "download",
                                                    !.handle = found.handle, !.as = p]

\* The same on an error: the sync ends, and the profile is stopped if it cannot be
\* found or seen.
Unidentified(error) ==
    /\ running' = NoRun
    /\ row' = IF error = "other" THEN row
              ELSE [row EXCEPT ![running.profile] = Marked(@, error)]
    /\ UNCHANGED noticed

UserIdentify ==
    /\ running.step = "identify"
    /\ \E found \in Resolved(running.handle, Expected(running.hint, running.profile))
                    \cup {Failure("other")} :
        IF found.error = "" THEN Identify(found) ELSE Unidentified(found.error)
    /\ UNCHANGED <<network, owner, hidden, lastRun, folder, check, mishaps, moves, edits>>

\* A run that got through clears the problem and is recorded.
Committed(r) == Synced(Resumed(r))

\* run_profile_sync looks the handle up again and downloads what it leads to;
\* a run that got through records whose media it saw.
UserDownload ==
    /\ network = "instagram" /\ running.step = "download"
    /\ running' = NoRun
    /\ LET s == running.profile
           found == ByName(running.handle)
       IN \/ UNCHANGED <<row, lastRun, folder, mishaps>>
          \/ /\ found.as = Nobody
             /\ row' = [row EXCEPT ![s] = Marked(@, found.error)]
             /\ UNCHANGED <<lastRun, folder, mishaps>>
          \/ /\ found.as # Nobody
             /\ folder' = [folder EXCEPT ![s] = @ \cup {found.as}]
             /\ lastRun' = [lastRun EXCEPT ![s] = found.as]
             /\ row' = [row EXCEPT ![s] = Committed(@)]
             /\ mishaps' = IF found.as = running.as THEN mishaps ELSE mishaps \cup {"overtaken"}
    /\ UNCHANGED <<network, owner, hidden, check, noticed, moves, edits>>

\* execute_youtube: what the handle leads to is downloaded, its id is recorded and
\* judged, and a run that succeeded clears the problem of the profile.
ChannelDownload ==
    /\ network = "youtube" /\ running.step = "download"
    /\ running' = NoRun
    /\ LET s == running.profile
           p == owner[running.handle]
       IN \/ UNCHANGED <<row, folder, noticed, mishaps>>
          \/ /\ p = Nobody \/ p \in hidden
             /\ row' = [row EXCEPT ![s] = IF folder[s] = {} THEN Marked(@, "unavailable")
                                          ELSE Synced(Resumed(@))]
             /\ UNCHANGED <<folder, noticed, mishaps>>
          \/ /\ p # Nobody /\ p \notin hidden
             /\ Duplicate(s, p)
             /\ row' = [row EXCEPT ![s] = Removed(@)]
             /\ UNCHANGED <<folder, noticed, mishaps>>
          \/ /\ p # Nobody /\ p \notin hidden
             /\ ~Duplicate(s, p)
             /\ folder' = [folder EXCEPT ![s] = @ \cup {p}]
             /\ row' = [row EXCEPT ![s] = Synced(Resumed(Verdict(FirstHint(@, p), p)))]
             /\ noticed' = IF Recycled(row[s], p) THEN noticed \cup {s} ELSE noticed
             /\ mishaps' = IF running.scheduled /\ s \in noticed /\ Recycled(row[s], p)
                           THEN mishaps \cup {"poured"} ELSE mishaps
    /\ UNCHANGED <<network, owner, hidden, lastRun, check, moves, edits>>
-----------------------------------------------------------------------------
\* check_source_availability on one profile: its row is read and the handle is
\* looked up, with the expected id where the handle leads elsewhere or nowhere
\* (decide_instagram_availability_action); the row is written afterwards.
Decided(h, expected) ==
    LET first == ByName(h)
        astray == expected # Nobody /\ first.as # expected
    IN UNION {
        CASE ~astray -> {first}
          [] astray /\ first.error = "private" -> {[first EXCEPT !.handle = found.handle]}
          [] astray /\ first.error # "private" /\ found.error = "" -> {found}
          [] astray /\ first.error = "unresolvable" /\ found.error # "" -> {first}
          [] astray /\ first.error = "" /\ found.error # "" -> {Failure("other")}
        : found \in Resolved(h, expected)}

ProbeProfile(s) ==
    /\ network = "instagram" /\ check = NoRun
    /\ row[s].alive
    /\ \E found \in Decided(row[s].handle, Expected(row[s].hint, s)) :
        /\ found.error # "other"
        /\ check' = [step |-> "settle", profile |-> s, previous |-> row[s].handle, found |-> found]
    /\ UNCHANGED <<network, owner, hidden, row, lastRun, folder, running, noticed,
                   mishaps, moves, edits>>

\* apply_instagram_availability_action
SettleCheck ==
    /\ check.step = "settle"
    /\ check' = NoRun
    /\ LET found == check.found
           moved == IF found.handle \in Handle \ {check.previous}
                    THEN Rehandled(row[check.profile], found.handle)
                    ELSE row[check.profile]
           settled == IF found.error = "" THEN Resumed(moved) ELSE Marked(moved, found.error)
       IN row' = IF row[check.profile].alive THEN [row EXCEPT ![check.profile] = settled] ELSE row
    /\ UNCHANGED <<network, owner, hidden, lastRun, folder, running, noticed, mishaps,
                   moves, edits>>
-----------------------------------------------------------------------------
SyncIdentityStep == UserIdentify \/ UserDownload \/ ChannelDownload

IdentityNext ==
    \/ Upstream
    \/ \E s \in Profile, h \in Handle, ready \in BOOLEAN : SaveProfile(s, h, ready)
    \/ \E s \in Profile, scheduled \in BOOLEAN : TakeProfile(s, scheduled)
    \/ SyncIdentityStep
    \/ \E s \in Profile : ProbeProfile(s)
    \/ SettleCheck

IdentitySpec == IdentityInit /\ [][IdentityNext]_identity_vars
-----------------------------------------------------------------------------
\* An Instagram folder holds the media of one person, and no two profiles keep
\* the same one, whoever takes whose handle, hides, leaves or is edited, and
\* whatever an availability check wrote in between; only a handle that changes
\* hands between its resolution and the download gets past this.
OnePersonEach ==
    network = "instagram" /\ mishaps = {} =>
        /\ \A s \in Profile : Cardinality(folder[s]) <= 1
        /\ \A s, t \in Profile :
            s # t /\ row[s].alive /\ row[t].alive => folder[s] \cap folder[t] = {}

=============================================================================
