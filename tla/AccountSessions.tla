--------------------------- MODULE AccountSessions ----------------------------
(***************************************************************************)
(* Provider accounts and their sessions (accounts.rs, the Companion import *)
(* of import.rs, session_secret_store.rs).  A session is a row that names  *)
(* a protected file; a Companion import keeps the file it replaced as a    *)
(* backup and can be reverted.  The window's commands run one at a time;   *)
(* the Companion's imports and the syncs run beside them.  Files and rows  *)
(* change in separate steps, and the process may end between any two.      *)
(***************************************************************************)
EXTENDS Naturals, FiniteSets

CONSTANTS
    ProviderAccount,
    Login,          \* who may be logged in in the browser
    Genuine,        \* those whose capture has all that a validation asks for
    FirstAccount,   \* the account there is at first
    FirstLogin,     \* whose cookies it has
    Drafts,         \* the health the editor of an account may hold
    MaxSecrets,     \* files ever written
    MaxCommands     \* commands ever given

ASSUME SessionsAssumption ==
    /\ Genuine \subseteq Login
    /\ Drafts \subseteq {"ready", "degraded", "expired"}
    /\ FirstAccount \in ProviderAccount /\ FirstLogin \in Login
    /\ MaxSecrets \in Nat \ {0} /\ MaxCommands \in Nat

VARIABLES
    accounts,   \* the rows of provider_accounts
    bound,      \* accounts that a profile is bound to
    health,     \* their auth_state
    session,    \* the file each account's session row names, or 0
    imports,    \* each account's row of provider_account_import_state
    secrets,    \* the files: whose cookies each has
    written,    \* files ever written
    command,    \* what the window and the Companion API are doing
    user,       \* the sync that uses a session
    judged,     \* the file that the health of each account is about, or 0
    replaced,   \* whose session the last import or revert of each account replaced
    accidents,  \* "crossed": two commands worked on one account at once;
                \* "left": a file could not be removed, or the process ended before that;
                \* "wiped": the files of a session went and its row stayed;
                \* "unjudged": the process ended before a new session was validated;
                \* "torn": the process ended while a file was overwritten;
                \* "late": a verdict was written when the session was no longer that one;
                \* "declared": a health was saved that no validation found
    given       \* commands given

session_vars ==
    <<accounts, bound, health, session, imports, secrets, written, command, user,
      judged, replaced, accidents, given>>

NoSecret == 0
Secret == 1..MaxSecrets
NoLogin == "nobody"
Garbage == "garbage"
Caller == {"window", "companion"}
Health == {"ready", "degraded", "expired"}
ImportRow == [kept : BOOLEAN, who : Login \cup {NoLogin},
              backup : Secret \cup {NoSecret}, backup_who : Login \cup {NoLogin}]
NoImport == [kept |-> FALSE, who |-> NoLogin, backup |-> NoSecret, backup_who |-> NoLogin]

\* Neither is the name of anybody.
ASSUME LoginAssumption == Login \cap {NoLogin, Garbage} = {}

NoCommand == [step |-> "idle"]
NoUse == [account |-> "none"]
Accident == {"crossed", "left", "wiped", "torn", "late", "declared", "unjudged"}

SessionsTypeOK ==
    /\ accounts \subseteq ProviderAccount /\ bound \subseteq accounts
    /\ health \in [ProviderAccount -> Health]
    /\ session \in [ProviderAccount -> Secret \cup {NoSecret}]
    /\ imports \in [ProviderAccount -> ImportRow]
    /\ DOMAIN secrets \subseteq 1..written
    /\ \A f \in DOMAIN secrets : secrets[f] \in Login \cup {Garbage}
    /\ written \in 1..MaxSecrets
    /\ \A c \in Caller : command[c].step \in {"idle", "commit", "clean", "rows", "validate", "settle"}
    /\ judged \in [ProviderAccount -> Secret \cup {NoSecret}]
    /\ replaced \in [ProviderAccount -> Login \cup {NoLogin, Garbage}]
    /\ accidents \subseteq Accident
    /\ given \in 0..MaxCommands

SessionsInit ==
    /\ accounts = {FirstAccount} /\ bound = {}
    /\ health = [a \in ProviderAccount |-> IF a # FirstAccount THEN "expired"
                                   ELSE IF FirstLogin \in Genuine THEN "ready" ELSE "degraded"]
    /\ session = [a \in ProviderAccount |-> IF a = FirstAccount THEN 1 ELSE NoSecret]
    /\ imports = [a \in ProviderAccount |-> NoImport]
    /\ secrets = [f \in {1} |-> FirstLogin]
    /\ written = 1
    /\ command = [c \in Caller |-> NoCommand]
    /\ user = NoUse
    /\ judged = session
    /\ replaced = [a \in ProviderAccount |-> NoLogin]
    /\ accidents = {} /\ given = 0
-----------------------------------------------------------------------------
\* The secret store.
WithSecret(f, what) == [g \in DOMAIN secrets \cup {f} |-> IF g = f THEN what ELSE secrets[g]]
Without(files) == [g \in DOMAIN secrets \ files |-> secrets[g]]
Readable(f) == f \in DOMAIN secrets /\ secrets[f] # Garbage

\* A removal whose error is ignored.
Discarded(files) ==
    \/ secrets' = Without(files) /\ UNCHANGED accidents
    \/ /\ files \cap DOMAIN secrets # {}
       /\ UNCHANGED secrets /\ accidents' = accidents \cup {"left"}

Others(c) == {d \in Caller \ {c} : command[d].step # "idle"}
Crossing(c, a) == \E d \in Others(c) : command[d].account = a

Begin(c, a, work) ==
    /\ command[c] = NoCommand
    /\ given < MaxCommands /\ given' = given + 1
    /\ command' = [command EXCEPT ![c] = work]

Noting(c, a) == accidents' = IF Crossing(c, a) THEN accidents \cup {"crossed"} ELSE accidents

Then(c, next) == command' = [command EXCEPT ![c].step = next]
End(c) == command' = [command EXCEPT ![c] = NoCommand]

\* Fault: the command ends without a validation.
NotValidated(c) == End(c)

\* Most commands end with validate_provider_account.
Validated(c) == Then(c, "validate")

Performing(c, kind, at) == command[c].step = at /\ command[c].kind = kind
-----------------------------------------------------------------------------
\* import_companion_account_with_connection: the session and the import row are
\* read and the capture is stored, for an account of the user's choice or a new one.
ImportCapture(a, who) ==
    /\ written < MaxSecrets /\ written' = written + 1
    /\ secrets' = WithSecret(written + 1, who)
    /\ Begin("companion", a,
             [step |-> "commit", kind |-> "import", account |-> a, new |-> written + 1,
              who |-> who, created |-> a \notin accounts, old |-> session[a], row |-> imports[a]])
    /\ Noting("companion", a)
    /\ UNCHANGED <<accounts, bound, health, session, imports, user, judged, replaced>>

Backup(work) == [kept |-> TRUE, who |-> work.who, backup |-> work.old, backup_who |-> work.row.who]

\* Fault: the first backup stays.
BackupStays(work) ==
    IF work.row.backup # NoSecret THEN [work.row EXCEPT !.who = work.who] ELSE Backup(work)

ImportRowOf(work) == Backup(work)

SessionOf(f) == IF f = NoSecret THEN NoLogin ELSE IF f \in DOMAIN secrets THEN secrets[f] ELSE Garbage

\* The transaction: all of it, or none of it and the new file is removed (so it
\* ends where the account is gone).
ImportCommit ==
    /\ Performing("companion", "import", "commit")
    /\ LET work == command["companion"]
           a == work.account
       IN \/ /\ work.created \/ a \in accounts
             /\ accounts' = accounts \cup {a}
             /\ health' = IF work.created THEN [health EXCEPT ![a] = "ready"] ELSE health
             /\ session' = [session EXCEPT ![a] = work.new]
             /\ imports' = [imports EXCEPT ![a] = ImportRowOf(work)]
             /\ replaced' = [replaced EXCEPT ![a] = SessionOf(session[a])]
             /\ Then("companion", "clean")
             /\ UNCHANGED <<secrets, accidents>>
          \/ /\ Discarded({work.new})
             /\ End("companion")
             /\ UNCHANGED <<accounts, health, session, imports, replaced>>
    /\ UNCHANGED <<bound, written, user, judged, given>>

\* Fault: the session that was is removed.
SessionGoes(work) == {work.old} \ {NoSecret}

\* The backup before the last is removed, unless it is the session that was.
Superseded(work) == {work.row.backup} \ {NoSecret, work.old}

ImportClean ==
    /\ Performing("companion", "import", "clean")
    /\ Discarded(Superseded(command["companion"]))
    /\ Validated("companion")
    /\ UNCHANGED <<accounts, bound, health, session, imports, written, user, judged,
                   replaced, given>>
-----------------------------------------------------------------------------
\* save_provider_account_cookies and import_provider_account_cookies:
\* persist_provider_account_session_payload.
SaveCookies(a, who) ==
    /\ a \in accounts
    /\ written < MaxSecrets /\ written' = written + 1
    /\ secrets' = WithSecret(written + 1, who)
    /\ Begin("window", a,
             [step |-> "commit", kind |-> "save", account |-> a, new |-> written + 1,
              old |-> session[a], backup |-> imports[a].backup])
    /\ Noting("window", a)
    /\ UNCHANGED <<accounts, bound, health, session, imports, user, judged, replaced>>

SaveCommit ==
    /\ Performing("window", "save", "commit")
    /\ LET work == command["window"]
       IN \/ /\ session' = [session EXCEPT ![work.account] = work.new]
             /\ Then("window", "clean")
             /\ UNCHANGED <<secrets, accidents>>
          \/ Discarded({work.new}) /\ End("window") /\ UNCHANGED session
    /\ UNCHANGED <<accounts, bound, health, imports, written, user, judged, replaced, given>>

\* The file that was the session goes, unless it is the backup.
OldFile(work) == {work.old} \ {NoSecret, work.backup}

SaveClean ==
    /\ Performing("window", "save", "clean")
    /\ Discarded(OldFile(command["window"]))
    /\ Validated("window")
    /\ UNCHANGED <<accounts, bound, health, session, imports, written, user, judged,
                   replaced, given>>
-----------------------------------------------------------------------------
\* revert_provider_account_import_with_connection: session and backup are swapped.
Revert(a) ==
    /\ a \in accounts
    /\ session[a] # NoSecret /\ imports[a].backup # NoSecret
    /\ Readable(imports[a].backup)
    /\ Begin("window", a,
             [step |-> "commit", kind |-> "revert", account |-> a, old |-> session[a], row |-> imports[a]])
    /\ Noting("window", a)
    /\ UNCHANGED <<accounts, bound, health, session, imports, secrets, written, user,
                   judged, replaced>>

RevertCommit ==
    /\ Performing("window", "revert", "commit")
    /\ LET work == command["window"]
           a == work.account
       IN \/ /\ session' = [session EXCEPT ![a] = work.row.backup]
             /\ imports' = [imports EXCEPT ![a] =
                    IF @.kept THEN [kept |-> TRUE, who |-> work.row.backup_who,
                                    backup |-> work.old, backup_who |-> work.row.who]
                    ELSE @]
             /\ replaced' = [replaced EXCEPT ![a] = SessionOf(session[a])]
             /\ Validated("window")
          \/ End("window") /\ UNCHANGED <<session, imports, replaced>>
    /\ UNCHANGED <<accounts, bound, health, secrets, written, user, judged, accidents, given>>
-----------------------------------------------------------------------------
\* clear_provider_account_cookies: the files first, then the two rows.
Clear(a) ==
    /\ a \in accounts
    /\ Begin("window", a, [step |-> "rows", kind |-> "clear", account |-> a])
    /\ LET files == {session[a], imports[a].backup} \ {NoSecret}
       IN \/ /\ secrets' = Without(files)
             /\ Noting("window", a)
          \/ /\ files # {} /\ UNCHANGED secrets
             /\ accidents' = accidents \cup {"left"} \cup (IF Crossing("window", a) THEN {"crossed"} ELSE {})
    /\ UNCHANGED <<accounts, bound, health, session, imports, written, user, judged, replaced>>

ClearRows ==
    /\ Performing("window", "clear", "rows")
    /\ LET a == command["window"].account
       IN /\ session' = [session EXCEPT ![a] = NoSecret]
          /\ imports' = [imports EXCEPT ![a] = NoImport]
    /\ Validated("window")
    /\ UNCHANGED <<accounts, bound, health, secrets, written, user, judged, replaced,
                   accidents, given>>

\* delete_provider_account: refused while a profile is bound; the files, then the
\* row, which a profile bound in between keeps where it is.
Delete(a) ==
    /\ a \in accounts \ bound
    /\ given < MaxCommands /\ given' = given + 1
    /\ command["window"] = NoCommand
    /\ \/ /\ command' = [command EXCEPT !["window"] =
                            [step |-> "rows", kind |-> "delete", account |-> a]]
          /\ secrets' = Without({session[a], imports[a].backup})
          /\ Noting("window", a)
       \/ \* The backup cannot be removed.
          /\ imports[a].backup \in DOMAIN secrets \ {session[a]}
          /\ secrets' = Without({session[a]})
          /\ accidents' = accidents \cup {"wiped"}
          /\ UNCHANGED command
    /\ UNCHANGED <<accounts, bound, health, session, imports, written, user, judged, replaced>>

DeleteRow ==
    /\ Performing("window", "delete", "rows")
    /\ End("window")
    /\ LET a == command["window"].account
       IN IF a \in bound
          THEN /\ accidents' = accidents \cup {"wiped"}
               /\ UNCHANGED <<accounts, session, imports>>
          ELSE /\ accounts' = accounts \ {a}
               /\ session' = [session EXCEPT ![a] = NoSecret]
               /\ imports' = [imports EXCEPT ![a] = NoImport]
               /\ UNCHANGED accidents
    /\ UNCHANGED <<bound, health, secrets, written, user, judged, replaced, given>>
-----------------------------------------------------------------------------
\* save_provider_account_settings of an account that was imported: the headers in
\* its file are replaced, in the file (update_protected_authorization_metadata).
EditHeaders(a) ==
    /\ a \in accounts
    /\ imports[a].kept /\ Readable(session[a])
    /\ Begin("window", a,
             [step |-> "commit", kind |-> "edit", account |-> a, file |-> session[a],
              has |-> secrets[session[a]]])
    /\ Noting("window", a)
    /\ UNCHANGED <<accounts, bound, health, session, imports, secrets, written, user,
                   judged, replaced>>

EditCommit ==
    /\ Performing("window", "edit", "commit")
    /\ secrets' = WithSecret(command["window"].file, command["window"].has)
    /\ End("window")
    /\ UNCHANGED <<accounts, bound, health, session, imports, written, user, judged,
                   replaced, accidents, given>>

\* upsert_provider_account saves the health it is given; clone_provider_account
\* copies it, without the session.
SaveAccount(a, state) ==
    /\ command["window"] = NoCommand
    /\ given < MaxCommands /\ given' = given + 1
    /\ accounts' = accounts \cup {a}
    /\ health' = [health EXCEPT ![a] = state]
    /\ accidents' = accidents \cup {"declared"}
    /\ UNCHANGED <<bound, session, imports, secrets, written, command, user, judged, replaced>>

CloneAccount(a, b) == a \in accounts /\ b \notin accounts /\ SaveAccount(b, health[a])

\* upsert_source_profile: profiles are bound to accounts that are there.
Bind(a) ==
    /\ a \in accounts
    /\ bound' \in {bound \cup {a}, bound \ {a}}
    /\ UNCHANGED <<accounts, health, session, imports, secrets, written, command, user,
                   judged, replaced, accidents, given>>
-----------------------------------------------------------------------------
\* validate_provider_account: on its own, and at the end of most commands.
Validate(a) ==
    /\ a \in accounts
    /\ Begin("window", a, [step |-> "validate", kind |-> "validate", account |-> a])
    /\ UNCHANGED <<accounts, bound, health, session, imports, secrets, written, user,
                   judged, replaced, accidents>>

Verdict_of(f) ==
    IF f = NoSecret THEN "expired"
    ELSE IF Readable(f) /\ secrets[f] \in Genuine THEN "ready"
    ELSE "degraded"

\* Written to whatever session the account has by then.
Judge(a, f, state) ==
    /\ health' = [health EXCEPT ![a] = state]
    /\ judged' = [judged EXCEPT ![a] = f]
    /\ accidents' = IF f = session[a] THEN accidents ELSE accidents \cup {"late"}

ReadSession(c) ==
    /\ command[c].step = "validate"
    /\ LET a == command[c].account
       IN IF a \in accounts
          THEN command' = [command EXCEPT ![c] =
                    [step |-> "settle", kind |-> command[c].kind, account |-> a,
                     file |-> session[a], state |-> Verdict_of(session[a])]]
          ELSE End(c)
    /\ UNCHANGED <<accounts, bound, health, session, imports, secrets, written, user,
                   judged, replaced, accidents, given>>

SettleHealth(c) ==
    /\ command[c].step = "settle"
    /\ LET work == command[c]
       IN IF work.account \in accounts THEN Judge(work.account, work.file, work.state)
          ELSE UNCHANGED <<health, judged, accidents>>
    /\ End(c)
    /\ UNCHANGED <<accounts, bound, session, imports, secrets, written, user, replaced, given>>

\* load_source_sync_context reads the session of the profile's account;
\* propagate_source_sync_account_health writes what became of it.
UseSession(a) ==
    /\ user = NoUse
    /\ a \in bound /\ Readable(session[a])
    /\ user' = [account |-> a, file |-> session[a]]
    /\ UNCHANGED <<accounts, bound, health, session, imports, secrets, written, command,
                   judged, replaced, accidents, given>>

ReportHealth ==
    /\ user # NoUse
    /\ user' = NoUse
    /\ \/ user.account \in accounts /\ \E state \in {"ready", "degraded"} : Judge(user.account, user.file, state)
       \/ UNCHANGED <<health, judged, accidents>>
    /\ UNCHANGED <<accounts, bound, session, imports, secrets, written, command,
                   replaced, given>>
-----------------------------------------------------------------------------
\* The process ends: files stay that no row names yet, or any more; a row that
\* stays while its files went, or a file half overwritten.
Interrupted(steps, kinds) == \E c \in Caller : command[c].step \in steps /\ command[c].kind \in kinds

ProcessEnds ==
    /\ user # NoUse \/ \E c \in Caller : command[c] # NoCommand
    /\ command' = [c \in Caller |-> NoCommand]
    /\ user' = NoUse
    /\ accidents' = accidents
            \cup (IF Interrupted({"commit", "clean"}, {"import", "save"}) THEN {"left"} ELSE {})
            \cup (IF Interrupted({"rows"}, {"clear", "delete"}) THEN {"wiped"} ELSE {})
            \cup (IF Interrupted({"commit"}, {"edit"}) THEN {"torn"} ELSE {})
            \cup (IF Interrupted({"clean", "validate", "settle"}, {"import", "save", "revert", "clear"})
                  THEN {"unjudged"} ELSE {})
    /\ secrets' \in {secrets} \cup
            {WithSecret(command[c].file, Garbage) : c \in {d \in Caller : Performing(d, "edit", "commit")}}
    /\ UNCHANGED <<accounts, bound, health, session, imports, written, judged, replaced, given>>
-----------------------------------------------------------------------------
CompanionStep ==
    \/ \E a \in ProviderAccount, who \in Login : ImportCapture(a, who)
    \/ ImportCommit \/ ImportClean

WindowStep ==
    \/ \E a \in ProviderAccount, who \in Login : SaveCookies(a, who)
    \/ \E a \in ProviderAccount : Revert(a) \/ Clear(a) \/ Delete(a) \/ EditHeaders(a) \/ Validate(a)
    \/ SaveCommit \/ SaveClean \/ RevertCommit \/ ClearRows \/ DeleteRow \/ EditCommit

AccountStep ==
    \/ \E a \in ProviderAccount, state \in Drafts : SaveAccount(a, state)
    \/ \E a, b \in ProviderAccount : CloneAccount(a, b)
    \/ \E a \in ProviderAccount : Bind(a) \/ UseSession(a)

SessionsNext ==
    \/ CompanionStep \/ WindowStep \/ AccountStep
    \/ \E c \in Caller : ReadSession(c) \/ SettleHealth(c)
    \/ ReportHealth \/ ProcessEnds

\* The accounts that no command is at work on.
Settled == {a \in accounts : \A c \in Caller : command[c] = NoCommand \/ command[c].account # a}
Named == {session[a] : a \in accounts} \cup {imports[a].backup : a \in accounts}

SessionsSpec == SessionsInit /\ [][SessionsNext]_session_vars
-----------------------------------------------------------------------------
\* docs/companion-account-import.md, "staged writes and compensating cleanup":
\* whatever is imported, saved, reverted or cleared, and wherever the process ends
\* in that, the file of a session and of its backup is there and whole; and where
\* every command got to its end, no file is there that no row names.
FilesMatchRows ==
    /\ accidents \cap {"crossed", "wiped", "torn"} = {} =>
        \A a \in accounts :
            (\A c \in Caller : command[c].step = "rows" => command[c].account # a) =>
                \A f \in {session[a], imports[a].backup} \ {NoSecret} : Readable(f)
    /\ accidents \cap {"crossed", "left", "wiped"} = {} /\ command = [c \in Caller |-> NoCommand] =>
        DOMAIN secrets \subseteq Named

\* The same, "Revert swaps the current and backup states": what a revert brings
\* back is the session that the last import or revert replaced, whatever was saved
\* by hand since, and wherever the process ended.
RevertReturns ==
    accidents \cap {"crossed", "wiped", "torn"} = {} =>
        \A a \in Settled :
            imports[a].backup # NoSecret => SessionOf(imports[a].backup) = replaced[a]

\* docs/provider-account-flow.md, "Validation must compute account health from
\* persisted session material": a ready account has the session that was found to
\* be so, unless the verdict came late or was never asked for.
HealthIsCurrent ==
    accidents \cap {"late", "declared", "unjudged"} = {} =>
        \A a \in Settled : health[a] = "ready" => session[a] # NoSecret /\ judged[a] = session[a]
=============================================================================
