---------------------------- MODULE ConnectorRuntime ----------------------------
(***************************************************************************)
(* The downloader programs (connector_runtime.rs).  One row says which     *)
(* executable is active, which is downloaded and waits for the job that    *)
(* uses the old one, and whether the user set one of his own.  Every       *)
(* command loads the row, edits it and saves all of it, with no lock from  *)
(* the load to the save, and begins by normalising it against the disk.    *)
(* One connector.                                                          *)
(***************************************************************************)
EXTENDS Naturals, Sequences

CONSTANTS
    Release,   \* versions
    Pinned,    \* the one the manifest pins
    Published, \* those upstream may say is the latest
    Custom,    \* the user's own executable
    Absent,    \* no version
    Thread,    \* threads that run commands and jobs
    MaxUse,    \* bound: jobs that use the connector at a time
    MaxLosses  \* bound: executables that are removed

ASSUME ConnectorAssumption ==
    /\ Pinned \in Release
    /\ Published \subseteq Release
    /\ Custom \notin Release
    /\ Absent \notin Release \cup {Custom}
    /\ MaxUse \in Nat
    /\ MaxLosses \in Nat

Executable == Release \cup {Custom}

VARIABLES
    record,     \* the row
    installed,  \* executables on disk that report their version
    in_use,     \* jobs that hold a usage guard
    todo,       \* what each thread's command is still to do
    seen,       \* the row its edit loaded, if any
    target,     \* the version it installs
    chosen,     \* history: whether the user last set an executable or cleared it
    settled_on, \* history: the version the last update installed, unless the user
                \* overrode it or its file went
    losses,     \* executables removed so far
    crossed     \* history: a command changed the row in the middle of another's work

connector_vars == <<record, installed, in_use, todo, seen, target,
                    chosen, settled_on, losses, crossed>>

Record == [mode : {"managed", "custom"}, active : Executable \cup {Absent},
           pending : Release \cup {Absent}, latest : Release \cup {Absent}]
Unread == [mode |-> "unread"]

Edit == {"normalize", "touch", "latest", "settle", "defer", "prepare", "override",
         "clear", "activate"}
Step == Edit \cup {"decide", "prepare?", "lookup", "install", "look", "idle?", "take"}

ConnectorTypeOK ==
    /\ record \in Record
    /\ installed \subseteq Executable
    /\ in_use \in 0..MaxUse
    /\ todo \in [Thread -> Seq(Step)]
    /\ seen \in [Thread -> Record \cup {Unread}]
    /\ target \in [Thread -> Release]
    /\ chosen \in {"managed", "custom"}
    /\ settled_on \in Release \cup {Absent}
    /\ losses \in 0..MaxLosses
    /\ crossed \in BOOLEAN

\* A workspace whose pinned version was prepared.
ConnectorInit ==
    /\ record = [mode |-> "managed", active |-> Pinned, pending |-> Absent, latest |-> Absent]
    /\ installed = {Pinned, Custom}
    /\ in_use = 0
    /\ todo = [t \in Thread |-> <<>>]
    /\ seen = [t \in Thread |-> Unread]
    /\ target = [t \in Thread |-> Pinned]
    /\ chosen = "managed"
    /\ settled_on = Absent
    /\ losses = 0
    /\ crossed = FALSE

----------------------------------------------------------------------------
\* probe_connector_version: an executable counts if it is there and says its version.
Runnable(x) == x \in installed

\* normalize_record: what is not on disk is not active and does not wait.
Normalized(r) ==
    [r EXCEPT !.active  = IF r.mode = "custom" THEN (IF Runnable(Custom) THEN Custom ELSE Absent)
                          ELSE IF Runnable(@) THEN @
                          ELSE IF Runnable(Pinned) THEN Pinned ELSE Absent,
              !.pending = IF Runnable(@) THEN @ ELSE Absent]

\* Fault: what waits outlives the override.
OverrideKeepsPending(edit, t, r) ==
    CASE edit = "normalize" -> Normalized(r)
      [] edit = "latest"    -> [r EXCEPT !.latest = target[t]]
      [] edit = "defer"     -> [r EXCEPT !.pending = target[t]]
      [] edit = "override"  -> [r EXCEPT !.mode = "custom", !.active = Custom]
      [] edit = "activate"  -> IF r.pending = Absent THEN r
                               ELSE [r EXCEPT !.active = r.pending, !.pending = Absent]
      [] OTHER              -> r

\* What each edit makes of the row it loaded; "touch" is update_progress.
Edited(edit, t, r) ==
    CASE edit = "normalize" -> Normalized(r)
      [] edit = "touch"     -> r
      [] edit = "latest"    -> [r EXCEPT !.latest = target[t]]
      [] edit = "settle"    -> [r EXCEPT !.active = target[t], !.pending = Absent]
      [] edit = "defer"     -> [r EXCEPT !.pending = target[t]]
      [] edit = "prepare"   -> [r EXCEPT !.active = target[t], !.latest = target[t]]
      [] edit = "override"  -> [r EXCEPT !.mode = "custom", !.active = Custom, !.pending = Absent]
      [] edit = "clear"     -> [r EXCEPT !.mode = "managed", !.pending = Absent,
                                   !.active = IF Runnable(Pinned) THEN Pinned ELSE Absent]
      [] edit = "activate"  -> IF r.pending = Absent THEN r
                               ELSE [r EXCEPT !.active = r.pending, !.pending = Absent]

\* What a thread does next; a version means nothing once its command is over.
Turn(t, steps) == todo' = [todo EXCEPT ![t] = steps]
Onward(t) ==
    /\ Turn(t, Tail(todo[t]))
    /\ target' = IF Tail(todo[t]) = <<>> THEN [target EXCEPT ![t] = Pinned] ELSE target

\* A thread works on what it read of the row.
Relies(t) == seen[t] # Unread \/ \E i \in DOMAIN todo[t] : todo[t][i] \in {"look", "settle", "defer", "prepare"}

LoadRow(t) ==
    /\ todo[t] # <<>> /\ Head(todo[t]) \in Edit
    /\ seen[t] = Unread
    /\ seen' = [seen EXCEPT ![t] = record]
    /\ UNCHANGED <<record, installed, in_use, todo, target, chosen, settled_on, losses,
                   crossed>>

SaveRow(t) ==
    LET edit == Head(todo[t]) IN
    /\ seen[t] # Unread
    /\ record' = Edited(edit, t, seen[t])
    /\ seen' = [seen EXCEPT ![t] = Unread]
    /\ Onward(t)
    /\ chosen' = CASE edit = "override" -> "custom" [] edit = "clear" -> "managed" [] OTHER -> chosen
    /\ settled_on' = CASE edit \in {"settle", "defer"} -> IF target[t] \in installed THEN target[t] ELSE Absent
                       [] edit \in {"override", "clear"} -> Absent
                       [] OTHER -> settled_on
    /\ crossed' = (crossed \/ (record' # record /\ \E o \in Thread \ {t} : Relies(o)))
    /\ UNCHANGED <<installed, in_use, losses>>

Stays == UNCHANGED <<record, seen, chosen, settled_on, losses, crossed>>
At(t, step) == todo[t] # <<>> /\ Head(todo[t]) = step

----------------------------------------------------------------------------
\* The commands.

Commands == {
    <<"normalize", "touch", "lookup", "latest">>,   \* check_connector_updates
    <<"normalize", "decide">>,                      \* update_connector_runtime
    <<"normalize", "override">>,                    \* set_connector_custom_override
    <<"normalize", "clear">>,                       \* clear_connector_custom_override
    <<"normalize", "prepare?">>,                    \* prepare_connector_runtimes
    <<"normalize", "idle?", "normalize", "activate", "take">> }  \* resolve_connector_executable

\* An override needs its executable.
BeginCommand(t, command) ==
    /\ todo[t] = <<>>
    /\ command[2] = "override" => Runnable(Custom)
    /\ Turn(t, command)
    /\ UNCHANGED <<target, installed, in_use>>
    /\ Stays

\* lookup_latest_release: what upstream says is the latest version.
Answered(t) ==
    /\ \E v \in Published : target' = [target EXCEPT ![t] = v]
    /\ todo' = [todo EXCEPT ![t] = Tail(@)]

\* Without an answer the row keeps its version.
Lookup(t) ==
    /\ At(t, "lookup")
    /\ \/ Answered(t)
       \/ /\ todo' = [todo EXCEPT ![t] = <<"touch">> \o Tail(Tail(@))]
          /\ UNCHANGED target
    /\ UNCHANGED <<installed, in_use>>
    /\ Stays

\* The update itself: its progress, the download, and what it finds in the row then.
UpdateSteps == <<"touch", "install", "look">>

\* update_connector_runtime: refused with a custom executable, done when the
\* latest version is active or waits already; a check that is older than a day
\* is made again first.  The reports of its progress are one touch.
Decide(t) ==
    /\ At(t, "decide")
    /\ \/ /\ record.mode = "managed"
          /\ Turn(t, <<"normalize", "touch", "lookup", "latest", "decide">>)
          /\ UNCHANGED target
       \/ /\ record.mode = "managed" /\ record.latest # Absent
          /\ record.latest \notin {record.active, record.pending}
          /\ Turn(t, UpdateSteps)
          /\ target' = [target EXCEPT ![t] = record.latest]
       \/ /\ record.mode = "managed" /\ record.latest \in {record.active, record.pending}
          /\ Turn(t, IF record.pending = record.latest THEN <<>> ELSE <<"touch">>)
          /\ UNCHANGED target
       \/ /\ record.mode = "custom"
          /\ Turn(t, <<>>)
          /\ UNCHANGED target
    /\ UNCHANGED <<installed, in_use>>
    /\ Stays

\* prepare_connector_runtimes: a managed connector with no active file.
DecidePrepare(t) ==
    /\ At(t, "prepare?")
    /\ Turn(t, IF record.active \notin installed /\ record.mode = "managed"
               THEN <<"touch", "install", "prepare">> ELSE <<>>)
    /\ target' = [target EXCEPT ![t] = Pinned]
    /\ UNCHANGED <<installed, in_use>>
    /\ Stays

\* install_release_asset: an executable that is there and reports its version
\* stays, else the download takes its name; a failure ends the command.
Install(t) ==
    /\ At(t, "install")
    /\ \/ installed' = installed \cup {target[t]} /\ Onward(t)
       \/ Turn(t, <<"touch">>) /\ UNCHANGED <<installed, target>>
    /\ UNCHANGED in_use
    /\ Stays

\* The update looks whether a job uses the connector before it loads the row.
LookBusy(t) ==
    /\ At(t, "look")
    /\ Turn(t, IF in_use > 0 THEN <<"defer">> ELSE <<"settle">>)
    /\ UNCHANGED <<installed, in_use, target>>
    /\ Stays

\* activate_pending_if_idle does nothing while a job uses the connector.
LookIdle(t) ==
    /\ At(t, "idle?")
    /\ Turn(t, IF in_use > 0 THEN SubSeq(todo[t], 4, Len(todo[t])) ELSE Tail(todo[t]))
    /\ UNCHANGED <<installed, in_use, target>>
    /\ Stays

\* The end of resolve_connector_executable gives the job the active executable;
\* it claims the connector only when it starts the program.
Take(t) ==
    /\ At(t, "take")
    /\ Onward(t)
    /\ UNCHANGED <<installed, in_use>>
    /\ Stays

ClaimUse ==
    /\ in_use < MaxUse
    /\ in_use' = in_use + 1
    /\ UNCHANGED <<installed, todo, target>>
    /\ Stays

\* The last guard that is dropped activates what waits, on its thread.
DropUse(t) ==
    /\ in_use > 0
    /\ todo[t] = <<>>
    /\ in_use' = in_use - 1
    /\ Turn(t, IF in_use' = 0 THEN <<"idle?", "normalize", "activate">> ELSE <<>>)
    /\ UNCHANGED <<installed, target>>
    /\ Stays

\* Somebody removes an executable.
ExecutableGoes(x) ==
    /\ x \in installed
    /\ losses < MaxLosses
    /\ losses' = losses + 1
    /\ installed' = installed \ {x}
    /\ settled_on' = IF settled_on = x THEN Absent ELSE settled_on
    /\ UNCHANGED <<record, in_use, todo, seen, target, chosen, crossed>>

ConnectorNext ==
    \/ \E t \in Thread : \/ LoadRow(t) \/ SaveRow(t) \/ Decide(t) \/ DecidePrepare(t)
                         \/ Install(t) \/ LookBusy(t) \/ LookIdle(t) \/ Take(t) \/ DropUse(t)
                         \/ Lookup(t) \/ \E c \in Commands : BeginCommand(t, c)
    \/ ClaimUse
    \/ \E x \in Executable : ExecutableGoes(x)

ConnectorSpec == ConnectorInit /\ [][ConnectorNext]_connector_vars

----------------------------------------------------------------------------
\* Unless commands crossed, a job is given the user's executable exactly as long as he
\* wants it: no update that waits, no normalisation and no activation puts a managed one
\* in its place or keeps it after the override was cleared.  And what an update
\* downloaded is active or waits until the user overrides it or its file goes: a job
\* that ends while the update looks for it, a second check or a failed download does not
\* lose it (set_connector_custom_override, update_connector_runtime,
\* activate_pending_if_idle, ConnectorUsageGuard::drop).
ChosenIsTaken ==
    ~crossed =>
        /\ \A t \in Thread : At(t, "take") =>
              record.active = Absent \/ (record.active = Custom <=> chosen = "custom")
        /\ settled_on \in {Absent, record.active, record.pending}
=============================================================================
