------------------------------- MODULE SyncPlans -------------------------------
(***************************************************************************)
(* The scheduler (scheduler_runtime.rs, workspace_repository/scheduler.rs):*)
(* every few seconds a tick loads the automatic sync plans, runs those that*)
(* are due and writes the state of the others, while the user pauses,      *)
(* resumes, skips, runs, edits and deletes plans.  No lock is held between *)
(* the read of a plan and the write of its row: update_sync_plan_runtime_  *)
(* state reads the row, merges a patch into it and writes every column.    *)
(***************************************************************************)
EXTENDS Integers, FiniteSets, FiniteSetsExt

CONSTANTS
    Plan,         \* sync plans
    Interval,     \* time between two runs of a plan
    StartupDelay, \* time from the launch to the first run
    Ahead,        \* how far ahead the user pauses or skips to
    MaxTime       \* bound: the last time of day

ASSUME PlanAssumption ==
    /\ Interval \in Nat \ {0}
    /\ StartupDelay \in Nat
    /\ Ahead \in Nat \ {0}
    /\ MaxTime \in Nat

NoTime == -1
Time == 0..MaxTime
\* "unlimited" stands for the pauses of one to twelve hours as well: a tick
\* takes no such pause for over (is_sync_plan_paused).
PauseMode == {"disabled", "unlimited", "until"}

\* What decides when a plan runs; next_due_at and paused are shown only, and
\* pause_until decides nothing of a plan in another mode than "until".
Row == [pause_mode : PauseMode, pause_until : Int, skip_until : Int, last_run_at : Int]

\* An actor's write of one plan: the row it read and the patch it merges.
Write == [plan : Plan, seen : Row, patch : Row, runs : BOOLEAN]

VARIABLES
    clock,      \* the time
    launch_at,  \* when the scheduler started
    rows,       \* the row of each plan
    automatic,  \* plans the tick loads: enabled, automatic, of an active set
    deleted,    \* plans that were deleted
    tick_now,   \* the time of the tick under way, or NoTime
    tick_plans, \* what it loaded of the plans it is still to handle
    requests,   \* the plans it ran, whose sources are to be queued
    writing,    \* the write the tick and the user's command are about to do
    asked,      \* history: what the user last asked of each plan, and its last run
    torn        \* history: a plan was written while another actor worked on it

store == <<rows, automatic, deleted>>
ticking == <<tick_now, tick_plans, requests>>
plan_vars == <<clock, launch_at, store, ticking, writing, asked, torn>>

Nothing == [plan |-> NoTime]

PlansTypeOK ==
    /\ clock \in Time
    /\ launch_at \in Time
    /\ rows \in [Plan -> Row]
    /\ automatic \subseteq Plan
    /\ deleted \subseteq Plan
    /\ tick_now \in Time \cup {NoTime}
    /\ DOMAIN tick_plans \subseteq Plan
    /\ \A p \in DOMAIN tick_plans : tick_plans[p] \in Row
    /\ requests \subseteq Plan
    /\ \A a \in {"tick", "user"} : writing[a] \in Write \cup {Nothing}
    /\ asked \in [Plan -> Row]
    /\ torn \in BOOLEAN

FreshRow == [pause_mode |-> "disabled", pause_until |-> NoTime,
             skip_until |-> NoTime, last_run_at |-> NoTime]

PlansInit ==
    /\ clock = 0
    /\ launch_at = 0
    /\ rows = [p \in Plan |-> FreshRow]
    /\ automatic = Plan
    /\ deleted = {}
    /\ tick_now = NoTime
    /\ tick_plans = [p \in {} |-> FreshRow]
    /\ requests = {}
    /\ writing = [a \in {"tick", "user"} |-> Nothing]
    /\ asked = rows
    /\ torn = FALSE

----------------------------------------------------------------------------
\* is_sync_plan_paused
IsPaused(row, now) ==
    \/ row.pause_mode = "unlimited"
    \/ row.pause_mode = "until" /\ row.pause_until # NoTime /\ row.pause_until > now

\* compute_sync_plan_next_due_at of a plan that is not paused: the latest of
\* the startup delay, the interval and the skip.
DueAt(row, launch) ==
    Max({launch + StartupDelay, row.skip_until}
            \cup (IF row.last_run_at = NoTime THEN {} ELSE {row.last_run_at + Interval}))
IsDue(row, launch, now) == ~IsPaused(row, now) /\ DueAt(row, launch) <= now

\* A patch keeps the row's value where it holds none.
Or(new, old) == IF new = NoTime THEN old ELSE new

\* Fault: a patch without a skip drops the one there is.
MergedForgetsSkip(row, patch) ==
    [pause_mode  |-> patch.pause_mode,
     pause_until |-> IF patch.pause_mode # "until" THEN NoTime
                     ELSE Or(patch.pause_until, row.pause_until),
     skip_until  |-> patch.skip_until,
     last_run_at |-> Or(patch.last_run_at, row.last_run_at)]

\* update_sync_plan_runtime_state: what becomes of the row it read.
Merged(row, patch) ==
    [pause_mode  |-> patch.pause_mode,
     pause_until |-> IF patch.pause_mode # "until" THEN NoTime
                     ELSE Or(patch.pause_until, row.pause_until),
     skip_until  |-> Or(patch.skip_until, row.skip_until),
     last_run_at |-> Or(patch.last_run_at, row.last_run_at)]

\* The pause is always patched, with what the actor takes it to be.
StatePatch(row) == [row EXCEPT !.skip_until = NoTime, !.last_run_at = NoTime]

\* Fault: a run ends the pause.
RunEndsPause(row, now) ==
    [StatePatch(row) EXCEPT !.last_run_at = now, !.pause_mode = "disabled"]

\* run_sync_plan_now_with_connection: what a run patches.
RunPatch(row, now) == [StatePatch(row) EXCEPT !.last_run_at = now]

\* An actor works on a plan from its first read of it to its write.
Works(a, p) ==
    \/ writing[a].plan = p
    \/ a = "tick" /\ p \in DOMAIN tick_plans
Collides(a, p) == \E b \in {"tick", "user"} \ {a} : Works(b, p)

\* update_sync_plan_runtime_state: the read of the row; with no row it fails.
Reads(a, p, patch, runs) ==
    writing' = [writing EXCEPT ![a] = [plan |-> p, seen |-> rows[p], patch |-> patch, runs |-> runs]]

\* ... and the write of every column, which is left out when none changed (of
\* those that are shown only, too).
Writes(a) ==
    LET w == writing[a]
        row == Merged(w.seen, w.patch)
    IN
    /\ w # Nothing
    /\ \/ w.plan \notin deleted /\ rows' = [rows EXCEPT ![w.plan] = row]
       \/ (w.plan \in deleted \/ row = w.seen) /\ UNCHANGED rows
    /\ writing' = [writing EXCEPT ![a] = Nothing]
    /\ torn' = (torn \/ Collides(a, w.plan))
    /\ UNCHANGED <<clock, launch_at, automatic, deleted>>

----------------------------------------------------------------------------
\* The tick.

TickBegins ==
    /\ tick_now = NoTime
    /\ tick_now' = clock
    /\ tick_plans' = [p \in automatic |-> rows[p]]
    /\ UNCHANGED <<clock, launch_at, store, requests, writing, asked, torn>>

TickFails ==
    /\ tick_now' = NoTime
    /\ tick_plans' = [p \in {} |-> FreshRow]
    /\ requests' = {}
    /\ writing' = [writing EXCEPT !["tick"] = Nothing]
    /\ UNCHANGED <<clock, launch_at, store, asked, torn>>

Rest(p) == [q \in DOMAIN tick_plans \ {p} |-> tick_plans[q]]

\* A plan that is due by what the tick loaded is loaded again and run.
TickRunsPlan(p) ==
    /\ writing["tick"] = Nothing
    /\ p \in DOMAIN tick_plans \ deleted
    /\ IsDue(tick_plans[p], launch_at, tick_now)
    /\ tick_plans' = Rest(p)
    /\ Reads("tick", p, RunPatch(rows[p], tick_now), TRUE)
    /\ UNCHANGED <<clock, launch_at, store, tick_now, requests, asked, torn>>

\* The state of any other is written as the tick loaded it; one that is paused
\* without an end has no next time to write.
TickRefreshesPlan(p) ==
    /\ writing["tick"] = Nothing
    /\ p \in DOMAIN tick_plans \ deleted
    /\ ~IsDue(tick_plans[p], launch_at, tick_now)
    /\ tick_plans' = Rest(p)
    /\ IF tick_plans[p].pause_mode = "unlimited" THEN UNCHANGED writing
       ELSE Reads("tick", p, StatePatch(tick_plans[p]), FALSE)
    /\ UNCHANGED <<clock, launch_at, store, tick_now, requests, asked, torn>>

\* A plan deleted since fails the tick: the plans it already ran stay
\* recorded as run and their sources are not queued.
TickMissesPlan(p) ==
    /\ writing["tick"] = Nothing
    /\ p \in DOMAIN tick_plans \cap deleted
    /\ TickFails

TickWrites ==
    LET w == writing["tick"] IN
    /\ Writes("tick")
    /\ ~(w.runs /\ w.plan \in deleted)
    /\ requests' = IF w.runs THEN requests \cup {w.plan} ELSE requests
    /\ asked' = IF w.runs THEN [asked EXCEPT ![w.plan].last_run_at = tick_now] ELSE asked
    /\ UNCHANGED <<tick_now, tick_plans>>

\* The record of a run has no plan to belong to: the tick fails.
TickLosesPlan ==
    /\ writing["tick"] # Nothing
    /\ writing["tick"].runs /\ writing["tick"].plan \in deleted
    /\ TickFails

\* The sources of the plans that ran go to the sync queue.
TickEnds ==
    /\ tick_now # NoTime
    /\ DOMAIN tick_plans = {}
    /\ writing["tick"] = Nothing
    /\ TickFails

----------------------------------------------------------------------------
\* The user's commands, one at a time.

Command(p) == writing["user"] = Nothing /\ p \notin deleted

UserReads(p, patch, intent) ==
    /\ Command(p)
    /\ Reads("user", p, patch, FALSE)
    /\ asked' = [asked EXCEPT ![p] = intent]
    /\ torn' = (torn \/ Collides("user", p))
    /\ UNCHANGED <<clock, launch_at, store, ticking>>

\* set_sync_plan_pause_with_connection
Pause(p, mode, until) ==
    /\ mode # "disabled"
    /\ mode = "until" <=> until # NoTime
    /\ UserReads(p, [StatePatch(rows[p]) EXCEPT !.pause_mode = mode, !.pause_until = until],
                    [asked[p] EXCEPT !.pause_mode = mode, !.pause_until = until])

\* clear_sync_plan_pause_with_connection
Resume(p) ==
    UserReads(p, [StatePatch(rows[p]) EXCEPT !.pause_mode = "disabled", !.pause_until = NoTime],
                 [asked[p] EXCEPT !.pause_mode = "disabled", !.pause_until = NoTime])

\* skip_sync_plan_with_connection: to a time, by minutes, or past the next run.
Skip(p, until) ==
    /\ until \in {clock + Ahead}
           \cup {Interval + CASE ~IsPaused(rows[p], clock) -> DueAt(rows[p], launch_at)
                              [] rows[p].pause_mode = "until" -> rows[p].pause_until
                              [] OTHER -> clock}
    /\ UserReads(p, [StatePatch(rows[p]) EXCEPT !.skip_until = until],
                    [asked[p] EXCEPT !.skip_until = until])

\* The mode "reset" has no skip to write, so the row keeps the one it has.
ResetSkip(p) ==
    UserReads(p, StatePatch(rows[p]), [asked[p] EXCEPT !.skip_until = NoTime])

\* run_sync_plan_now runs a plan at once, paused or not.
RunNow(p) ==
    UserReads(p, RunPatch(rows[p], clock), [asked[p] EXCEPT !.last_run_at = clock])

UserWrites ==
    /\ Writes("user")
    /\ UNCHANGED <<ticking, asked>>

\* upsert_sync_plan writes the columns of the editor in one statement.
EditPlan(p, mode, until, auto) ==
    /\ Command(p)
    /\ rows' = [rows EXCEPT ![p].pause_mode = mode, ![p].pause_until = until]
    /\ asked' = [asked EXCEPT ![p].pause_mode = mode, ![p].pause_until = until]
    /\ automatic' = IF auto THEN automatic \cup {p} ELSE automatic \ {p}
    /\ torn' = (torn \/ Collides("user", p))
    /\ UNCHANGED <<clock, launch_at, deleted, ticking, writing>>

DeletePlan(p) ==
    /\ Command(p)
    /\ deleted' = deleted \cup {p}
    /\ automatic' = automatic \ {p}
    /\ UNCHANGED <<clock, launch_at, rows, ticking, writing, asked, torn>>

----------------------------------------------------------------------------
TimePasses ==
    /\ clock < MaxTime
    /\ clock' = clock + 1
    /\ UNCHANGED <<launch_at, store, ticking, writing, asked, torn>>

\* The process ends anywhere; the next one records its launch.
Relaunch ==
    /\ launch_at' = clock
    /\ tick_now' = NoTime
    /\ tick_plans' = [p \in {} |-> FreshRow]
    /\ requests' = {}
    /\ writing' = [a \in {"tick", "user"} |-> Nothing]
    /\ torn' = (torn \/ \E a \in {"tick", "user"} : writing[a] # Nothing)
    /\ UNCHANGED <<clock, store, asked>>

TickStep ==
    \/ TickBegins \/ TickWrites \/ TickLosesPlan \/ TickEnds
    \/ \E p \in Plan : TickRunsPlan(p) \/ TickRefreshesPlan(p) \/ TickMissesPlan(p)

UserStep ==
    \/ UserWrites
    \/ \E p \in Plan : Resume(p) \/ ResetSkip(p) \/ RunNow(p) \/ DeletePlan(p)
    \/ \E p \in Plan, mode \in PauseMode, t \in {NoTime, clock + Ahead} : Pause(p, mode, t)
    \/ \E p \in Plan, t \in 0..(2 * MaxTime + StartupDelay + Interval) : Skip(p, t)
    \/ \E p \in Plan, auto \in BOOLEAN : EditPlan(p, "disabled", NoTime, auto)

PlansNext == TickStep \/ UserStep \/ TimePasses \/ Relaunch

PlansSpec == PlansInit /\ [][PlansNext]_plan_vars

----------------------------------------------------------------------------
\* A pause or its end stays as the user last asked for it through any number
\* of ticks, runs and other commands, unless one of them was at work on the
\* plan at the same time (process_scheduler_tick_with_connection writes the
\* pause it loaded back to the row).
PausesStand ==
    ~torn => \A p \in Plan \ deleted : writing["user"].plan # p =>
        /\ rows[p].pause_mode = asked[p].pause_mode
        /\ rows[p].pause_mode = "until" => rows[p].pause_until = asked[p].pause_until

\* The tick runs a plan only when the user let it: not paused, past the skip,
\* an interval after its last run whoever started that, and the startup delay
\* after the launch.
RunsAsAsked ==
    [][\A p \in Plan : TickWrites /\ writing["tick"].plan = p /\ writing["tick"].runs /\ ~torn' =>
          IsDue(asked[p], launch_at, tick_now)]_plan_vars
=============================================================================
