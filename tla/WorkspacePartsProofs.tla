-------------------------- MODULE WorkspacePartsProofs --------------------------
(***************************************************************************)
(* Proofs about the parts of the workspace that share no state: the        *)
(* scheduler's plans, the sessions of the accounts, the import of older    *)
(* folders and single videos.                                              *)
(***************************************************************************)
EXTENDS SyncPlans, AccountSessions, LegacyImport, SingleVideos, WellFoundedInduction,
        FiniteSetTheorems, TLAPS

-----------------------------------------------------------------------------
(***************************************************************************)
(* The scheduler.  As long as no two actors worked on one plan, what the   *)
(* tick loaded and what either actor read of a plan is its row, the row is *)
(* what the user asked for once his command has written it, and the plan   *)
(* that the tick is about to record as run was due by that row.            *)
(***************************************************************************)
Actor == {"tick", "user"}

\* A row that says what the user asked for.  A skip he took back stays in the row
\* (set_sync_plan_skip_with_connection's reset has nothing to write).
Says(row, wish) ==
    /\ row.pause_mode = wish.pause_mode
    /\ row.pause_mode = "until" => row.pause_until = wish.pause_until
    /\ row.last_run_at = wish.last_run_at
    /\ wish.skip_until \in {NoTime, row.skip_until}

SamePause(row, patch) ==
    row.pause_mode = patch.pause_mode /\ row.pause_until = patch.pause_until

\* An actor holds the row it read.
ReadIsRow(a, p) ==
    writing[a] # Nothing /\ writing[a].plan = p => writing[a].seen = rows[p]

\* What the user asked of a plan is in its row, or will be once he has written.
WishKept(p) ==
    IF writing["user"] # Nothing /\ writing["user"].plan = p
    THEN Says(Merged(rows[p], writing["user"].patch), asked[p])
    ELSE Says(rows[p], asked[p])

\* The tick writes back the pause it read, and runs only what is due.
TickPatch(p) ==
    LET w == writing["tick"] IN
    w # Nothing /\ w.plan = p =>
        /\ p \notin DOMAIN tick_plans
        /\ SamePause(rows[p], w.patch)
        /\ w.patch.skip_until = NoTime
        /\ w.patch.last_run_at = IF w.runs THEN tick_now ELSE NoTime
        /\ w.runs => IsDue(rows[p], launch_at, tick_now)

PlanKept(p) ==
    /\ p \in DOMAIN tick_plans => tick_plans[p] = rows[p]
    /\ \A a \in Actor : ReadIsRow(a, p)
    /\ WishKept(p)
    /\ TickPatch(p)

PlansKept == ~torn => \A p \in Plan \ deleted : PlanKept(p)

\* A tick is under way while it handles plans.
TickUnderWay ==
    writing["tick"] # Nothing \/ DOMAIN tick_plans # {} => tick_now \in Time

PlansTypes ==
    /\ PlansTypeOK
    /\ writing \in [Actor -> Write \cup {Nothing}]
    /\ TickUnderWay

PlansInv == PlansTypes /\ PlansKept

LEMMA LatestIsLast ==
    ASSUME NEW now \in Time, NEW T, T \subseteq Int, NEW latest \in T, \A y \in T : latest >= y
    PROVE  latest <= now <=> \A y \in T : y <= now
BY DEF Time

\* The latest of two or three times has come when each of them has.
LEMMA DueAtIsLatest ==
    ASSUME NEW row \in Row, NEW launch \in Time, NEW now \in Time
    PROVE  DueAt(row, launch) <= now <=>
               /\ launch + StartupDelay <= now
               /\ row.skip_until <= now
               /\ row.last_run_at # NoTime => row.last_run_at + Interval <= now
<1> DEFINE times == {launch + StartupDelay, row.skip_until}
                        \cup (IF row.last_run_at = NoTime THEN {} ELSE {row.last_run_at + Interval})
<1>1. times \subseteq Int
  BY PlanAssumption DEF Row, Time
<1>2. \E x \in times : \A y \in times : x >= y
  BY PlanAssumption DEF Row, Time
<1>3. DueAt(row, launch) \in times /\ \A y \in times : DueAt(row, launch) >= y
  BY <1>2 DEF DueAt, Max
<1>4. DueAt(row, launch) <= now <=> \A y \in times : y <= now
  <2> SUFFICES ASSUME NEW T, times = T PROVE DueAt(row, launch) <= now <=> \A y \in T : y <= now
    OBVIOUS
  <2> HIDE DEF times
  <2> QED  BY <1>1, <1>3, LatestIsLast
<1> QED  BY <1>4

\* What is written is a row.
LEMMA MergedType ==
    ASSUME NEW row \in Row, NEW patch \in Row
    PROVE  Merged(row, patch) \in Row
BY DEF Merged, Or, Row, NoTime

LEMMA NoTimeIsInt == NoTime \in Int
BY DEF NoTime

LEMMA SetTime ==
    ASSUME NEW row \in Row, NEW time \in Int
    PROVE  /\ [row EXCEPT !.skip_until = time, !.last_run_at = time] \in Row
           /\ [row EXCEPT !.skip_until = time] \in Row
           /\ [row EXCEPT !.last_run_at = time] \in Row
           /\ \A mode \in PauseMode : [row EXCEPT !.pause_mode = mode, !.pause_until = time] \in Row
BY DEF Row

\* So are the patches.
LEMMA PatchTypes ==
    ASSUME NEW row \in Row
    PROVE  /\ StatePatch(row) \in Row
           /\ \A now \in Int : RunPatch(row, now) \in Row
<1>1. StatePatch(row) \in Row
  BY SetTime, NoTimeIsInt DEF StatePatch
<1>2. ASSUME NEW now \in Int PROVE RunPatch(row, now) \in Row
  BY <1>1, <1>2, SetTime DEF RunPatch
<1> QED  BY <1>1, <1>2

LEMMA PlansTypeInit == PlansInit => PlansTypes
<1> SUFFICES ASSUME PlansInit PROVE PlansTypes
  OBVIOUS
<1>1. FreshRow \in Row /\ 0 \in Time
  BY PlanAssumption DEF FreshRow, Row, PauseMode, Time, NoTime
<1>2. writing["tick"] = Nothing /\ DOMAIN tick_plans = {}
  BY DEF PlansInit
<1> QED
  BY <1>1, <1>2 DEF PlansInit, PlansTypes, PlansTypeOK, TickUnderWay, Actor

LEMMA WriteIsSome ==
    ASSUME NEW w \in Write
    PROVE  w # Nothing
BY DEF Write, Nothing

\* The steps of the tick keep the types.
LEMMA TickTypeStep == ASSUME PlansTypes, TickStep PROVE PlansTypes'
<1> USE DEF PlansTypes, PlansTypeOK, Actor
<1>1. CASE TickBegins
  BY <1>1 DEF TickBegins, store, TickUnderWay
<1>2. ASSUME TickFails PROVE PlansTypes'
  BY <1>2 DEF TickFails, store, TickUnderWay
<1>3. ASSUME NEW p \in Plan, TickRunsPlan(p) PROVE PlansTypes'
  <2>1. tick_now \in Time /\ p \in DOMAIN tick_plans
    BY <1>3 DEF TickRunsPlan, TickUnderWay
  <2>3. tick_now \in Int  BY <2>1 DEF Time
  <2>2. [plan |-> p, seen |-> rows[p], patch |-> RunPatch(rows[p], tick_now), runs |-> TRUE] \in Write
    BY <2>3, PatchTypes DEF Write
  <2> QED  BY <1>3, <2>1, <2>2 DEF TickRunsPlan, store, TickUnderWay, Rest, Reads
<1>4. ASSUME NEW p \in Plan, TickRefreshesPlan(p) PROVE PlansTypes'
  <2>1. tick_now \in Time /\ p \in DOMAIN tick_plans
    BY <1>4 DEF TickRefreshesPlan, TickUnderWay
  <2>2. [plan |-> p, seen |-> rows[p], patch |-> StatePatch(tick_plans[p]), runs |-> FALSE] \in Write
    BY <2>1, PatchTypes DEF Write
  <2> QED  BY <1>4, <2>1, <2>2 DEF TickRefreshesPlan, store, TickUnderWay, Rest, Reads
<1>5. CASE TickWrites
  <2>1. writing["tick"] \in Write /\ tick_now \in Time
    BY <1>5 DEF TickWrites, Writes, TickUnderWay
  <2>2. Merged(writing["tick"].seen, writing["tick"].patch) \in Row
    BY <2>1, MergedType DEF Write
  <2>3. rows' \in [Plan -> Row] /\ writing' \in [Actor -> Write \cup {Nothing}] /\ torn' \in BOOLEAN
    BY <1>5, <2>1, <2>2 DEF TickWrites, Writes, Write
  <2>4. requests' \subseteq Plan /\ asked' \in [Plan -> Row]
    BY <1>5, <2>1 DEF TickWrites, Write, Row, Time
  <2> QED  BY <1>5, <2>1, <2>3, <2>4 DEF TickWrites, Writes, TickUnderWay
<1> QED
  BY <1>1, <1>2, <1>3, <1>4, <1>5 DEF TickStep, TickLosesPlan, TickEnds, TickMissesPlan

\* So does a command's read, whatever row its patch is.
LEMMA UserReadsType ==
    ASSUME PlansTypes, NEW p \in Plan, NEW patch \in Row, NEW intent \in Row,
           UserReads(p, patch, intent)
    PROVE  PlansTypes'
<1>1. [plan |-> p, seen |-> rows[p], patch |-> patch, runs |-> FALSE] \in Write
  BY DEF PlansTypes, PlansTypeOK, Write
<1> QED
  BY <1>1 DEF PlansTypes, PlansTypeOK, Actor, UserReads, Reads, store, ticking, TickUnderWay

LEMMA UserTypeStep == ASSUME PlansTypes, UserStep PROVE PlansTypes'
<1> USE DEF PlansTypes, PlansTypeOK, Actor
<1>1. CASE UserWrites
  <2>1. writing["user"] \in Write
    BY <1>1 DEF UserWrites, Writes
  <2>2. Merged(writing["user"].seen, writing["user"].patch) \in Row
    BY <2>1, MergedType DEF Write
  <2>3. rows' \in [Plan -> Row] /\ writing' \in [Actor -> Write \cup {Nothing}] /\ torn' \in BOOLEAN
    BY <1>1, <2>1, <2>2 DEF UserWrites, Writes, Write
  <2> QED  BY <1>1, <2>3 DEF UserWrites, Writes, TickUnderWay, ticking
<1>2. ASSUME NEW p \in Plan, Resume(p) PROVE PlansTypes'
  <2> DEFINE patch == [StatePatch(rows[p]) EXCEPT !.pause_mode = "disabled", !.pause_until = NoTime]
             intent == [asked[p] EXCEPT !.pause_mode = "disabled", !.pause_until = NoTime]
  <2>1. patch \in Row /\ intent \in Row
    BY PatchTypes, SetTime, NoTimeIsInt DEF PauseMode
  <2> QED  BY <1>2, <2>1, UserReadsType DEF Resume
<1>3. ASSUME NEW p \in Plan, ResetSkip(p) PROVE PlansTypes'
  <2> DEFINE intent == [asked[p] EXCEPT !.skip_until = NoTime]
  <2>1. StatePatch(rows[p]) \in Row /\ intent \in Row
    BY PatchTypes, SetTime, NoTimeIsInt
  <2> QED  BY <1>3, <2>1, UserReadsType DEF ResetSkip
<1>4. ASSUME NEW p \in Plan, RunNow(p) PROVE PlansTypes'
  <2> DEFINE intent == [asked[p] EXCEPT !.last_run_at = clock]
  <2>0. clock \in Int  BY DEF Time
  <2>1. RunPatch(rows[p], clock) \in Row /\ intent \in Row
    BY <2>0, PatchTypes, SetTime
  <2> QED  BY <1>4, <2>1, UserReadsType DEF RunNow
<1>5. ASSUME NEW p \in Plan, DeletePlan(p) PROVE PlansTypes'
  BY <1>5 DEF DeletePlan, ticking, TickUnderWay
<1>6. ASSUME NEW p \in Plan, NEW mode \in PauseMode, NEW t \in {NoTime, clock + Ahead}, Pause(p, mode, t)
      PROVE  PlansTypes'
  <2> DEFINE patch == [StatePatch(rows[p]) EXCEPT !.pause_mode = mode, !.pause_until = t]
             intent == [asked[p] EXCEPT !.pause_mode = mode, !.pause_until = t]
  <2>1. t \in Int
    BY PlanAssumption DEF Time, NoTime
  <2>2. patch \in Row /\ intent \in Row
    BY <2>1, PatchTypes, SetTime
  <2> QED  BY <1>6, <2>2, UserReadsType DEF Pause
<1>7. ASSUME NEW p \in Plan, NEW t \in Nat, Skip(p, t) PROVE PlansTypes'
  <2> DEFINE patch == [StatePatch(rows[p]) EXCEPT !.skip_until = t]
             intent == [asked[p] EXCEPT !.skip_until = t]
  <2>0. t \in Int  OBVIOUS
  <2>1. patch \in Row /\ intent \in Row
    BY <2>0, PatchTypes, SetTime
  <2> QED  BY <1>7, <2>1, UserReadsType DEF Skip
<1>8. ASSUME NEW p \in Plan, NEW auto \in BOOLEAN, EditPlan(p, "disabled", NoTime, auto) PROVE PlansTypes'
  <2>1. rows' \in [Plan -> Row] /\ asked' \in [Plan -> Row]
    <3> DEFINE New(row) == [row EXCEPT !.pause_mode = "disabled", !.pause_until = NoTime]
    <3>1. rows' = [rows EXCEPT ![p] = New(rows[p])] /\ asked' = [asked EXCEPT ![p] = New(asked[p])]
      BY <1>8 DEF EditPlan
    <3>2. New(rows[p]) \in Row /\ New(asked[p]) \in Row
      BY SetTime, NoTimeIsInt DEF PauseMode
    <3> HIDE DEF New
    <3> QED  BY <3>1, <3>2
  <2> QED  BY <1>8, <2>1 DEF EditPlan, ticking, TickUnderWay
<1> QED
  BY <1>1, <1>2, <1>3, <1>4, <1>5, <1>6, <1>7, <1>8 DEF UserStep

LEMMA PlansTypeStep == PlansTypes /\ [PlansNext]_plan_vars => PlansTypes'
<1> SUFFICES ASSUME PlansTypes, [PlansNext]_plan_vars PROVE PlansTypes'
  OBVIOUS
<1>1. CASE TickStep  BY <1>1, TickTypeStep
<1>2. CASE UserStep  BY <1>2, UserTypeStep
<1>3. CASE TimePasses
  BY <1>3, PlanAssumption DEF TimePasses, PlansTypes, PlansTypeOK, TickUnderWay, Time, store, ticking
<1>4. CASE Relaunch
  BY <1>4 DEF Relaunch, PlansTypes, PlansTypeOK, TickUnderWay, store, Actor
<1>5. CASE UNCHANGED plan_vars
  BY <1>5 DEF plan_vars, PlansTypes, PlansTypeOK, TickUnderWay, store, ticking
<1> QED  BY <1>1, <1>2, <1>3, <1>4, <1>5 DEF PlansNext

\* The row, the plans the tick has and what either actor is writing have their types,
\* and a tick is under way while it handles plans (scheduler_runtime.rs).
THEOREM PlansTypeCorrect == PlansSpec => []PlansTypeOK
<1>1. PlansTypes => PlansTypeOK
  BY DEF PlansTypes
<1> QED  BY <1>1, PlansTypeInit, PlansTypeStep, PTL DEF PlansSpec

\* A write that patches no time keeps the times, and one that patches the pause that
\* is there keeps it.
LEMMA MergedSays ==
    ASSUME NEW row \in Row, NEW patch \in Row, NEW wish \in Row, Says(row, wish),
           SamePause(row, patch)
    PROVE  /\ patch.skip_until = NoTime /\ patch.last_run_at = NoTime => Says(Merged(row, patch), wish)
           /\ patch.skip_until = NoTime /\ patch.last_run_at # NoTime =>
                  Says(Merged(row, patch), [wish EXCEPT !.last_run_at = patch.last_run_at])
BY DEF Says, SamePause, Merged, Or, Row

LEMMA PlansKeptInit == PlansInit => PlansKept
BY DEF PlansInit, PlansKept, PlanKept, ReadIsRow, WishKept, TickPatch, Says, FreshRow, Actor

\* What the step's frame gives: a plan that is still there, that nothing tore.
LEMMA StillKept ==
    ASSUME PlansTypes, PlansKept, PlansNext, ~torn', NEW p \in Plan \ deleted'
    PROVE  ~torn /\ p \in Plan \ deleted /\ PlanKept(p)
<1>1. ~torn /\ deleted \subseteq deleted'
  <2>0. torn \in BOOLEAN
    BY DEF PlansTypes, PlansTypeOK
  <2>1. CASE TickStep
    BY <2>0, <2>1 DEF TickStep, TickBegins, TickWrites, Writes, TickLosesPlan, TickEnds, TickFails,
                TickRunsPlan, TickRefreshesPlan, TickMissesPlan, store
  <2>2. CASE UserWrites
    BY <2>0, <2>2 DEF UserWrites, Writes
  <2>3. ASSUME NEW q, NEW patch, NEW intent, UserReads(q, patch, intent)
        PROVE  ~torn /\ deleted \subseteq deleted'
    BY <2>0, <2>3 DEF UserReads, store
  <2>4. CASE UserStep
    BY <2>0, <2>2, <2>3, <2>4 DEF UserStep, Resume, ResetSkip, RunNow, DeletePlan, Pause, Skip, EditPlan
  <2>5. CASE TimePasses \/ Relaunch
    BY <2>0, <2>5 DEF TimePasses, Relaunch, store
  <2> QED  BY <2>1, <2>4, <2>5 DEF PlansNext
<1> QED  BY <1>1 DEF PlansKept

\* A step that changes nothing of a plan but what the tick has loaded, and ends the
\* tick's write or leaves it as it is.
LEMMA KeptFrame ==
    ASSUME NEW p \in Plan, PlanKept(p), PlansTypes,
           rows' = rows, asked' = asked, launch_at' = launch_at,
           writing'["user"] = writing["user"],
           \/ writing'["tick"] = Nothing
           \/ writing'["tick"] = writing["tick"] /\ tick_now' = tick_now
              /\ (p \in DOMAIN tick_plans' => p \in DOMAIN tick_plans),
           p \in DOMAIN tick_plans' => tick_plans'[p] = rows[p]
    PROVE  PlanKept(p)'
BY DEF PlanKept, ReadIsRow, WishKept, TickPatch, Actor

LEMMA TickKeptStep ==
    ASSUME PlansTypes, PlansKept, TickStep, ~torn', NEW p \in Plan \ deleted'
    PROVE  PlanKept(p)'
<1> USE DEF PlansTypes, PlansTypeOK, Actor
<1>0. ~torn /\ p \in Plan \ deleted /\ PlanKept(p)
  BY StillKept DEF PlansNext
<1>1. CASE TickBegins
  <2>1. writing["tick"] = Nothing
    BY <1>1 DEF TickBegins, TickUnderWay, NoTime, Time
  <2> QED  BY <1>0, <1>1, <2>1, KeptFrame DEF TickBegins, store
<1>2. ASSUME TickFails PROVE PlanKept(p)'
  <2>1. writing'["tick"] = Nothing /\ writing'["user"] = writing["user"] /\ DOMAIN tick_plans' = {}
    BY <1>2 DEF TickFails
  <2> QED  BY <1>0, <1>2, <2>1, KeptFrame DEF TickFails, store
<1>3. ASSUME NEW q \in Plan, TickRunsPlan(q) PROVE PlanKept(p)'
  <2>1. tick_now \in Time /\ q \in DOMAIN tick_plans
    BY <1>3 DEF TickRunsPlan, TickUnderWay
  <2>2. DOMAIN tick_plans' = DOMAIN tick_plans \ {q}
        /\ \A o \in DOMAIN tick_plans' : tick_plans'[o] = tick_plans[o]
    BY <1>3 DEF TickRunsPlan, Rest
  <2>3. writing'["tick"] = [plan |-> q, seen |-> rows[q], patch |-> RunPatch(rows[q], tick_now), runs |-> TRUE]
        /\ writing'["user"] = writing["user"]
    BY <1>3 DEF TickRunsPlan, Reads
  <2>4. SamePause(rows[p], RunPatch(rows[p], tick_now))
        /\ RunPatch(rows[p], tick_now).skip_until = NoTime
        /\ RunPatch(rows[p], tick_now).last_run_at = tick_now
    BY DEF SamePause, RunPatch, StatePatch, Row
  <2>5. p = q => IsDue(rows[p], launch_at, tick_now)
    BY <1>0, <1>3, <2>1 DEF TickRunsPlan, PlanKept
  <2>6. rows' = rows /\ asked' = asked /\ launch_at' = launch_at /\ tick_now' = tick_now
    BY <1>3 DEF TickRunsPlan, store
  <2>7. TickPatch(p)'
    BY <2>2, <2>3, <2>4, <2>5, <2>6 DEF TickPatch
  <2>8. (p \in DOMAIN tick_plans => tick_plans[p] = rows[p])' /\ ReadIsRow("tick", p)'
        /\ ReadIsRow("user", p)' /\ WishKept(p)'
    BY <1>0, <2>2, <2>3, <2>6 DEF PlanKept, ReadIsRow, WishKept
  <2> QED  BY <2>7, <2>8 DEF PlanKept
<1>4. ASSUME NEW q \in Plan, TickRefreshesPlan(q) PROVE PlanKept(p)'
  <2>1. q \in DOMAIN tick_plans
    BY <1>4 DEF TickRefreshesPlan
  <2>2. DOMAIN tick_plans' = DOMAIN tick_plans \ {q}
        /\ \A o \in DOMAIN tick_plans' : tick_plans'[o] = tick_plans[o]
    BY <1>4 DEF TickRefreshesPlan, Rest
  <2>6. rows' = rows /\ asked' = asked /\ launch_at' = launch_at /\ tick_now' = tick_now
    BY <1>4 DEF TickRefreshesPlan, store
  <2>3. CASE writing' = writing
    BY <1>0, <2>2, <2>3, <2>6, KeptFrame DEF PlanKept
  <2>4. CASE Reads("tick", q, StatePatch(tick_plans[q]), FALSE)
    <3>1. writing'["tick"] = [plan |-> q, seen |-> rows[q], patch |-> StatePatch(tick_plans[q]), runs |-> FALSE]
          /\ writing'["user"] = writing["user"]
      BY <2>4 DEF Reads
    <3>2. p = q => tick_plans[q] = rows[p]
      BY <1>0, <2>1 DEF PlanKept
    <3>3. SamePause(rows[p], StatePatch(rows[p]))
          /\ StatePatch(rows[p]).skip_until = NoTime /\ StatePatch(rows[p]).last_run_at = NoTime
      BY DEF SamePause, StatePatch, Row
    <3>4. TickPatch(p)'
      BY <2>2, <2>6, <3>1, <3>2, <3>3 DEF TickPatch
    <3>5. (p \in DOMAIN tick_plans => tick_plans[p] = rows[p])' /\ ReadIsRow("tick", p)'
          /\ ReadIsRow("user", p)' /\ WishKept(p)'
      BY <1>0, <2>2, <2>6, <3>1 DEF PlanKept, ReadIsRow, WishKept
    <3> QED  BY <3>4, <3>5 DEF PlanKept
  <2> QED  BY <1>4, <2>3, <2>4 DEF TickRefreshesPlan
<1>5. CASE TickWrites
  <2> DEFINE w == writing["tick"]
  <2>1. w \in Write /\ w # Nothing /\ tick_now \in Time
    BY <1>5 DEF TickWrites, Writes, TickUnderWay
  <2>2. writing'["tick"] = Nothing /\ writing'["user"] = writing["user"]
        /\ tick_plans' = tick_plans /\ launch_at' = launch_at
    BY <1>5 DEF TickWrites, Writes
  <2>3. CASE w.plan # p
    <3>1. rows'[p] = rows[p] /\ asked'[p] = asked[p]
      BY <1>5, <2>1, <2>3 DEF TickWrites, Writes, Write
    <3> QED  BY <1>0, <2>2, <3>1 DEF PlanKept, ReadIsRow, WishKept, TickPatch
  <2>4. CASE w.plan = p
    <3>1. writing["user"].plan # p
      BY <1>5, <2>4 DEF TickWrites, Writes, Collides, Works
    <3>2. w.seen = rows[p] /\ TickPatch(p) /\ Says(rows[p], asked[p])
      BY <1>0, <2>1, <2>4, <3>1 DEF PlanKept, ReadIsRow, WishKept
    <3>3. rows'[p] = Merged(rows[p], w.patch)
      <4>1. p \in deleted => FALSE
        BY <1>0
      <4> QED  BY <1>5, <2>4, <3>2, <4>1 DEF TickWrites, Writes
    <3>4. asked'[p] = IF w.runs THEN [asked[p] EXCEPT !.last_run_at = tick_now] ELSE asked[p]
      BY <1>5, <2>4 DEF TickWrites
    <3>5. Says(rows'[p], asked'[p])
      <4>1. SamePause(rows[p], w.patch) /\ w.patch.skip_until = NoTime
            /\ w.patch.last_run_at = (IF w.runs THEN tick_now ELSE NoTime)
            /\ w.patch \in Row
        BY <2>1, <2>4, <3>2 DEF TickPatch, Write
      <4>2. tick_now # NoTime
        BY <2>1 DEF Time, NoTime
      <4>3. rows[p] \in Row /\ asked[p] \in Row
        OBVIOUS
      <4>4. CASE w.runs
        <5>1. Says(Merged(rows[p], w.patch), [asked[p] EXCEPT !.last_run_at = w.patch.last_run_at])
          BY <3>2, <4>1, <4>2, <4>3, <4>4, MergedSays
        <5> QED  BY <3>3, <3>4, <4>1, <4>4, <5>1
      <4>5. CASE ~w.runs
        <5>1. Says(Merged(rows[p], w.patch), asked[p])
          BY <3>2, <4>1, <4>3, <4>5, MergedSays
        <5> QED  BY <3>3, <3>4, <4>5, <5>1
      <4> QED  BY <4>4, <4>5
    <3>6. p \notin DOMAIN tick_plans
      BY <2>1, <2>4, <3>2 DEF TickPatch
    <3> QED  BY <2>2, <3>1, <3>5, <3>6 DEF PlanKept, ReadIsRow, WishKept, TickPatch
  <2> QED  BY <2>3, <2>4
<1> QED
  BY <1>1, <1>2, <1>3, <1>4, <1>5 DEF TickStep, TickLosesPlan, TickEnds, TickMissesPlan

\* A command that reads a plan when nothing else works on it, and whose patch makes of
\* a row that says what the user asked for one that says what he asks for now.
LEMMA UserReadsKept ==
    ASSUME PlansTypes, NEW p, p \in Plan \ deleted, PlanKept(p), ~torn',
           NEW q \in Plan, NEW patch, NEW intent, UserReads(q, patch, intent),
           p = q /\ Says(rows[p], asked[p]) => Says(Merged(rows[p], patch), intent)
    PROVE  PlanKept(p)'
<1> USE DEF PlansTypes, PlansTypeOK, Actor
<1>1. writing["user"] = Nothing /\ Says(rows[p], asked[p])
  BY DEF UserReads, Command, PlanKept, WishKept
<1>2. writing'["user"] = [plan |-> q, seen |-> rows[q], patch |-> patch, runs |-> FALSE]
      /\ writing'["tick"] = writing["tick"]
  BY DEF UserReads, Reads
<1>3. rows' = rows /\ launch_at' = launch_at /\ tick_now' = tick_now /\ tick_plans' = tick_plans
      /\ asked'[p] = IF p = q THEN intent ELSE asked[p]
  BY DEF UserReads, store, ticking
<1>4. writing'["user"] # Nothing
  BY <1>2 DEF Nothing
<1>5. WishKept(p)'
  BY <1>1, <1>2, <1>3, <1>4 DEF WishKept
<1>6. ReadIsRow("tick", p)' /\ ReadIsRow("user", p)' /\ TickPatch(p)'
  BY <1>2, <1>3 DEF PlanKept, ReadIsRow, TickPatch
<1> QED  BY <1>3, <1>5, <1>6 DEF PlanKept

LEMMA UserKeptStep ==
    ASSUME PlansTypes, PlansKept, UserStep, ~torn', NEW p \in Plan \ deleted'
    PROVE  PlanKept(p)'
<1> USE DEF PlansTypes, PlansTypeOK, Actor
<1>0. ~torn /\ p \in Plan \ deleted /\ PlanKept(p)
  BY StillKept DEF PlansNext
<1>1. CASE UserWrites
  <2> DEFINE w == writing["user"]
  <2>1. w \in Write /\ w # Nothing
    BY <1>1 DEF UserWrites, Writes
  <2>2. writing'["user"] = Nothing /\ writing'["tick"] = writing["tick"] /\ tick_now' = tick_now
        /\ tick_plans' = tick_plans /\ launch_at' = launch_at /\ asked' = asked
    BY <1>1 DEF UserWrites, Writes, ticking
  <2>3. CASE w.plan # p
    <3>1. rows'[p] = rows[p]
      BY <1>1, <2>1, <2>3 DEF UserWrites, Writes, Write
    <3> QED  BY <1>0, <2>2, <2>3, <3>1 DEF PlanKept, ReadIsRow, WishKept, TickPatch
  <2>4. CASE w.plan = p
    <3>1. writing["tick"].plan # p /\ p \notin DOMAIN tick_plans
      BY <1>1, <2>4 DEF UserWrites, Writes, Collides, Works
    <3>2. w.seen = rows[p] /\ Says(Merged(rows[p], w.patch), asked[p])
      BY <1>0, <2>1, <2>4 DEF PlanKept, ReadIsRow, WishKept
    <3>3. rows'[p] = Merged(rows[p], w.patch)
      <4>1. p \in deleted => FALSE
        BY <1>0
      <4> QED  BY <1>1, <2>4, <3>2, <4>1 DEF UserWrites, Writes
    <3> QED  BY <2>2, <3>1, <3>2, <3>3 DEF PlanKept, ReadIsRow, WishKept, TickPatch
  <2> QED  BY <2>3, <2>4
<1>2. ASSUME NEW q \in Plan, Resume(q) PROVE PlanKept(p)'
  <2> DEFINE patch == [StatePatch(rows[q]) EXCEPT !.pause_mode = "disabled", !.pause_until = NoTime]
             intent == [asked[q] EXCEPT !.pause_mode = "disabled", !.pause_until = NoTime]
  <2>1. p = q /\ Says(rows[p], asked[p]) => Says(Merged(rows[p], patch), intent)
    BY DEF Says, Merged, Or, StatePatch, Row
  <2> HIDE DEF patch, intent
  <2>2. UserReads(q, patch, intent)
    BY <1>2 DEF Resume, patch, intent
  <2> QED  BY <1>0, <2>1, <2>2, UserReadsKept
<1>3. ASSUME NEW q \in Plan, ResetSkip(q) PROVE PlanKept(p)'
  <2> DEFINE patch == StatePatch(rows[q])
             intent == [asked[q] EXCEPT !.skip_until = NoTime]
  <2>1. p = q /\ Says(rows[p], asked[p]) => Says(Merged(rows[p], patch), intent)
    BY DEF Says, Merged, Or, StatePatch, Row
  <2> HIDE DEF patch, intent
  <2>2. UserReads(q, patch, intent)
    BY <1>3 DEF ResetSkip, patch, intent
  <2> QED  BY <1>0, <2>1, <2>2, UserReadsKept
<1>4. ASSUME NEW q \in Plan, RunNow(q) PROVE PlanKept(p)'
  <2> DEFINE patch == RunPatch(rows[q], clock)
             intent == [asked[q] EXCEPT !.last_run_at = clock]
  <2>0. clock # NoTime
    BY DEF Time, NoTime
  <2>1. p = q /\ Says(rows[p], asked[p]) => Says(Merged(rows[p], patch), intent)
    BY <2>0 DEF Says, Merged, Or, RunPatch, StatePatch, Row
  <2> HIDE DEF patch, intent
  <2>2. UserReads(q, patch, intent)
    BY <1>4 DEF RunNow, patch, intent
  <2> QED  BY <1>0, <2>1, <2>2, UserReadsKept
<1>5. ASSUME NEW q \in Plan, DeletePlan(q) PROVE PlanKept(p)'
  BY <1>0, <1>5 DEF DeletePlan, ticking, PlanKept, ReadIsRow, WishKept, TickPatch
<1>6. ASSUME NEW q \in Plan, NEW mode \in PauseMode, NEW t \in {NoTime, clock + Ahead}, Pause(q, mode, t)
      PROVE  PlanKept(p)'
  <2> DEFINE patch == [StatePatch(rows[q]) EXCEPT !.pause_mode = mode, !.pause_until = t]
             intent == [asked[q] EXCEPT !.pause_mode = mode, !.pause_until = t]
  <2>0. mode = "until" => t # NoTime
    BY <1>6 DEF Pause
  <2>1. p = q /\ Says(rows[p], asked[p]) => Says(Merged(rows[p], patch), intent)
    BY <2>0 DEF Says, Merged, Or, StatePatch, Row
  <2> HIDE DEF patch, intent
  <2>2. UserReads(q, patch, intent)
    BY <1>6 DEF Pause, patch, intent
  <2> QED  BY <1>0, <2>1, <2>2, UserReadsKept
<1>7. ASSUME NEW q \in Plan, NEW t \in Nat, Skip(q, t) PROVE PlanKept(p)'
  <2> DEFINE patch == [StatePatch(rows[q]) EXCEPT !.skip_until = t]
             intent == [asked[q] EXCEPT !.skip_until = t]
  <2>0. t # NoTime
    BY DEF NoTime
  <2>1. p = q /\ Says(rows[p], asked[p]) => Says(Merged(rows[p], patch), intent)
    BY <2>0 DEF Says, Merged, Or, StatePatch, Row
  <2> HIDE DEF patch, intent
  <2>2. UserReads(q, patch, intent)
    BY <1>7 DEF Skip, patch, intent
  <2> QED  BY <1>0, <2>1, <2>2, UserReadsKept
<1>8. ASSUME NEW q \in Plan, NEW auto \in BOOLEAN, EditPlan(q, "disabled", NoTime, auto) PROVE PlanKept(p)'
  <2>1. CASE p # q
    BY <1>0, <1>8, <2>1 DEF EditPlan, ticking, PlanKept, ReadIsRow, WishKept, TickPatch
  <2>2. CASE p = q
    <3>1. writing["user"] = Nothing /\ writing["tick"].plan # p /\ p \notin DOMAIN tick_plans
          /\ writing' = writing /\ tick_plans' = tick_plans
      BY <1>8, <2>2 DEF EditPlan, Command, Collides, Works, ticking
    <3>2. Says(rows[p], asked[p])
      BY <1>0, <3>1 DEF PlanKept, WishKept
    <3>3. Says(rows'[p], asked'[p])
      BY <1>8, <2>2, <3>2 DEF EditPlan, Says, Row
    <3> QED  BY <3>1, <3>3 DEF PlanKept, ReadIsRow, WishKept, TickPatch
  <2> QED  BY <2>1, <2>2
<1> QED
  BY <1>1, <1>2, <1>3, <1>4, <1>5, <1>6, <1>7, <1>8, PlanAssumption DEF UserStep

LEMMA PlansKeptStep == PlansTypes /\ PlansKept /\ [PlansNext]_plan_vars => PlansKept'
<1> SUFFICES ASSUME PlansTypes, PlansKept, [PlansNext]_plan_vars, ~torn', NEW p \in Plan \ deleted'
             PROVE  PlanKept(p)'
  BY DEF PlansKept
<1> USE DEF PlanKept, ReadIsRow, WishKept, TickPatch
<1>1. CASE TickStep  BY <1>1, TickKeptStep
<1>2. CASE UserStep  BY <1>2, UserKeptStep
<1>3. CASE TimePasses
  <2>1. PlanKept(p)
    BY <1>3, StillKept DEF PlansNext
  <2> QED  BY <1>3, <2>1 DEF TimePasses, store, ticking
<1>4. CASE Relaunch
  <2>1. PlanKept(p)
    BY <1>4, StillKept DEF PlansNext
  <2>2. writing["user"] = Nothing
    BY <1>4 DEF Relaunch
  <2>3. \A a \in Actor : writing'[a] = Nothing
    BY <1>4 DEF Relaunch, Actor
  <2> QED  BY <1>4, <2>1, <2>2, <2>3 DEF Relaunch, store, Actor
<1>5. CASE UNCHANGED plan_vars
  BY <1>5 DEF plan_vars, store, ticking, PlansKept
<1> QED  BY <1>1, <1>2, <1>3, <1>4, <1>5 DEF PlansNext

LEMMA PlansInvHolds == PlansSpec => []PlansInv
<1>1. PlansInit => PlansInv
  BY PlansTypeInit, PlansKeptInit DEF PlansInv
<1>2. PlansInv /\ [PlansNext]_plan_vars => PlansInv'
  BY PlansTypeStep, PlansKeptStep DEF PlansInv
<1> QED  BY <1>1, <1>2, PTL DEF PlansSpec

\* A pause or its end stays as the user last asked for it through any number of ticks,
\* runs and other commands, unless two of them worked on the plan at once
\* (update_sync_plan_runtime_state, process_scheduler_tick_with_connection).
THEOREM PausesAlwaysStand == PlansSpec => []PausesStand
<1>1. PlansInv => PausesStand
  <2> SUFFICES ASSUME PlansInv, ~torn, NEW p \in Plan \ deleted, writing["user"].plan # p
               PROVE  /\ rows[p].pause_mode = asked[p].pause_mode
                      /\ rows[p].pause_mode = "until" => rows[p].pause_until = asked[p].pause_until
    BY DEF PausesStand
  <2> QED  BY DEF PlansInv, PlansKept, PlanKept, WishKept, Says
<1> QED  BY <1>1, PlansInvHolds, PTL

\* The tick records a run only of a plan the user let it run by then: not paused, past
\* the skip he asked for, an interval after the last run whoever started that, and the
\* startup delay after the launch (process_scheduler_tick_with_connection).
THEOREM TicksRunAsAsked == PlansSpec => RunsAsAsked
<1>1. ASSUME PlansInv, NEW p \in Plan, TickWrites, writing["tick"].plan = p, writing["tick"].runs, ~torn'
      PROVE  IsDue(asked[p], launch_at, tick_now)
  <2> USE DEF PlansInv, PlansTypes, PlansTypeOK, Actor
  <2>1. ~torn /\ p \notin deleted /\ writing["tick"] # Nothing /\ writing["user"].plan # p
        /\ tick_now \in Time
    BY <1>1 DEF TickWrites, Writes, Collides, Works, TickUnderWay
  <2>2. Says(rows[p], asked[p]) /\ IsDue(rows[p], launch_at, tick_now)
    BY <1>1, <2>1 DEF PlansKept, PlanKept, WishKept, TickPatch
  <2>3. ~IsPaused(asked[p], tick_now)
    BY <2>2 DEF IsDue, IsPaused, Says
  <2>4. DueAt(asked[p], launch_at) <= tick_now
    <3>1. rows[p] \in Row /\ asked[p] \in Row /\ launch_at \in Time
      BY <1>1
    <3>2. /\ launch_at + StartupDelay <= tick_now
          /\ rows[p].skip_until <= tick_now
          /\ rows[p].last_run_at # NoTime => rows[p].last_run_at + Interval <= tick_now
      BY <2>1, <2>2, <3>1, DueAtIsLatest DEF IsDue
    <3>3. asked[p].skip_until <= tick_now
      BY <2>1, <2>2, <3>2 DEF Says, NoTime, Time
    <3>4. asked[p].last_run_at # NoTime => asked[p].last_run_at + Interval <= tick_now
      BY <2>2, <3>2 DEF Says
    <3> QED  BY <2>1, <3>1, <3>2, <3>3, <3>4, DueAtIsLatest
  <2> QED  BY <2>3, <2>4 DEF IsDue
<1>2. PlansInv /\ [PlansNext]_plan_vars =>
        [\A p \in Plan : TickWrites /\ writing["tick"].plan = p /\ writing["tick"].runs /\ ~torn' =>
             IsDue(asked[p], launch_at, tick_now)]_plan_vars
  BY <1>1
<1> QED  BY <1>2, PlansInvHolds, PTL DEF PlansSpec, RunsAsAsked

-----------------------------------------------------------------------------
(***************************************************************************)
(* The sessions of the accounts.  A file belongs to the account whose rows *)
(* name it, or is loose: stored for a commit to come, or superseded and    *)
(* about to be removed.  As long as no two commands worked on one account, *)
(* no file belongs to two of them and none that belongs to one is loose,   *)
(* so that what a command discards is nobody's.                            *)
(***************************************************************************)
NoneOf(kinds) == accidents \cap kinds = {}

\* What a command knows of its work.
SecretOrNone == Secret \cup {NoSecret}
ImportWork ==
    [step : {"commit", "clean", "validate"}, kind : {"import"}, account : ProviderAccount,
     new : Secret, who : Login, created : BOOLEAN, old : SecretOrNone, row : ImportRow]
SaveWork ==
    [step : {"commit", "clean", "validate"}, kind : {"save"}, account : ProviderAccount,
     new : Secret, old : SecretOrNone, backup : SecretOrNone]
RevertWork ==
    [step : {"commit", "validate"}, kind : {"revert"}, account : ProviderAccount,
     old : SecretOrNone, row : ImportRow]
ClearWork == [step : {"rows", "validate"}, kind : {"clear"}, account : ProviderAccount]
DeleteWork == [step : {"rows"}, kind : {"delete"}, account : ProviderAccount]
EditWork ==
    [step : {"commit"}, kind : {"edit"}, account : ProviderAccount, file : Secret,
     has : Login \cup {Garbage}]
ValidateWork == [step : {"validate"}, kind : {"validate"}, account : ProviderAccount]
JudgeWork ==
    [step : {"settle"}, kind : {"import", "save", "revert", "clear", "validate"},
     account : ProviderAccount, file : SecretOrNone, state : Health]

CompanionWork == ImportWork \cup {w \in JudgeWork : w.kind = "import"} \cup {NoCommand}
WindowWork ==
    SaveWork \cup RevertWork \cup ClearWork \cup DeleteWork \cup EditWork \cup ValidateWork
      \cup {w \in JudgeWork : w.kind # "import"} \cup {NoCommand}

CommandTypes ==
    /\ DOMAIN command = Caller
    /\ command["companion"] \in CompanionWork
    /\ command["window"] \in WindowWork
    /\ \A c \in Caller : command[c].step = "settle" /\ command[c].state = "ready" => command[c].file # NoSecret
    /\ command["window"].step = "commit" /\ command["window"].kind = "edit" =>
          command["window"].file \in 1..written

SessionsTypes ==
    /\ SessionsTypeOK
    /\ CommandTypes
    /\ user # NoUse => user.account \in ProviderAccount /\ user.file \in Secret

\* The files an account's rows name, and those of a command that no row names.
Files(a) == {session[a], imports[a].backup} \ {NoSecret}
Loose(w) ==
    CASE w.step = "commit" /\ w.kind \in {"import", "save"} -> {w.new}
      [] w.step = "clean" /\ w.kind = "import" -> Superseded(w)
      [] w.step = "clean" /\ w.kind = "save" -> OldFile(w)
      [] OTHER -> {}

\* An account that is gone names no file, a backup is that of an import, no file is
\* named before it was written, and an account that the window works on is there.
RowsOK ==
    /\ \A a \in ProviderAccount :
          /\ Files(a) \subseteq 1..written
          /\ imports[a].backup # NoSecret => imports[a].kept
          /\ a \notin accounts => Files(a) = {}
    /\ \A c \in Caller : Loose(command[c]) \subseteq 1..written
    /\ command["window"].step \in {"commit", "clean", "rows"} => command["window"].account \in accounts

AtWork(c, a) == command[c] # NoCommand /\ command[c].account = a

\* A command's work is about the rows as they are.
UpToDate(w) ==
    w.step = "commit" =>
        /\ w.kind \in {"import", "save", "revert"} => w.old = session[w.account]
        /\ w.kind \in {"import", "revert"} => w.row = imports[w.account]
        /\ w.kind = "save" => w.backup = imports[w.account].backup
        /\ w.kind = "edit" => w.file = session[w.account]
        /\ w.kind = "revert" => w.row.backup # NoSecret

FilesApart ==
    /\ \A a \in ProviderAccount : \A b \in ProviderAccount \ {a} : Files(a) \cap Files(b) = {}
    /\ \A c \in Caller, a \in ProviderAccount : Loose(command[c]) \cap Files(a) = {}
    /\ Loose(command["companion"]) \cap Loose(command["window"]) = {}
    /\ \A a \in ProviderAccount :
          AtWork("companion", a) /\ AtWork("window", a) =>
              command["window"].step \in {"validate", "settle"}
    /\ \A c \in Caller : UpToDate(command[c])

Owned == SessionsTypes /\ RowsOK /\ FilesApart
OwnedUnlessCrossed == "crossed" \notin accidents => Owned

\* The files of an account that its rows are about to forget may be gone.
Forgetting(a) == command["window"].step = "rows" /\ command["window"].account = a

Whole(a) ==
    ~Forgetting(a) =>
        /\ \A f \in Files(a) : Readable(f)
        /\ imports[a].backup # NoSecret => SessionOf(imports[a].backup) = replaced[a]

\* What a command is about to put into a row, or into a file, is whole.
WorkWhole(w) ==
    w.step = "commit" =>
        /\ w.kind \in {"import", "save"} => Readable(w.new)
        /\ w.kind = "edit" => Readable(w.file) /\ w.has = secrets[w.file]

FilesWhole ==
    NoneOf({"crossed", "wiped", "torn"}) =>
        /\ \A a \in ProviderAccount : Whole(a)
        /\ \A c \in Caller : WorkWhole(command[c])

Gone(a) == Files(a) \cap DOMAIN secrets = {}
Claimed(f) ==
    \/ \E a \in ProviderAccount : f \in Files(a)
    \/ \E c \in Caller : f \in Loose(command[c])

NoneStray ==
    NoneOf({"crossed", "left", "wiped"}) =>
        /\ \A f \in DOMAIN secrets : Claimed(f)
        /\ \A a \in ProviderAccount : Forgetting(a) => Gone(a)

\* A command has changed an account's session and its verdict is to come.
Judging(w, a) ==
    w.step \in {"clean", "validate", "settle"} /\ w.kind # "validate" /\ w.account = a

Judged(a) ==
    (\A c \in Caller : ~Judging(command[c], a)) /\ health[a] = "ready" =>
        session[a] # NoSecret /\ judged[a] = session[a]

HealthJudged == NoneOf({"late", "declared", "unjudged"}) => \A a \in accounts : Judged(a)

\* What a command is at tells what it knows.
LEMMA WorkKnown ==
    ASSUME SessionsTypes
    PROVE  /\ \A at \in {"commit", "clean"} : Performing("companion", "import", at) => command["companion"] \in ImportWork
           /\ \A at \in {"commit", "clean"} : Performing("window", "save", at) => command["window"] \in SaveWork
           /\ Performing("window", "revert", "commit") => command["window"] \in RevertWork
           /\ Performing("window", "clear", "rows") => command["window"] \in ClearWork
           /\ Performing("window", "delete", "rows") => command["window"] \in DeleteWork
           /\ Performing("window", "edit", "commit") => command["window"] \in EditWork
BY DEF SessionsTypes, CommandTypes, Performing, CompanionWork, WindowWork, ImportWork, SaveWork, RevertWork, ClearWork,
       DeleteWork, EditWork, ValidateWork, JudgeWork, NoCommand

\* What is true of every command but an idle one.
LEMMA WorkTypes ==
    ASSUME SessionsTypes, NEW c \in Caller
    PROVE  /\ command[c].step = "idle" <=> command[c] = NoCommand
           /\ command[c].step \in {"idle", "commit", "clean", "rows", "validate", "settle"}
           /\ command[c] # NoCommand => command[c].account \in ProviderAccount
           /\ command[c].step = "validate" =>
                 command[c].kind \in (IF c = "companion" THEN {"import"} ELSE {"save", "revert", "clear", "validate"})
           /\ command[c].step = "settle" => command[c] \in JudgeWork
           /\ command[c].step = "rows" => c = "window"
<1>1. CASE c = "companion"
  BY <1>1 DEF SessionsTypes, CommandTypes, CompanionWork, ImportWork, JudgeWork, NoCommand
<1>2. CASE c = "window"
  BY <1>2 DEF SessionsTypes, CommandTypes, WindowWork, SaveWork, RevertWork, ClearWork, DeleteWork, EditWork,
              ValidateWork, JudgeWork, NoCommand
<1> QED  BY <1>1, <1>2 DEF Caller

\* A command that goes on keeps what it knows.
LEMMA ImportAdvances ==
    ASSUME NEW w \in ImportWork, NEW next \in {"clean", "validate"}
    PROVE  /\ [w EXCEPT !.step = next] \in ImportWork
           /\ [w EXCEPT !.step = next].step = next /\ [w EXCEPT !.step = next].kind = "import"
           /\ [w EXCEPT !.step = next].account = w.account
           /\ [w EXCEPT !.step = next].old = w.old /\ [w EXCEPT !.step = next].row = w.row
BY DEF ImportWork

LEMMA SaveAdvances ==
    ASSUME NEW w \in SaveWork, NEW next \in {"clean", "validate"}
    PROVE  /\ [w EXCEPT !.step = next] \in SaveWork
           /\ [w EXCEPT !.step = next].step = next /\ [w EXCEPT !.step = next].kind = "save"
           /\ [w EXCEPT !.step = next].account = w.account
           /\ [w EXCEPT !.step = next].old = w.old /\ [w EXCEPT !.step = next].backup = w.backup
BY DEF SaveWork

LEMMA RevertAdvances ==
    ASSUME NEW w \in RevertWork
    PROVE  /\ [w EXCEPT !.step = "validate"] \in RevertWork
           /\ [w EXCEPT !.step = "validate"].step = "validate" /\ [w EXCEPT !.step = "validate"].kind = "revert"
           /\ [w EXCEPT !.step = "validate"].account = w.account
BY DEF RevertWork

LEMMA ClearAdvances ==
    ASSUME NEW w \in ClearWork
    PROVE  /\ [w EXCEPT !.step = "validate"] \in ClearWork
           /\ [w EXCEPT !.step = "validate"].step = "validate" /\ [w EXCEPT !.step = "validate"].kind = "clear"
           /\ [w EXCEPT !.step = "validate"].account = w.account
BY DEF ClearWork

LEMMA SessionsTypesInit == SessionsInit => SessionsTypes
<1> SUFFICES ASSUME SessionsInit PROVE SessionsTypes
  OBVIOUS
<1>1. SessionsTypeOK
  <2>1. NoImport \in ImportRow
    BY DEF NoImport, ImportRow
  <2>2. health \in [ProviderAccount -> Health]
    BY DEF SessionsInit, Health
  <2>3. session \in [ProviderAccount -> Secret \cup {NoSecret}] /\ written \in 1..MaxSecrets
        /\ given \in 0..MaxCommands
    BY SessionsAssumption DEF SessionsInit, Secret, NoSecret
  <2> QED  BY <2>1, <2>2, <2>3, SessionsAssumption DEF SessionsInit, SessionsTypeOK, NoCommand, Caller
<1> QED
  BY <1>1 DEF SessionsInit, SessionsTypes, CommandTypes, CompanionWork, WindowWork, NoCommand, Caller, NoUse

LEMMA TypesRest ==
    ASSUME SessionsTypes,
           accounts' \subseteq ProviderAccount, bound' \subseteq accounts',
           health' \in [ProviderAccount -> Health],
           session' \in [ProviderAccount -> Secret \cup {NoSecret}],
           imports' \in [ProviderAccount -> ImportRow],
           DOMAIN secrets' \subseteq 1..written',
           \A f \in DOMAIN secrets' : secrets'[f] \in Login \cup {Garbage},
           written' \in 1..MaxSecrets, written <= written',
           CommandTypes',
           user' # NoUse => user'.account \in ProviderAccount /\ user'.file \in Secret,
           judged' \in [ProviderAccount -> Secret \cup {NoSecret}],
           replaced' \in [ProviderAccount -> Login \cup {NoLogin, Garbage}],
           accidents' \subseteq Accident, given' \in 0..MaxCommands
    PROVE  SessionsTypes'
<1>1. \A c \in Caller : command'[c].step \in {"idle", "commit", "clean", "rows", "validate", "settle"}
  BY DEF CommandTypes, Caller, CompanionWork, WindowWork, ImportWork, SaveWork, RevertWork, ClearWork, DeleteWork,
         EditWork, ValidateWork, JudgeWork, NoCommand
<1> QED  BY <1>1 DEF SessionsTypes, SessionsTypeOK

\* A command that ends is idle.
LEMMA EndTypes ==
    ASSUME SessionsTypes, NEW c \in Caller, End(c), 1..written \subseteq 1..written'
    PROVE  /\ command'[c] = NoCommand
           /\ \A d \in Caller \ {c} : command'[d] = command[d]
           /\ CommandTypes'
<1>1. NoCommand.step = "idle"
  BY DEF NoCommand
<1> QED  BY <1>1 DEF End, SessionsTypes, CommandTypes, CompanionWork, WindowWork, Caller

\* So is a command that starts, or goes on, with the work it has.
LEMMA WorkOnTypes ==
    ASSUME SessionsTypes, NEW c \in Caller, NEW w,
           command' = [command EXCEPT ![c] = w], 1..written \subseteq 1..written',
           w \in (IF c = "companion" THEN CompanionWork ELSE WindowWork),
           w.step = "settle" /\ w.state = "ready" => w.file # NoSecret,
           w.step = "commit" /\ w.kind = "edit" => w.file \in 1..written
    PROVE  /\ command'[c] = w
           /\ \A d \in Caller \ {c} : command'[d] = command[d]
           /\ CommandTypes'
<1>1. CASE c = "companion"
  BY <1>1 DEF SessionsTypes, CommandTypes, Caller
<1>2. CASE c = "window"
  BY <1>2 DEF SessionsTypes, CommandTypes, Caller
<1> QED  BY <1>1, <1>2 DEF Caller

\* A removal that may fail keeps the types.
LEMMA DiscardedTypes ==
    ASSUME SessionsTypes, NEW files, Discarded(files)
    PROVE  /\ DOMAIN secrets' \subseteq 1..written
           /\ \A f \in DOMAIN secrets' : secrets'[f] \in Login \cup {Garbage}
           /\ accidents' \subseteq Accident
<1>1. DOMAIN secrets' \subseteq DOMAIN secrets /\ \A g \in DOMAIN secrets' : secrets'[g] = secrets[g]
  BY DEF Discarded, Without
<1>2. accidents' \subseteq Accident
  <2>1. accidents \subseteq Accident /\ "left" \in Accident
    BY DEF SessionsTypes, SessionsTypeOK, Accident
  <2> QED  BY <2>1 DEF Discarded
<1>3. DOMAIN secrets \subseteq 1..written /\ \A f \in DOMAIN secrets : secrets[f] \in Login \cup {Garbage}
  BY DEF SessionsTypes, SessionsTypeOK
<1> QED  BY <1>1, <1>2, <1>3

LEMMA NotedTypes ==
    ASSUME SessionsTypes, NEW c, NEW a, Noting(c, a)
    PROVE  accidents' \subseteq Accident /\ accidents \subseteq accidents'
BY DEF Noting, SessionsTypes, SessionsTypeOK, Accident

\* A new file.
LEMMA StoredTypes ==
    ASSUME SessionsTypes, NEW who \in Login, written < MaxSecrets, written' = written + 1,
           secrets' = WithSecret(written + 1, who)
    PROVE  /\ written' \in 1..MaxSecrets /\ written <= written' /\ written + 1 \in Secret
           /\ 1..written \subseteq 1..written'
           /\ DOMAIN secrets' \subseteq 1..written'
           /\ \A f \in DOMAIN secrets' : secrets'[f] \in Login \cup {Garbage}
<1>1. written \in Nat /\ MaxSecrets \in Nat /\ written \in 1..MaxSecrets
  BY SessionsAssumption DEF SessionsTypes, SessionsTypeOK
<1>2. DOMAIN secrets' = DOMAIN secrets \cup {written + 1}
      /\ \A g \in DOMAIN secrets' : secrets'[g] = IF g = written + 1 THEN who ELSE secrets[g]
  BY DEF WithSecret
<1>3. DOMAIN secrets \subseteq 1..written
  BY DEF SessionsTypes, SessionsTypeOK
<1> QED  BY <1>1, <1>2, <1>3 DEF SessionsTypes, SessionsTypeOK, Secret

LEMMA CompanionTypeStep == ASSUME SessionsTypes, CompanionStep PROVE SessionsTypes'
<1>0. SessionsTypeOK /\ "companion" \in Caller /\ written \in Nat /\ MaxSecrets \in Nat /\ written <= written
      /\ MaxCommands \in Nat
  BY SessionsAssumption DEF SessionsTypes, SessionsTypeOK, Caller
<1>1. ASSUME NEW a \in ProviderAccount, NEW who \in Login, ImportCapture(a, who) PROVE SessionsTypes'
  <2> DEFINE w == [step |-> "commit", kind |-> "import", account |-> a, new |-> written + 1, who |-> who,
                   created |-> a \notin accounts, old |-> session[a], row |-> imports[a]]
  <2>1. written' \in 1..MaxSecrets /\ written <= written' /\ written + 1 \in Secret
        /\ 1..written \subseteq 1..written' /\ DOMAIN secrets' \subseteq 1..written'
        /\ \A f \in DOMAIN secrets' : secrets'[f] \in Login \cup {Garbage}
    BY <1>1, StoredTypes DEF ImportCapture
  <2>2. w \in ImportWork
    BY <1>0, <2>1 DEF SessionsTypeOK, ImportWork, SecretOrNone
  <2>3. command' = [command EXCEPT !["companion"] = w] /\ given' \in 0..MaxCommands
    BY <1>0, <1>1 DEF ImportCapture, Begin, SessionsTypeOK
  <2>4. w.step = "commit" /\ w.kind = "import" /\ w \in CompanionWork
    BY <2>2 DEF CompanionWork
  <2> HIDE DEF w
  <2>5. CommandTypes'
    BY <1>0, <2>1, <2>3, <2>4, WorkOnTypes
  <2>6. accidents' \subseteq Accident
    BY <1>1, NotedTypes DEF ImportCapture
  <2> QED
    BY <1>0, <1>1, <2>1, <2>3, <2>5, <2>6, TypesRest DEF ImportCapture, SessionsTypes, SessionsTypeOK
<1>2. CASE ImportCommit
  <2> DEFINE w == command["companion"]
             v == [w EXCEPT !.step = "clean"]
  <2>1. w \in ImportWork
    BY <1>2, WorkKnown DEF ImportCommit
  <2>2. CASE Discarded({w.new}) /\ End("companion") /\ UNCHANGED <<accounts, health, session, imports, replaced>>
    BY <1>0, <1>2, <2>2, EndTypes, DiscardedTypes, TypesRest DEF ImportCommit, SessionsTypes, SessionsTypeOK
  <2>3. CASE ~(Discarded({w.new}) /\ End("companion") /\ UNCHANGED <<accounts, health, session, imports, replaced>>)
    <3>1. /\ accounts' = accounts \cup {w.account}
          /\ health' = IF w.created THEN [health EXCEPT ![w.account] = "ready"] ELSE health
          /\ session' = [session EXCEPT ![w.account] = w.new]
          /\ imports' = [imports EXCEPT ![w.account] = ImportRowOf(w)]
          /\ replaced' = [replaced EXCEPT ![w.account] = SessionOf(session[w.account])]
          /\ command' = [command EXCEPT !["companion"] = v]
          /\ UNCHANGED <<secrets, accidents, written>>
      BY <1>2, <2>3 DEF ImportCommit, Then
    <3>2. v \in CompanionWork /\ v.step = "clean"
      BY <2>1, ImportAdvances DEF CompanionWork
    <3>3. ImportRowOf(w) \in ImportRow
      BY <2>1 DEF ImportWork, ImportRowOf, Backup, ImportRow, SecretOrNone
    <3>4. SessionOf(session[w.account]) \in Login \cup {NoLogin, Garbage}
      BY <1>0 DEF SessionOf, SessionsTypeOK
    <3>5. w.account \in ProviderAccount /\ w.new \in Secret
      BY <2>1 DEF ImportWork
    <3> HIDE DEF w, v
    <3>6. CommandTypes'
      BY <1>0, <3>1, <3>2, WorkOnTypes
    <3> QED
      BY <1>0, <1>2, <3>1, <3>3, <3>4, <3>5, <3>6, TypesRest
      DEF ImportCommit, SessionsTypes, SessionsTypeOK, Health
  <2> QED  BY <2>2, <2>3
<1>3. CASE ImportClean
  <2> DEFINE w == command["companion"]
             v == [w EXCEPT !.step = "validate"]
  <2>1. w \in ImportWork
    BY <1>3, WorkKnown DEF ImportClean
  <2>2. v \in CompanionWork /\ v.step = "validate"
    BY <2>1, ImportAdvances DEF CompanionWork
  <2>3. command' = [command EXCEPT !["companion"] = v] /\ Discarded(Superseded(w)) /\ written' = written
    BY <1>3 DEF ImportClean, Validated, Then
  <2> HIDE DEF w, v
  <2>4. CommandTypes'
    BY <1>0, <2>2, <2>3, WorkOnTypes
  <2> QED
    BY <1>0, <1>3, <2>3, <2>4, DiscardedTypes, TypesRest DEF ImportClean, SessionsTypes, SessionsTypeOK
<1> QED  BY <1>1, <1>2, <1>3 DEF CompanionStep

LEMMA WindowTypeStep == ASSUME SessionsTypes, WindowStep PROVE SessionsTypes'
<1>0. SessionsTypeOK /\ "window" \in Caller /\ written \in Nat /\ MaxSecrets \in Nat /\ written <= written
      /\ MaxCommands \in Nat
  BY SessionsAssumption DEF SessionsTypes, SessionsTypeOK, Caller
<1>a. \A kinds \in SUBSET Accident : accidents \cup kinds \subseteq Accident
  BY <1>0 DEF SessionsTypeOK
<1>1. ASSUME NEW a \in ProviderAccount, NEW who \in Login, SaveCookies(a, who) PROVE SessionsTypes'
  <2> DEFINE w == [step |-> "commit", kind |-> "save", account |-> a, new |-> written + 1,
                   old |-> session[a], backup |-> imports[a].backup]
  <2>1. written' \in 1..MaxSecrets /\ written <= written' /\ written + 1 \in Secret
        /\ 1..written \subseteq 1..written' /\ DOMAIN secrets' \subseteq 1..written'
        /\ \A f \in DOMAIN secrets' : secrets'[f] \in Login \cup {Garbage}
    BY <1>1, StoredTypes DEF SaveCookies
  <2>2. w \in SaveWork
    BY <1>0, <2>1 DEF SessionsTypeOK, SaveWork, SecretOrNone, ImportRow
  <2>3. command' = [command EXCEPT !["window"] = w] /\ given' \in 0..MaxCommands
    BY <1>0, <1>1 DEF SaveCookies, Begin, SessionsTypeOK
  <2>4. w.step = "commit" /\ w.kind = "save" /\ w \in WindowWork
    BY <2>2 DEF WindowWork
  <2> HIDE DEF w
  <2>5. CommandTypes'
    BY <1>0, <2>1, <2>3, <2>4, WorkOnTypes
  <2>6. accidents' \subseteq Accident
    BY <1>1, NotedTypes DEF SaveCookies
  <2> QED
    BY <1>0, <1>1, <2>1, <2>3, <2>5, <2>6, TypesRest DEF SaveCookies, SessionsTypes, SessionsTypeOK
<1>2. ASSUME NEW a \in ProviderAccount, Revert(a) PROVE SessionsTypes'
  <2> DEFINE w == [step |-> "commit", kind |-> "revert", account |-> a, old |-> session[a], row |-> imports[a]]
  <2>2. w \in RevertWork
    BY <1>0 DEF SessionsTypeOK, RevertWork, SecretOrNone
  <2>3. command' = [command EXCEPT !["window"] = w] /\ given' \in 0..MaxCommands /\ written' = written
    BY <1>0, <1>2 DEF Revert, Begin, SessionsTypeOK
  <2>4. w.step = "commit" /\ w.kind = "revert" /\ w \in WindowWork
    BY <2>2 DEF WindowWork
  <2> HIDE DEF w
  <2>5. CommandTypes'
    BY <1>0, <2>3, <2>4, WorkOnTypes
  <2>6. accidents' \subseteq Accident
    BY <1>2, NotedTypes DEF Revert
  <2> QED
    BY <1>0, <1>2, <2>3, <2>5, <2>6, TypesRest DEF Revert, SessionsTypes, SessionsTypeOK
<1>3. ASSUME NEW a \in ProviderAccount, Clear(a) PROVE SessionsTypes'
  <2> DEFINE w == [step |-> "rows", kind |-> "clear", account |-> a]
  <2>2. w \in ClearWork
    BY DEF ClearWork
  <2>3. command' = [command EXCEPT !["window"] = w] /\ given' \in 0..MaxCommands /\ written' = written
    BY <1>0, <1>3 DEF Clear, Begin, SessionsTypeOK
  <2>4. w.step = "rows" /\ w \in WindowWork
    BY <2>2 DEF WindowWork
  <2> HIDE DEF w
  <2>5. CommandTypes'
    BY <1>0, <2>3, <2>4, WorkOnTypes
  <2>6. accidents' \subseteq Accident
    BY <1>0, <1>3 DEF Clear, Noting, SessionsTypeOK, Accident
  <2>7. DOMAIN secrets' \subseteq DOMAIN secrets /\ \A f \in DOMAIN secrets' : secrets'[f] = secrets[f]
    BY <1>3 DEF Clear, Without
  <2> QED
    BY <1>0, <1>3, <2>3, <2>5, <2>6, <2>7, TypesRest DEF Clear, SessionsTypes, SessionsTypeOK
<1>4. ASSUME NEW a \in ProviderAccount, Delete(a) PROVE SessionsTypes'
  <2> DEFINE w == [step |-> "rows", kind |-> "delete", account |-> a]
  <2>2. w \in DeleteWork
    BY DEF DeleteWork
  <2>3. command' = [command EXCEPT !["window"] = w] \/ command' = command
    BY <1>4 DEF Delete
  <2>4. w.step = "rows" /\ w \in WindowWork
    BY <2>2 DEF WindowWork
  <2> HIDE DEF w
  <2>8. given' \in 0..MaxCommands /\ written' = written
    BY <1>0, <1>4 DEF Delete, SessionsTypeOK
  <2>5. CommandTypes'
    <3>1. CASE command' = [command EXCEPT !["window"] = w]
      BY <1>0, <2>4, <2>8, <3>1, WorkOnTypes
    <3>2. CASE command' = command
      BY <2>8, <3>2 DEF SessionsTypes, CommandTypes
    <3> QED  BY <2>3, <3>1, <3>2
  <2>6. accidents' \subseteq Accident
    BY <1>0, <1>4 DEF Delete, Noting, SessionsTypeOK, Accident
  <2>7. DOMAIN secrets' \subseteq DOMAIN secrets /\ \A f \in DOMAIN secrets' : secrets'[f] = secrets[f]
    BY <1>4 DEF Delete, Without
  <2> QED
    BY <1>0, <1>4, <2>5, <2>6, <2>7, <2>8, TypesRest DEF Delete, SessionsTypes, SessionsTypeOK
<1>5. ASSUME NEW a \in ProviderAccount, EditHeaders(a) PROVE SessionsTypes'
  <2> DEFINE w == [step |-> "commit", kind |-> "edit", account |-> a, file |-> session[a],
                   has |-> secrets[session[a]]]
  <2>1. session[a] \in DOMAIN secrets
    BY <1>5 DEF EditHeaders, Readable
  <2>2. session[a] \in Secret /\ session[a] \in 1..written /\ secrets[session[a]] \in Login \cup {Garbage}
    BY <1>0, <2>1 DEF SessionsTypeOK, Secret
  <2>3. command' = [command EXCEPT !["window"] = w] /\ given' \in 0..MaxCommands /\ written' = written
    BY <1>0, <1>5 DEF EditHeaders, Begin, SessionsTypeOK
  <2>4. w.step = "commit" /\ w \in EditWork /\ w.file \in 1..written
    BY <2>2 DEF EditWork
  <2> HIDE DEF w
  <2>5. CommandTypes'
    BY <1>0, <2>3, <2>4, WorkOnTypes DEF WindowWork
  <2>6. accidents' \subseteq Accident
    BY <1>5, NotedTypes DEF EditHeaders
  <2> QED
    BY <1>0, <1>5, <2>3, <2>5, <2>6, TypesRest DEF EditHeaders, SessionsTypes, SessionsTypeOK
<1>6. ASSUME NEW a \in ProviderAccount, Validate(a) PROVE SessionsTypes'
  <2> DEFINE w == [step |-> "validate", kind |-> "validate", account |-> a]
  <2>3. command' = [command EXCEPT !["window"] = w] /\ given' \in 0..MaxCommands /\ written' = written
    BY <1>0, <1>6 DEF Validate, Begin, SessionsTypeOK
  <2>4. w.step = "validate" /\ w \in ValidateWork
    BY DEF ValidateWork
  <2> HIDE DEF w
  <2>5. CommandTypes'
    BY <1>0, <2>3, <2>4, WorkOnTypes DEF WindowWork
  <2> QED
    BY <1>0, <1>6, <2>3, <2>5, TypesRest DEF Validate, SessionsTypes, SessionsTypeOK
<1>7. CASE SaveCommit
  <2> DEFINE w == command["window"]
             v == [w EXCEPT !.step = "clean"]
  <2>1. w \in SaveWork
    BY <1>7, WorkKnown DEF SaveCommit
  <2>2. CASE Discarded({w.new}) /\ End("window") /\ UNCHANGED session
    BY <1>0, <1>7, <2>2, EndTypes, DiscardedTypes, TypesRest DEF SaveCommit, SessionsTypes, SessionsTypeOK
  <2>3. CASE session' = [session EXCEPT ![w.account] = w.new] /\ Then("window", "clean")
             /\ UNCHANGED <<secrets, accidents>>
    <3>2. v \in WindowWork /\ v.step = "clean"
      BY <2>1, SaveAdvances DEF WindowWork
    <3>3. command' = [command EXCEPT !["window"] = v] /\ written' = written
      BY <1>7, <2>3 DEF SaveCommit, Then
    <3>5. w.account \in ProviderAccount /\ w.new \in Secret
      BY <2>1 DEF SaveWork
    <3> HIDE DEF w, v
    <3>6. CommandTypes'
      BY <1>0, <3>2, <3>3, WorkOnTypes
    <3> QED
      BY <1>0, <1>7, <2>3, <3>5, <3>6, TypesRest DEF SaveCommit, SessionsTypes, SessionsTypeOK
  <2> QED  BY <1>7, <2>2, <2>3 DEF SaveCommit
<1>8. CASE SaveClean
  <2> DEFINE w == command["window"]
             v == [w EXCEPT !.step = "validate"]
  <2>1. w \in SaveWork
    BY <1>8, WorkKnown DEF SaveClean
  <2>2. v \in WindowWork /\ v.step = "validate"
    BY <2>1, SaveAdvances DEF WindowWork
  <2>3. command' = [command EXCEPT !["window"] = v] /\ Discarded(OldFile(w)) /\ written' = written
    BY <1>8 DEF SaveClean, Validated, Then
  <2> HIDE DEF w, v
  <2>4. CommandTypes'
    BY <1>0, <2>2, <2>3, WorkOnTypes
  <2> QED
    BY <1>0, <1>8, <2>3, <2>4, DiscardedTypes, TypesRest DEF SaveClean, SessionsTypes, SessionsTypeOK
<1>9. CASE RevertCommit
  <2> DEFINE w == command["window"]
             v == [w EXCEPT !.step = "validate"]
  <2>1. w \in RevertWork
    BY <1>9, WorkKnown DEF RevertCommit
  <2>2. CASE End("window") /\ UNCHANGED <<session, imports, replaced>>
    BY <1>0, <1>9, <2>2, EndTypes, TypesRest DEF RevertCommit, SessionsTypes, SessionsTypeOK
  <2>3. CASE ~(End("window") /\ UNCHANGED <<session, imports, replaced>>)
    <3> DEFINE new == IF imports[w.account].kept
                      THEN [kept |-> TRUE, who |-> w.row.backup_who, backup |-> w.old, backup_who |-> w.row.who]
                      ELSE imports[w.account]
    <3>1. /\ session' = [session EXCEPT ![w.account] = w.row.backup]
          /\ imports' = [imports EXCEPT ![w.account] = new]
          /\ replaced' = [replaced EXCEPT ![w.account] = SessionOf(session[w.account])]
          /\ command' = [command EXCEPT !["window"] = v] /\ written' = written
      BY <1>9, <2>3 DEF RevertCommit, Validated, Then
    <3>2. v \in WindowWork /\ v.step = "validate"
      BY <2>1, RevertAdvances DEF WindowWork
    <3>3. w.account \in ProviderAccount /\ w.row.backup \in Secret \cup {NoSecret} /\ new \in ImportRow
      BY <1>0, <2>1 DEF RevertWork, ImportRow, SecretOrNone, SessionsTypeOK
    <3>4. SessionOf(session[w.account]) \in Login \cup {NoLogin, Garbage}
      BY <1>0 DEF SessionOf, SessionsTypeOK
    <3> HIDE DEF w, v, new
    <3>6. CommandTypes'
      BY <1>0, <3>1, <3>2, WorkOnTypes
    <3> QED
      BY <1>0, <1>9, <3>1, <3>3, <3>4, <3>6, TypesRest DEF RevertCommit, SessionsTypes, SessionsTypeOK
  <2> QED  BY <2>2, <2>3
<1>10. CASE ClearRows
  <2> DEFINE w == command["window"]
             v == [w EXCEPT !.step = "validate"]
  <2>1. w \in ClearWork
    BY <1>10, WorkKnown DEF ClearRows
  <2>2. v \in WindowWork /\ v.step = "validate"
    BY <2>1, ClearAdvances DEF WindowWork
  <2>3. command' = [command EXCEPT !["window"] = v] /\ written' = written
    BY <1>10 DEF ClearRows, Validated, Then
  <2>5. NoImport \in ImportRow
    BY DEF NoImport, ImportRow
  <2> HIDE DEF w, v
  <2>4. CommandTypes'
    BY <1>0, <2>2, <2>3, WorkOnTypes
  <2> QED
    BY <1>0, <1>10, <2>4, <2>5, TypesRest DEF ClearRows, SessionsTypes, SessionsTypeOK
<1>11. CASE DeleteRow
  <2>1. NoImport \in ImportRow
    BY DEF NoImport, ImportRow
  <2>2. CommandTypes'
    BY <1>0, <1>11, EndTypes DEF DeleteRow
  <2>3. accidents' \subseteq Accident
    BY <1>0, <1>11 DEF DeleteRow, SessionsTypeOK, Accident
  <2>4. accounts' \subseteq ProviderAccount /\ bound' \subseteq accounts'
        /\ session' \in [ProviderAccount -> Secret \cup {NoSecret}] /\ imports' \in [ProviderAccount -> ImportRow]
    BY <1>0, <1>11, <2>1 DEF DeleteRow, SessionsTypeOK
  <2> QED
    BY <1>0, <1>11, <2>2, <2>3, <2>4, TypesRest DEF DeleteRow, SessionsTypes, SessionsTypeOK
<1>12. CASE EditCommit
  <2> DEFINE w == command["window"]
  <2>1. w \in EditWork /\ w.file \in 1..written
    BY <1>12, WorkKnown DEF EditCommit, Performing, SessionsTypes, CommandTypes
  <2>2. CommandTypes'
    BY <1>0, <1>12, EndTypes DEF EditCommit
  <2>3. DOMAIN secrets' = DOMAIN secrets \cup {w.file}
        /\ \A f \in DOMAIN secrets' : secrets'[f] \in {w.has, secrets[f]} /\ (f # w.file => f \in DOMAIN secrets)
        /\ secrets'[w.file] = w.has
    BY <1>12 DEF EditCommit, WithSecret
  <2>4. \A f \in DOMAIN secrets' : secrets'[f] \in Login \cup {Garbage}
    BY <1>0, <2>1, <2>3 DEF EditWork, SessionsTypeOK
  <2>5. DOMAIN secrets' \subseteq 1..written
    BY <1>0, <2>1, <2>3 DEF SessionsTypeOK
  <2> QED
    BY <1>0, <1>12, <2>2, <2>4, <2>5, TypesRest DEF EditCommit, SessionsTypes, SessionsTypeOK
<1> QED
  BY <1>1, <1>2, <1>3, <1>4, <1>5, <1>6, <1>7, <1>8, <1>9, <1>10, <1>11, <1>12 DEF WindowStep

LEMMA AccountTypeStep == ASSUME SessionsTypes, AccountStep PROVE SessionsTypes'
<1>0. SessionsTypeOK /\ CommandTypes /\ written \in Nat /\ written <= written /\ MaxCommands \in Nat
  BY SessionsAssumption DEF SessionsTypes, SessionsTypeOK
<1>1. ASSUME NEW a \in ProviderAccount, NEW state \in Health, SaveAccount(a, state) PROVE SessionsTypes'
  <2>1. accidents' \subseteq Accident
    BY <1>0, <1>1 DEF SaveAccount, SessionsTypeOK, Accident
  <2>2. given' \in 0..MaxCommands
    BY <1>0, <1>1 DEF SaveAccount, SessionsTypeOK
  <2>3. accounts' \subseteq ProviderAccount /\ bound' \subseteq accounts'
        /\ health' \in [ProviderAccount -> Health]
    BY <1>0, <1>1 DEF SaveAccount, SessionsTypeOK
  <2>4. CommandTypes'
    BY <1>0, <1>1 DEF SaveAccount, CommandTypes
  <2> QED
    BY <1>0, <1>1, <2>1, <2>2, <2>3, <2>4, TypesRest DEF SaveAccount, SessionsTypes, SessionsTypeOK
<1>2. ASSUME NEW a \in ProviderAccount, Bind(a) PROVE SessionsTypes'
  <2>1. bound' \subseteq accounts
    BY <1>0, <1>2 DEF Bind, SessionsTypeOK
  <2> QED  BY <1>2, <2>1 DEF Bind, SessionsTypes, SessionsTypeOK, CommandTypes
<1>3. ASSUME NEW a \in ProviderAccount, UseSession(a) PROVE SessionsTypes'
  <2>1. session[a] \in Secret
    BY <1>0, <1>3 DEF UseSession, Readable, SessionsTypeOK, Secret, NoSecret
  <2>2. user'.account \in ProviderAccount /\ user'.file \in Secret
    BY <1>3, <2>1 DEF UseSession
  <2> QED  BY <1>3, <2>2 DEF UseSession, SessionsTypes, SessionsTypeOK, CommandTypes
<1>4. Drafts \subseteq Health
  BY SessionsAssumption DEF Health
<1> QED
  BY <1>0, <1>1, <1>2, <1>3, <1>4 DEF AccountStep, CloneAccount, SessionsTypeOK

LEMMA VerdictTypes ==
    ASSUME SessionsTypes, NEW f
    PROVE  Verdict_of(f) \in Health /\ (Verdict_of(f) = "ready" => f # NoSecret)
BY DEF Verdict_of, Health

LEMMA JudgeTypes ==
    ASSUME SessionsTypes, NEW a \in ProviderAccount, NEW f \in Secret \cup {NoSecret}, NEW state \in Health,
           Judge(a, f, state)
    PROVE  /\ health' \in [ProviderAccount -> Health]
           /\ judged' \in [ProviderAccount -> Secret \cup {NoSecret}]
           /\ accidents' \subseteq Accident
<1>1. accidents \subseteq Accident /\ "late" \in Accident
  BY DEF SessionsTypes, SessionsTypeOK, Accident
<1> QED  BY <1>1 DEF Judge, SessionsTypes, SessionsTypeOK

LEMMA VerdictTypeStep ==
    ASSUME SessionsTypes, (\E c \in Caller : ReadSession(c) \/ SettleHealth(c)) \/ ReportHealth \/ ProcessEnds
    PROVE  SessionsTypes'
<1>0. SessionsTypeOK /\ CommandTypes /\ written \in Nat /\ written <= written /\ MaxCommands \in Nat
  BY SessionsAssumption DEF SessionsTypes, SessionsTypeOK
<1>1. ASSUME NEW c \in Caller, ReadSession(c) PROVE SessionsTypes'
  <2> DEFINE a == command[c].account
             w == [step |-> "settle", kind |-> command[c].kind, account |-> a, file |-> session[a],
                   state |-> Verdict_of(session[a])]
  <2>1. command[c] # NoCommand /\ a \in ProviderAccount
        /\ command[c].kind \in (IF c = "companion" THEN {"import"} ELSE {"save", "revert", "clear", "validate"})
    BY <1>1, WorkTypes DEF ReadSession, NoCommand
  <2>2. w \in JudgeWork
    BY <1>0, <2>1, VerdictTypes DEF JudgeWork, SessionsTypeOK, SecretOrNone
  <2>3. w.step = "settle" /\ w.kind = command[c].kind /\ (w.state = "ready" => w.file # NoSecret)
    BY VerdictTypes
  <2>4. command' = [command EXCEPT ![c] = w] \/ End(c)
    BY <1>1 DEF ReadSession
  <2>6. w \in (IF c = "companion" THEN CompanionWork ELSE WindowWork)
    BY <2>1, <2>2, <2>3 DEF CompanionWork, WindowWork, Caller
  <2> HIDE DEF w
  <2>7. written' = written
    BY <1>1 DEF ReadSession
  <2>5. CommandTypes'
    <3>1. CASE End(c)  BY <2>7, <3>1, EndTypes
    <3>2. CASE command' = [command EXCEPT ![c] = w]
      BY <2>3, <2>6, <2>7, <3>2, WorkOnTypes
    <3> QED  BY <2>4, <3>1, <3>2
  <2> QED
    BY <1>0, <1>1, <2>5, TypesRest DEF ReadSession, SessionsTypes, SessionsTypeOK
<1>2. ASSUME NEW c \in Caller, SettleHealth(c) PROVE SessionsTypes'
  <2>1. command[c] \in JudgeWork
    BY <1>2, WorkTypes DEF SettleHealth
  <2>2. command[c].account \in ProviderAccount /\ command[c].file \in Secret \cup {NoSecret}
        /\ command[c].state \in Health
    BY <2>1 DEF JudgeWork, SecretOrNone
  <2>3. CommandTypes'
    BY <1>2, EndTypes DEF SettleHealth
  <2>4. health' \in [ProviderAccount -> Health] /\ judged' \in [ProviderAccount -> Secret \cup {NoSecret}]
        /\ accidents' \subseteq Accident
    <3>1. CASE UNCHANGED <<health, judged, accidents>>
      BY <1>0, <3>1 DEF SessionsTypeOK
    <3>2. CASE Judge(command[c].account, command[c].file, command[c].state)
      BY <2>2, <3>2, JudgeTypes
    <3> QED  BY <1>2, <3>1, <3>2 DEF SettleHealth
  <2> QED
    BY <1>0, <1>2, <2>3, <2>4, TypesRest DEF SettleHealth, SessionsTypes, SessionsTypeOK
<1>3. CASE ReportHealth
  <2>2. user.account \in ProviderAccount /\ user.file \in Secret \cup {NoSecret}
    BY <1>3 DEF ReportHealth, SessionsTypes
  <2>3. CommandTypes'
    BY <1>0, <1>3 DEF ReportHealth, CommandTypes
  <2>4. health' \in [ProviderAccount -> Health] /\ judged' \in [ProviderAccount -> Secret \cup {NoSecret}]
        /\ accidents' \subseteq Accident
    <3>1. CASE UNCHANGED <<health, judged, accidents>>
      BY <1>0, <3>1 DEF SessionsTypeOK
    <3>2. ASSUME NEW state \in {"ready", "degraded"}, Judge(user.account, user.file, state)
          PROVE  health' \in [ProviderAccount -> Health] /\ judged' \in [ProviderAccount -> Secret \cup {NoSecret}]
                 /\ accidents' \subseteq Accident
      <4>1. state \in Health  BY DEF Health
      <4> QED  BY <2>2, <3>2, <4>1, JudgeTypes
    <3> QED  BY <1>3, <3>1, <3>2 DEF ReportHealth
  <2> QED
    BY <1>0, <1>3, <2>3, <2>4, TypesRest DEF ReportHealth, SessionsTypes, SessionsTypeOK
<1>4. CASE ProcessEnds
  <2>1. CommandTypes'
    BY <1>4 DEF ProcessEnds, CommandTypes, CompanionWork, WindowWork, NoCommand, Caller
  <2>2. accidents' \subseteq Accident
    BY <1>0, <1>4 DEF ProcessEnds, SessionsTypeOK, Accident
  <2>3. DOMAIN secrets' \subseteq 1..written /\ \A f \in DOMAIN secrets' : secrets'[f] \in Login \cup {Garbage}
    <3>1. CASE secrets' = secrets
      BY <1>0, <3>1 DEF SessionsTypeOK
    <3>2. CASE secrets' # secrets
      <4>1. PICK d \in Caller : Performing(d, "edit", "commit") /\ secrets' = WithSecret(command[d].file, Garbage)
        BY <1>4, <3>2 DEF ProcessEnds
      <4>2. d = "window"
        BY <1>0, <4>1 DEF Performing, CommandTypes, CompanionWork, ImportWork, JudgeWork, NoCommand, Caller
      <4>3. command[d].file \in 1..written
        BY <1>0, <4>1, <4>2 DEF CommandTypes, Performing
      <4>4. DOMAIN secrets' = DOMAIN secrets \cup {command[d].file}
            /\ \A f \in DOMAIN secrets' : secrets'[f] = IF f = command[d].file THEN Garbage ELSE secrets[f]
        BY <4>1 DEF WithSecret
      <4> QED  BY <1>0, <4>3, <4>4 DEF SessionsTypeOK
    <3> QED  BY <3>1, <3>2
  <2> QED
    BY <1>0, <1>4, <2>1, <2>2, <2>3, TypesRest DEF ProcessEnds, SessionsTypes, SessionsTypeOK
<1> QED  BY <1>1, <1>2, <1>3, <1>4

LEMMA SessionsTypesStep == SessionsTypes /\ [SessionsNext]_session_vars => SessionsTypes'
<1> SUFFICES ASSUME SessionsTypes, [SessionsNext]_session_vars PROVE SessionsTypes'
  OBVIOUS
<1>1. CASE UNCHANGED session_vars
  BY <1>1 DEF session_vars, SessionsTypes, SessionsTypeOK, CommandTypes
<1> QED
  BY <1>1, CompanionTypeStep, WindowTypeStep, AccountTypeStep, VerdictTypeStep DEF SessionsNext

\* The rows of the accounts, the files and what the commands know have their types; an
\* edit is of a file that was written (accounts.rs, session_secret_store.rs).
THEOREM SessionsTypeCorrect == SessionsSpec => []SessionsTypeOK
<1>1. SessionsTypes => SessionsTypeOK
  BY DEF SessionsTypes
<1> QED  BY <1>1, SessionsTypesInit, SessionsTypesStep, PTL DEF SessionsSpec

\* The loose files of each command.
LEMMA LooseOf ==
    /\ \A w \in ImportWork : Loose(w) = IF w.step = "commit" THEN {w.new}
                                        ELSE IF w.step = "clean" THEN Superseded(w) ELSE {}
    /\ \A w \in SaveWork : Loose(w) = IF w.step = "commit" THEN {w.new}
                                      ELSE IF w.step = "clean" THEN OldFile(w) ELSE {}
    /\ \A w \in RevertWork \cup EditWork : Loose(w) = {}
    /\ \A w : w.step \notin {"commit", "clean"} => Loose(w) = {}
<1>1. \A w \in ImportWork : Loose(w) = IF w.step = "commit" THEN {w.new}
                                       ELSE IF w.step = "clean" THEN Superseded(w) ELSE {}
  BY DEF Loose, ImportWork
<1>2. \A w \in SaveWork : Loose(w) = IF w.step = "commit" THEN {w.new}
                                     ELSE IF w.step = "clean" THEN OldFile(w) ELSE {}
  BY DEF Loose, SaveWork
<1>3. \A w \in RevertWork \cup EditWork : Loose(w) = {}
  BY DEF Loose, RevertWork, EditWork
<1>4. \A w : w.step \notin {"commit", "clean"} => Loose(w) = {}
  BY DEF Loose
<1> QED  BY <1>1, <1>2, <1>3, <1>4

LEMMA OwnedInit == SessionsInit => RowsOK /\ FilesApart
<1> SUFFICES ASSUME SessionsInit PROVE RowsOK /\ FilesApart
  OBVIOUS
<1>1. \A c \in Caller : command[c] = NoCommand /\ command[c].step = "idle"
  BY DEF SessionsInit, NoCommand
<1>2. \A a \in ProviderAccount : Files(a) = IF a = FirstAccount THEN {1} ELSE {}
  BY DEF Files, SessionsInit, NoImport, NoSecret
<1>3. \A c \in Caller : Loose(command[c]) = {}
  BY <1>1, LooseOf
<1>4. \A a \in ProviderAccount : imports[a].backup = NoSecret
  BY DEF SessionsInit, NoImport
<1>5. RowsOK
  BY <1>1, <1>2, <1>3, <1>4 DEF RowsOK, SessionsInit, Caller
<1>6. FilesApart
  BY <1>1, <1>2, <1>3 DEF FilesApart, AtWork, UpToDate, Caller
<1> QED  BY <1>5, <1>6

\* A step that moves no file from row to row, and after which every command is as it was
\* or is idle or at its validation.
LEMMA OwnedStays ==
    ASSUME Owned, session' = session, imports' = imports, accounts \subseteq accounts', written' = written,
           \A c \in Caller :
              \/ command'[c] = command[c]
              \/ command'[c] = NoCommand
              \/ /\ command'[c].step \in {"validate", "settle"}
                 /\ c = "companion" => \A a \in ProviderAccount : AtWork(c, a)' => AtWork(c, a)
    PROVE  RowsOK' /\ FilesApart'
<1>1. \A a \in ProviderAccount : Files(a)' = Files(a)
  BY DEF Files
<1>2. \A c \in Caller : Loose(command'[c]) = Loose(command[c]) \/ Loose(command'[c]) = {}
  BY LooseOf DEF NoCommand
<1>a. NoCommand.step = "idle"
  BY DEF NoCommand
<1>3. RowsOK'
  BY <1>a, <1>1, <1>2 DEF Owned, RowsOK, Caller
<1>4. \A c \in Caller : UpToDate(command[c]) => UpToDate(command[c])'
  BY <1>a DEF UpToDate
<1>5. \A a \in ProviderAccount :
         AtWork("companion", a)' /\ AtWork("window", a)' /\ command'["window"].step \notin {"validate", "settle"} =>
             AtWork("companion", a) /\ AtWork("window", a) /\ command["window"].step \notin {"validate", "settle"}
  BY DEF AtWork, Caller
<1>6. FilesApart'
  BY <1>1, <1>2, <1>4, <1>5 DEF Owned, FilesApart, Caller
<1> QED  BY <1>3, <1>6

\* A command that begins, on an account that no other command is at work on or else the
\* crossing is noted.
LEMMA OwnedBegins ==
    ASSUME Owned, session' = session, imports' = imports, accounts' = accounts,
           written' \in Nat, written <= written',
           NEW c \in Caller, NEW a \in ProviderAccount, NEW w,
           command[c] = NoCommand, command' = [command EXCEPT ![c] = w],
           w # NoCommand, w.account = a, w.step \in {"commit", "rows"},
           c = "window" => a \in accounts,
           Loose(w) \subseteq 1..written', Loose(w) \cap 1..written = {}, UpToDate(w), ~Crossing(c, a)
    PROVE  RowsOK' /\ FilesApart'
<1>0. DOMAIN command = Caller /\ written \in Nat
  BY DEF Owned, SessionsTypes, CommandTypes, SessionsTypeOK
<1>1. \A b \in ProviderAccount : Files(b)' = Files(b)
  BY DEF Files
<1>2. command'[c] = w /\ \A d \in Caller \ {c} : command'[d] = command[d]
  BY <1>0
<1>3. 1..written \subseteq 1..written'
  BY <1>0
<1>4. RowsOK'
  <2>1. \A d \in Caller : Loose(command'[d]) \subseteq 1..written'
    BY <1>2, <1>3 DEF Owned, RowsOK
  <2>2. command'["window"].step \in {"commit", "clean", "rows"} => command'["window"].account \in accounts
    BY <1>2 DEF Owned, RowsOK, Caller
  <2>3. \A b \in ProviderAccount :
          /\ Files(b)' \subseteq 1..written'
          /\ imports'[b].backup # NoSecret => imports'[b].kept
          /\ b \notin accounts' => Files(b)' = {}
    BY <1>1, <1>3 DEF Owned, RowsOK
  <2> QED  BY <2>1, <2>2, <2>3 DEF RowsOK
<1>5. FilesApart'
  <2>2. \A d \in Caller \ {c} : Loose(command[d]) \cap Loose(w) = {}
    BY DEF Owned, RowsOK
  <2>3. \A d \in Caller, b \in ProviderAccount : Loose(command'[d]) \cap Files(b)' = {}
    BY <1>1, <1>2 DEF Owned, RowsOK, FilesApart
  <2>4. Loose(command'["companion"]) \cap Loose(command'["window"]) = {}
    BY <1>2, <2>2 DEF Caller
  <2>5. \A d \in Caller \ {c} : ~AtWork(d, a)
    BY WorkTypes DEF Owned, Crossing, Others, AtWork
  <2>6. \A b \in ProviderAccount : ~(AtWork("companion", b)' /\ AtWork("window", b)')
    <3>1. command["window"] = NoCommand \/ command["companion"] = NoCommand
      BY DEF Caller
    <3> QED  BY <1>2, <2>5 DEF AtWork, Caller
  <2>7. \A d \in Caller : UpToDate(command[d])'
    BY <1>2 DEF Owned, FilesApart, UpToDate
  <2>8. \A b \in ProviderAccount : \A e \in ProviderAccount \ {b} : Files(b)' \cap Files(e)' = {}
    BY <1>1 DEF Owned, FilesApart
  <2> QED  BY <2>3, <2>4, <2>6, <2>7, <2>8 DEF FilesApart
<1> QED  BY <1>4, <1>5

\* A command that changes the rows of its account, to name files that they named and the
\* loose one it has.
LEMMA OwnedCommits ==
    ASSUME Owned, written' = written,
           NEW c \in Caller, NEW a \in ProviderAccount, NEW w,
           AtWork(c, a), command[c].step \in {"commit", "rows"},
           command' = [command EXCEPT ![c] = w],
           w = NoCommand \/ (w.account = a /\ w.step \in {"clean", "validate"}),
           \A b \in ProviderAccount \ {a} :
              session'[b] = session[b] /\ imports'[b] = imports[b] /\ (b \in accounts' <=> b \in accounts),
           Files(a)' \subseteq Files(a) \cup Loose(command[c]),
           Loose(w) \subseteq Files(a) \cup Loose(command[c]),
           Loose(w) \cap Files(a)' = {},
           imports'[a].backup # NoSecret => imports'[a].kept,
           a \notin accounts' => w = NoCommand /\ c = "window" /\ Files(a)' = {}
    PROVE  RowsOK' /\ FilesApart'
<1>0. DOMAIN command = Caller /\ written \in Nat /\ NoCommand.step = "idle"
  BY DEF Owned, SessionsTypes, CommandTypes, SessionsTypeOK, NoCommand
<1>1. \A b \in ProviderAccount \ {a} : Files(b)' = Files(b)
  BY DEF Files
<1>2. command'[c] = w /\ \A d \in Caller \ {c} : command'[d] = command[d]
  BY <1>0
<1>3. \A d \in Caller \ {c} : AtWork(d, a) => d = "window" /\ command[d].step \in {"validate", "settle"}
  BY DEF Owned, FilesApart, Caller
<1>4. RowsOK'
  <2>1. \A d \in Caller : Loose(command'[d]) \subseteq 1..written
    BY <1>2 DEF Owned, RowsOK
  <2>2. command'["window"].step \in {"commit", "clean", "rows"} => command'["window"].account \in accounts'
    <3>1. CASE c = "window"
      BY <1>0, <1>2, <3>1
    <3>2. CASE c = "companion"
      <4>1. command'["window"] = command["window"] /\ accounts \subseteq accounts'
        BY <1>2, <3>2 DEF Caller, Owned, SessionsTypes, SessionsTypeOK
      <4> QED  BY <4>1 DEF Owned, RowsOK
    <3> QED  BY <3>1, <3>2 DEF Caller
  <2>3. \A b \in ProviderAccount :
          /\ Files(b)' \subseteq 1..written
          /\ imports'[b].backup # NoSecret => imports'[b].kept
          /\ b \notin accounts' => Files(b)' = {}
    BY <1>1 DEF Owned, RowsOK
  <2> QED  BY <2>1, <2>2, <2>3 DEF RowsOK
<1>5. FilesApart'
  <2>2. \A d \in Caller \ {c} : Loose(command[d]) \cap Loose(command[c]) = {}
    BY DEF Owned, FilesApart, Caller
  <2>3. \A d \in Caller, b \in ProviderAccount : Loose(command'[d]) \cap Files(b)' = {}
    <3>1. \A d \in Caller \ {c} : Loose(command'[d]) \cap Files(a)' = {}
      BY <1>2, <2>2 DEF Owned, FilesApart
    <3>2. \A d \in Caller \ {c}, b \in ProviderAccount \ {a} : Loose(command'[d]) \cap Files(b)' = {}
      BY <1>1, <1>2 DEF Owned, FilesApart
    <3>3. \A b \in ProviderAccount \ {a} : Loose(w) \cap Files(b)' = {}
      BY <1>1 DEF Owned, FilesApart
    <3> QED  BY <1>2, <3>1, <3>2, <3>3
  <2>4. Loose(command'["companion"]) \cap Loose(command'["window"]) = {}
    <3>1. \A d \in Caller \ {c} : Loose(command'[d]) \cap Loose(w) = {}
      BY <1>2, <2>2 DEF Owned, FilesApart
    <3> QED  BY <1>2, <3>1 DEF Caller
  <2>6. \A b \in ProviderAccount :
           AtWork("companion", b)' /\ AtWork("window", b)' => command'["window"].step \in {"validate", "settle"}
    <3>1. AtWork(c, a)' \/ command'[c] = NoCommand
      BY <1>2 DEF AtWork
    <3>2. \A d \in Caller, b \in ProviderAccount : AtWork(d, b)' => AtWork(d, b)
      BY <1>2 DEF AtWork
    <3>3. command'["window"].step \notin {"validate", "settle"} /\ command'["window"] # NoCommand =>
              command["window"].step \notin {"validate", "settle"}
      BY <1>2 DEF Caller
    <3>4. ASSUME NEW b \in ProviderAccount, AtWork("companion", b), AtWork("window", b)
          PROVE  command["window"].step \in {"validate", "settle"}
      BY <3>4 DEF Owned, FilesApart
    <3> QED  BY <3>2, <3>3, <3>4 DEF AtWork
  <2>7. \A d \in Caller : UpToDate(command[d])'
    <3>1. UpToDate(command[c])'
      BY <1>0, <1>2 DEF UpToDate
    <3>2. ASSUME NEW d \in Caller \ {c}, command[d].step = "commit" PROVE UpToDate(command[d])'
      <4>1. ~AtWork(d, a)
        BY <1>3, <3>2
      <4>2. command[d] # NoCommand
        BY <1>0, <3>2
      <4>3. command[d].account \in ProviderAccount \ {a}
        BY <3>2, <4>1, <4>2, WorkTypes DEF AtWork, Owned
      <4> QED  BY <1>2, <4>3 DEF UpToDate, Owned, FilesApart
    <3>3. \A d \in Caller \ {c} : command[d].step # "commit" => UpToDate(command[d])'
      BY <1>2 DEF UpToDate
    <3> QED  BY <3>1, <3>2, <3>3
  <2>8. \A b \in ProviderAccount : \A e \in ProviderAccount \ {b} : Files(b)' \cap Files(e)' = {}
    BY <1>1 DEF Owned, FilesApart
  <2> QED  BY <2>3, <2>4, <2>6, <2>7, <2>8 DEF FilesApart
<1> QED  BY <1>4, <1>5

LEMMA AccidentsStay == ASSUME SessionsNext PROVE accidents \subseteq accidents'
<1>1. \A c, a : Noting(c, a) => accidents \subseteq accidents'
  BY DEF Noting
<1>2. \A files : Discarded(files) => accidents \subseteq accidents'
  BY DEF Discarded
<1>3. \A a, f, state : Judge(a, f, state) => accidents \subseteq accidents'
  BY DEF Judge
<1>4. CASE CompanionStep
  BY <1>1, <1>2, <1>4 DEF CompanionStep, ImportCapture, ImportCommit, ImportClean
<1>5. CASE WindowStep
  BY <1>1, <1>2, <1>5 DEF WindowStep, SaveCookies, Revert, Clear, Delete, EditHeaders, Validate, SaveCommit,
       SaveClean, RevertCommit, ClearRows, DeleteRow, EditCommit
<1>6. CASE AccountStep
  BY <1>6 DEF AccountStep, SaveAccount, CloneAccount, Bind, UseSession
<1>7. CASE \E c \in Caller : ReadSession(c) \/ SettleHealth(c)
  BY <1>3, <1>7 DEF ReadSession, SettleHealth
<1>8. CASE ReportHealth \/ ProcessEnds
  BY <1>3, <1>8 DEF ReportHealth, ProcessEnds
<1> QED  BY <1>4, <1>5, <1>6, <1>7, <1>8 DEF SessionsNext

LEMMA CrossingNoted ==
    ASSUME NEW c, NEW a, Noting(c, a), "crossed" \notin accidents'
    PROVE  ~Crossing(c, a) /\ accidents' = accidents
BY DEF Noting

\* A command that ends or goes on to its validation.
LEMMA OnlyOne ==
    ASSUME SessionsTypes, NEW c \in Caller, NEW w, command' = [command EXCEPT ![c] = w]
    PROVE  command'[c] = w /\ \A d \in Caller \ {c} : command'[d] = command[d]
BY DEF SessionsTypes, CommandTypes

LEMMA OwnedCompanion == ASSUME Owned, CompanionStep, "crossed" \notin accidents' PROVE RowsOK' /\ FilesApart'
<1>0. "companion" \in Caller /\ SessionsTypes /\ SessionsTypeOK /\ written \in Nat
  BY DEF Caller, Owned, SessionsTypes, SessionsTypeOK
<1>1. ASSUME NEW a \in ProviderAccount, NEW who \in Login, ImportCapture(a, who) PROVE RowsOK' /\ FilesApart'
  <2> DEFINE w == [step |-> "commit", kind |-> "import", account |-> a, new |-> written + 1, who |-> who,
                   created |-> a \notin accounts, old |-> session[a], row |-> imports[a]]
  <2>1. /\ command["companion"] = NoCommand /\ command' = [command EXCEPT !["companion"] = w]
        /\ session' = session /\ imports' = imports /\ accounts' = accounts /\ written' = written + 1
        /\ ~Crossing("companion", a)
    BY <1>1, CrossingNoted DEF ImportCapture, Begin
  <2>2. Loose(w) = {written + 1}
    BY DEF Loose
  <2>3. w # NoCommand /\ w.account = a /\ w.step = "commit" /\ UpToDate(w)
    BY DEF NoCommand, UpToDate
  <2> HIDE DEF w
  <2>4. Loose(w) \subseteq 1..written' /\ Loose(w) \cap 1..written = {} /\ written' \in Nat /\ written <= written'
    BY <1>0, <2>1, <2>2
  <2> QED
    BY <1>0, <2>1, <2>3, <2>4, OwnedBegins
<1>2. CASE ImportCommit
  <2>w. PICK w, a : w = command["companion"] /\ a = w.account
    OBVIOUS
  <2> USE <2>w
  <2> DEFINE v == [w EXCEPT !.step = "clean"]
  <2>1. w \in ImportWork /\ w.step = "commit" /\ w # NoCommand
    BY <1>0, <1>2, WorkKnown DEF ImportCommit, Performing, NoCommand
  <2>2. CASE Discarded({w.new}) /\ End("companion") /\ UNCHANGED <<accounts, health, session, imports, replaced>>
    <3>1. command'["companion"] = NoCommand /\ command'["window"] = command["window"]
      BY <1>0, <2>2, OnlyOne DEF End, Caller
    <3> QED  BY <1>0, <1>2, <2>2, <3>1, OwnedStays DEF ImportCommit, Caller
  <2>3. CASE ~(Discarded({w.new}) /\ End("companion") /\ UNCHANGED <<accounts, health, session, imports, replaced>>)
    <3>1. /\ accounts' = accounts \cup {a}
          /\ session' = [session EXCEPT ![a] = w.new]
          /\ imports' = [imports EXCEPT ![a] = ImportRowOf(w)]
          /\ command' = [command EXCEPT !["companion"] = v]
          /\ written' = written
      BY <1>2, <2>3 DEF ImportCommit, Then
    <3>2. v \in ImportWork /\ v.step = "clean" /\ v.account = a /\ v.old = w.old /\ v.row = w.row
      BY <2>1, ImportAdvances
    <3>3. a \in ProviderAccount /\ w.new \in Secret /\ w.old \in SecretOrNone /\ w.row \in ImportRow
      BY <2>1 DEF ImportWork
    <3>4. session'[a] = w.new /\ imports'[a].backup = w.old /\ imports'[a].kept
      BY <1>0, <3>1, <3>3 DEF SessionsTypeOK, ImportRowOf, Backup
    <3>5. Loose(w) = {w.new} /\ Loose(v) = {w.row.backup} \ {NoSecret, w.old}
      BY <2>1, <3>2, LooseOf DEF Superseded
    <3>6. Files(a)' = {w.new, w.old} \ {NoSecret}
      BY <3>4 DEF Files
    <3>7. AtWork("companion", a)
      BY <2>1 DEF AtWork
    <3>8. w.old = session[a] /\ w.row = imports[a] /\ Loose(w) \cap Files(a) = {}
      BY <1>0, <2>1, <3>3 DEF Owned, FilesApart, UpToDate, ImportWork
    <3>9. Files(a)' \subseteq Files(a) \cup Loose(w) /\ Loose(v) \subseteq Files(a) \cup Loose(w)
          /\ Loose(v) \cap Files(a)' = {}
      BY <3>5, <3>6, <3>8, SMTT(30) DEF Files
    <3>10. \A b \in ProviderAccount \ {a} :
             session'[b] = session[b] /\ imports'[b] = imports[b] /\ (b \in accounts' <=> b \in accounts)
      BY <1>0, <3>1 DEF SessionsTypeOK
    <3>11. a \in accounts'
      BY <3>1
    <3> HIDE DEF v
    <3> QED
      BY <1>0, <2>1, <3>1, <3>2, <3>3, <3>4, <3>7, <3>9, <3>10, <3>11, OwnedCommits
  <2> QED  BY <2>2, <2>3
<1>3. CASE ImportClean
  <2> DEFINE w == command["companion"]
             v == [w EXCEPT !.step = "validate"]
  <2>1. w \in ImportWork /\ w # NoCommand
    BY <1>0, <1>3, WorkKnown DEF ImportClean, Performing, NoCommand
  <2>2. v.step = "validate" /\ v.account = w.account
    BY <2>1, ImportAdvances
  <2>3. command'["companion"] = v /\ command'["window"] = command["window"]
    BY <1>0, <1>3, OnlyOne DEF ImportClean, Validated, Then, Caller
  <2>4. \A a \in ProviderAccount : AtWork("companion", a)' => AtWork("companion", a)
    BY <2>1, <2>2, <2>3 DEF AtWork
  <2> QED  BY <1>0, <1>3, <2>2, <2>3, <2>4, OwnedStays DEF ImportClean, Caller
<1> QED  BY <1>1, <1>2, <1>3 DEF CompanionStep

LEMMA OwnedWindow == ASSUME Owned, WindowStep, "crossed" \notin accidents' PROVE RowsOK' /\ FilesApart'
<1>0. "window" \in Caller /\ SessionsTypes /\ SessionsTypeOK /\ written \in Nat /\ written <= written
  BY DEF Caller, Owned, SessionsTypes, SessionsTypeOK
<1>1. ASSUME NEW a \in ProviderAccount, NEW who \in Login, SaveCookies(a, who) PROVE RowsOK' /\ FilesApart'
  <2> DEFINE w == [step |-> "commit", kind |-> "save", account |-> a, new |-> written + 1,
                   old |-> session[a], backup |-> imports[a].backup]
  <2>1. /\ command["window"] = NoCommand /\ command' = [command EXCEPT !["window"] = w]
        /\ session' = session /\ imports' = imports /\ accounts' = accounts /\ written' = written + 1
        /\ ~Crossing("window", a) /\ a \in accounts
    BY <1>1, CrossingNoted DEF SaveCookies, Begin
  <2>2. Loose(w) = {written + 1}
    BY DEF Loose
  <2>3. w # NoCommand /\ w.account = a /\ w.step = "commit" /\ UpToDate(w)
    BY DEF NoCommand, UpToDate
  <2> HIDE DEF w
  <2>4. Loose(w) \subseteq 1..written' /\ Loose(w) \cap 1..written = {} /\ written' \in Nat /\ written <= written'
    BY <1>0, <2>1, <2>2
  <2> QED  BY <1>0, <2>1, <2>3, <2>4, OwnedBegins
<1>2. ASSUME NEW a \in ProviderAccount, Revert(a) PROVE RowsOK' /\ FilesApart'
  <2> DEFINE w == [step |-> "commit", kind |-> "revert", account |-> a, old |-> session[a], row |-> imports[a]]
  <2>1. /\ command["window"] = NoCommand /\ command' = [command EXCEPT !["window"] = w]
        /\ session' = session /\ imports' = imports /\ accounts' = accounts /\ written' = written
        /\ ~Crossing("window", a) /\ a \in accounts
    BY <1>2, CrossingNoted DEF Revert, Begin
  <2>2. Loose(w) = {}
    BY DEF Loose
  <2>3. w # NoCommand /\ w.account = a /\ w.step = "commit" /\ UpToDate(w)
    BY <1>2 DEF NoCommand, UpToDate, Revert
  <2> HIDE DEF w
  <2> QED  BY <1>0, <2>1, <2>2, <2>3, OwnedBegins
<1>3. ASSUME NEW a \in ProviderAccount, Clear(a) PROVE RowsOK' /\ FilesApart'
  <2> DEFINE w == [step |-> "rows", kind |-> "clear", account |-> a]
  <2>1. /\ command["window"] = NoCommand /\ command' = [command EXCEPT !["window"] = w]
        /\ session' = session /\ imports' = imports /\ accounts' = accounts /\ written' = written
        /\ ~Crossing("window", a) /\ a \in accounts
    BY <1>3, CrossingNoted DEF Clear, Begin
  <2>2. Loose(w) = {} /\ w # NoCommand /\ w.account = a /\ w.step = "rows" /\ UpToDate(w)
    BY DEF Loose, NoCommand, UpToDate
  <2> HIDE DEF w
  <2> QED  BY <1>0, <2>1, <2>2, OwnedBegins
<1>4. ASSUME NEW a \in ProviderAccount, Delete(a) PROVE RowsOK' /\ FilesApart'
  <2> DEFINE w == [step |-> "rows", kind |-> "delete", account |-> a]
  <2>1. /\ command["window"] = NoCommand
        /\ session' = session /\ imports' = imports /\ accounts' = accounts /\ written' = written
        /\ a \in accounts
    BY <1>4 DEF Delete
  <2>2. Loose(w) = {} /\ w # NoCommand /\ w.account = a /\ w.step = "rows" /\ UpToDate(w)
    BY DEF Loose, NoCommand, UpToDate
  <2>3. (command' = [command EXCEPT !["window"] = w] /\ ~Crossing("window", a)) \/ command' = command
    BY <1>4, CrossingNoted DEF Delete
  <2> HIDE DEF w
  <2>4. CASE command' = command
    BY <2>1, <2>4, OwnedStays
  <2>5. CASE command' = [command EXCEPT !["window"] = w] /\ ~Crossing("window", a)
    BY <1>0, <2>1, <2>2, <2>5, OwnedBegins
  <2> QED  BY <2>3, <2>4, <2>5
<1>5. ASSUME NEW a \in ProviderAccount, EditHeaders(a) PROVE RowsOK' /\ FilesApart'
  <2> DEFINE w == [step |-> "commit", kind |-> "edit", account |-> a, file |-> session[a],
                   has |-> secrets[session[a]]]
  <2>1. /\ command["window"] = NoCommand /\ command' = [command EXCEPT !["window"] = w]
        /\ session' = session /\ imports' = imports /\ accounts' = accounts /\ written' = written
        /\ ~Crossing("window", a) /\ a \in accounts
    BY <1>5, CrossingNoted DEF EditHeaders, Begin
  <2>2. Loose(w) = {} /\ w # NoCommand /\ w.account = a /\ w.step = "commit" /\ UpToDate(w)
    BY DEF Loose, NoCommand, UpToDate
  <2> HIDE DEF w
  <2> QED  BY <1>0, <2>1, <2>2, OwnedBegins
<1>6. ASSUME NEW a \in ProviderAccount, Validate(a) PROVE RowsOK' /\ FilesApart'
  <2>1. command'["window"].step = "validate" /\ command'["companion"] = command["companion"]
    BY <1>0, <1>6, OnlyOne, ZenonT(60) DEF Validate, Begin, Caller
  <2> QED  BY <1>6, <2>1, OwnedStays DEF Validate, Caller
<1>7. CASE SaveCommit
  <2>w. PICK w, a : w = command["window"] /\ a = w.account
    OBVIOUS
  <2> USE <2>w
  <2> DEFINE v == [w EXCEPT !.step = "clean"]
  <2>1. w \in SaveWork /\ w.step = "commit" /\ w # NoCommand
    BY <1>0, <1>7, WorkKnown DEF SaveCommit, Performing, NoCommand
  <2>2. CASE End("window") /\ UNCHANGED session
    <3>1. command'["window"] = NoCommand /\ command'["companion"] = command["companion"]
      BY <1>0, <2>2, OnlyOne DEF End, Caller
    <3> QED  BY <1>0, <1>7, <2>2, <3>1, OwnedStays DEF SaveCommit, Caller
  <2>3. CASE session' = [session EXCEPT ![a] = w.new] /\ Then("window", "clean")
    <3>1. /\ accounts' = accounts /\ imports' = imports /\ written' = written
          /\ session' = [session EXCEPT ![a] = w.new]
          /\ command' = [command EXCEPT !["window"] = v]
      BY <1>7, <2>3 DEF SaveCommit, Then
    <3>2. v \in SaveWork /\ v.step = "clean" /\ v.account = a /\ v.old = w.old /\ v.backup = w.backup
      BY <2>1, SaveAdvances
    <3>3. a \in ProviderAccount /\ w.new \in Secret /\ w.old \in SecretOrNone
      BY <2>1 DEF SaveWork
    <3>4. session'[a] = w.new
      BY <1>0, <3>1, <3>3 DEF SessionsTypeOK
    <3>5. Loose(w) = {w.new} /\ Loose(v) = {w.old} \ {NoSecret, w.backup}
      BY <2>1, <3>2, LooseOf DEF OldFile
    <3>6. Files(a)' = {w.new, imports[a].backup} \ {NoSecret}
      BY <3>1, <3>4 DEF Files
    <3>7. AtWork("window", a)
      BY <2>1 DEF AtWork
    <3>8. w.old = session[a] /\ w.backup = imports[a].backup /\ Loose(w) \cap Files(a) = {} /\ a \in accounts
      BY <1>0, <2>1, <3>3 DEF Owned, FilesApart, UpToDate, SaveWork, RowsOK
    <3>9. Files(a)' \subseteq Files(a) \cup Loose(w) /\ Loose(v) \subseteq Files(a) \cup Loose(w)
          /\ Loose(v) \cap Files(a)' = {}
      BY <3>5, <3>6, <3>8 DEF Files
    <3>10. \A b \in ProviderAccount \ {a} :
             session'[b] = session[b] /\ imports'[b] = imports[b] /\ (b \in accounts' <=> b \in accounts)
      BY <1>0, <3>1 DEF SessionsTypeOK
    <3>11. imports'[a].backup # NoSecret => imports'[a].kept
      BY <3>1, <3>3 DEF Owned, RowsOK
    <3> HIDE DEF v
    <3> QED
      BY <1>0, <2>1, <3>1, <3>2, <3>3, <3>7, <3>8, <3>9, <3>10, <3>11, OwnedCommits
  <2> QED  BY <1>7, <2>2, <2>3 DEF SaveCommit
<1>8. CASE SaveClean
  <2>1. command["window"] \in SaveWork
    BY <1>0, <1>8, WorkKnown DEF SaveClean
  <2>2. command'["window"].step = "validate" /\ command'["companion"] = command["companion"]
    <3>1. PICK v : v = [command["window"] EXCEPT !.step = "validate"]
      OBVIOUS
    <3>2. v.step = "validate" /\ command' = [command EXCEPT !["window"] = v]
      BY <1>8, <2>1, <3>1, SaveAdvances DEF SaveClean, Validated, Then
    <3> QED  BY <1>0, <3>2, OnlyOne DEF Caller
  <2> QED  BY <1>0, <1>8, <2>2, OwnedStays DEF SaveClean, Caller
<1>9. CASE RevertCommit
  <2>w. PICK w, a : w = command["window"] /\ a = w.account
    OBVIOUS
  <2> USE <2>w
  <2> DEFINE v == [w EXCEPT !.step = "validate"]
  <2>1. w \in RevertWork /\ w.step = "commit" /\ w # NoCommand
    BY <1>0, <1>9, WorkKnown DEF RevertCommit, Performing, NoCommand
  <2>2. CASE End("window") /\ UNCHANGED <<session, imports, replaced>>
    <3>1. command'["window"] = NoCommand /\ command'["companion"] = command["companion"]
      BY <1>0, <2>2, OnlyOne DEF End, Caller
    <3> QED  BY <1>0, <1>9, <2>2, <3>1, OwnedStays DEF RevertCommit, Caller
  <2>3. CASE ~(End("window") /\ UNCHANGED <<session, imports, replaced>>)
    <3> DEFINE new == IF imports[a].kept
                      THEN [kept |-> TRUE, who |-> w.row.backup_who, backup |-> w.old, backup_who |-> w.row.who]
                      ELSE imports[a]
    <3>1. /\ accounts' = accounts /\ written' = written
          /\ session' = [session EXCEPT ![a] = w.row.backup]
          /\ imports' = [imports EXCEPT ![a] = new]
          /\ command' = [command EXCEPT !["window"] = v]
      BY <1>9, <2>3 DEF RevertCommit, Validated, Then
    <3>2. v.step = "validate" /\ v.account = a
      BY <2>1, RevertAdvances
    <3>3. a \in ProviderAccount
      BY <2>1 DEF RevertWork
    <3>4. session'[a] = w.row.backup /\ imports'[a] = new
      BY <1>0, <3>1, <3>3 DEF SessionsTypeOK
    <3>7. AtWork("window", a)
      BY <2>1 DEF AtWork
    <3>8. w.old = session[a] /\ w.row = imports[a] /\ w.row.backup # NoSecret /\ a \in accounts /\ imports[a].kept
      <4>1. w.old = session[a] /\ w.row = imports[a] /\ w.row.backup # NoSecret
        BY <1>0, <2>1, <3>3 DEF Owned, FilesApart, UpToDate, RevertWork
      <4> QED  BY <1>0, <2>1, <3>3, <4>1 DEF Owned, RowsOK
    <3>9. imports'[a].backup = session[a] /\ imports'[a].kept
      BY <3>4, <3>8
    <3>6. Files(a)' \subseteq Files(a)
      BY <3>4, <3>8, <3>9 DEF Files
    <3>5. Loose(v) = {}
      BY <3>2, LooseOf
    <3>10. \A b \in ProviderAccount \ {a} :
             session'[b] = session[b] /\ imports'[b] = imports[b] /\ (b \in accounts' <=> b \in accounts)
      BY <1>0, <3>1 DEF SessionsTypeOK
    <3> HIDE DEF v, new
    <3> QED
      BY <1>0, <2>1, <3>1, <3>2, <3>3, <3>5, <3>6, <3>7, <3>8, <3>9, <3>10, OwnedCommits, ZenonT(60)
  <2> QED  BY <2>2, <2>3
<1>10. CASE ClearRows
  <2>w. PICK w, a : w = command["window"] /\ a = w.account
    OBVIOUS
  <2> USE <2>w
  <2> DEFINE v == [w EXCEPT !.step = "validate"]
  <2>1. w \in ClearWork /\ w.step = "rows" /\ w # NoCommand
    BY <1>0, <1>10, WorkKnown DEF ClearRows, Performing, NoCommand
  <2>2. v.step = "validate" /\ v.account = a /\ a \in ProviderAccount
    BY <2>1, ClearAdvances DEF ClearWork
  <2>3. /\ accounts' = accounts /\ written' = written
        /\ session' = [session EXCEPT ![a] = NoSecret]
        /\ imports' = [imports EXCEPT ![a] = NoImport]
        /\ command' = [command EXCEPT !["window"] = v]
    BY <1>10 DEF ClearRows, Validated, Then
  <2>4. session'[a] = NoSecret /\ imports'[a].backup = NoSecret
    BY <1>0, <2>2, <2>3 DEF SessionsTypeOK, NoImport
  <2>5. Files(a)' = {} /\ Loose(v) = {}
    BY <2>2, <2>4, LooseOf DEF Files
  <2>6. \A b \in ProviderAccount \ {a} :
           session'[b] = session[b] /\ imports'[b] = imports[b] /\ (b \in accounts' <=> b \in accounts)
    BY <1>0, <2>3 DEF SessionsTypeOK
  <2>7. AtWork("window", a) /\ a \in accounts
    BY <2>1 DEF AtWork, Owned, RowsOK
  <2> HIDE DEF v
  <2> QED
    BY <1>0, <2>1, <2>2, <2>3, <2>4, <2>5, <2>6, <2>7, OwnedCommits
<1>11. CASE DeleteRow
  <2>w. PICK w, a : w = command["window"] /\ a = w.account
    OBVIOUS
  <2> USE <2>w
  <2>1. w \in DeleteWork /\ w.step = "rows" /\ w # NoCommand /\ a \in ProviderAccount
    BY <1>0, <1>11, WorkKnown DEF DeleteRow, Performing, NoCommand, DeleteWork
  <2>2. CASE a \in bound
    <3>1. command'["window"] = NoCommand /\ command'["companion"] = command["companion"]
      BY <1>0, <1>11, OnlyOne DEF DeleteRow, End, Caller
    <3> QED  BY <1>0, <1>11, <2>2, <3>1, OwnedStays DEF DeleteRow, Caller
  <2>3. CASE a \notin bound
    <3>1. /\ accounts' = accounts \ {a} /\ written' = written
          /\ session' = [session EXCEPT ![a] = NoSecret]
          /\ imports' = [imports EXCEPT ![a] = NoImport]
          /\ command' = [command EXCEPT !["window"] = NoCommand]
      BY <1>11, <2>3 DEF DeleteRow, End
    <3>2. session'[a] = NoSecret /\ imports'[a].backup = NoSecret
      BY <1>0, <2>1, <3>1 DEF SessionsTypeOK, NoImport
    <3>3. Files(a)' = {} /\ Loose(NoCommand) = {}
      BY <3>2, LooseOf DEF Files, NoCommand
    <3>4. \A b \in ProviderAccount \ {a} :
             session'[b] = session[b] /\ imports'[b] = imports[b] /\ (b \in accounts' <=> b \in accounts)
      BY <1>0, <3>1 DEF SessionsTypeOK
    <3>5. AtWork("window", a)
      BY <2>1 DEF AtWork
    <3>6. PICK none, c : none = NoCommand /\ c = "window"
      OBVIOUS
    <3>7. /\ command' = [command EXCEPT ![c] = none] /\ none = NoCommand /\ AtWork(c, a)
          /\ Files(a)' \subseteq Files(a) \cup Loose(command[c])
          /\ Loose(none) \subseteq Files(a) \cup Loose(command[c])
          /\ Loose(none) \cap Files(a)' = {}
      BY <3>1, <3>3, <3>5, <3>6
    <3>8. imports'[a].backup # NoSecret => imports'[a].kept
      BY <3>2
    <3>9. written' = written /\ c \in Caller /\ a \in ProviderAccount
          /\ command[c].step \in {"commit", "rows"}
      BY <1>0, <2>1, <3>1, <3>6
    <3>10. a \notin accounts' => none = NoCommand /\ c = "window" /\ Files(a)' = {}
      BY <3>3, <3>6
    <3>11. none = NoCommand \/ (none.account = a /\ none.step \in {"clean", "validate"})
      BY <3>6
    <3> QED
      BY <3>4, <3>7, <3>8, <3>9, <3>10, <3>11, OwnedCommits
  <2> QED  BY <2>2, <2>3
<1>12. CASE EditCommit
  <2>1. command'["window"] = NoCommand /\ command'["companion"] = command["companion"]
    BY <1>0, <1>12, OnlyOne DEF EditCommit, End, Caller
  <2> QED  BY <1>0, <1>12, <2>1, OwnedStays DEF EditCommit, Caller
<1> QED
  BY <1>1, <1>2, <1>3, <1>4, <1>5, <1>6, <1>7, <1>8, <1>9, <1>10, <1>11, <1>12 DEF WindowStep

LEMMA OwnedOther ==
    ASSUME Owned,
           AccountStep \/ (\E c \in Caller : ReadSession(c) \/ SettleHealth(c)) \/ ReportHealth \/ ProcessEnds
    PROVE  RowsOK' /\ FilesApart'
<1>0. SessionsTypes
  BY DEF Owned
<1>1. CASE AccountStep \/ ReportHealth
  BY <1>1, OwnedStays DEF AccountStep, SaveAccount, CloneAccount, Bind, UseSession, ReportHealth
<1>2. ASSUME NEW c \in Caller, ReadSession(c) PROVE RowsOK' /\ FilesApart'
  <2>1. command[c] # NoCommand
    BY <1>2 DEF ReadSession, NoCommand
  <2>a. PICK w : /\ command' = [command EXCEPT ![c] = w]
                 /\ w = NoCommand \/ (w.step = "settle" /\ w.account = command[c].account)
    <3>1. CASE End(c)
      <4>1. command' = [command EXCEPT ![c] = NoCommand]
        BY <3>1 DEF End
      <4> QED  BY <4>1
    <3>2. CASE ~End(c)
      <4> DEFINE w == [step |-> "settle", kind |-> command[c].kind, account |-> command[c].account,
                       file |-> session[command[c].account], state |-> Verdict_of(session[command[c].account])]
      <4>1. w.step = "settle" /\ w.account = command[c].account
        OBVIOUS
      <4>2. command' = [command EXCEPT ![c] = w]
        BY <1>2, <3>2 DEF ReadSession
      <4> HIDE DEF w
      <4> QED  BY <4>1, <4>2
    <3> QED  BY <3>1, <3>2
  <2>2. \A d \in Caller \ {c} : command'[d] = command[d]
    BY <1>0, <2>a, OnlyOne
  <2>3. command'[c] = NoCommand \/ (command'[c].step = "settle" /\ command'[c].account = command[c].account)
    <3>1. command'[c] = w
      BY <1>0, <2>a, OnlyOne
    <3> QED  BY <2>a, <3>1
  <2>4. command'[c] = NoCommand
        \/ (command'[c].step = "settle" /\ \A a \in ProviderAccount : AtWork(c, a)' => AtWork(c, a))
    BY <2>1, <2>3 DEF AtWork
  <2> QED  BY <1>2, <2>2, <2>4, OwnedStays DEF ReadSession
<1>3. ASSUME NEW c \in Caller, SettleHealth(c) PROVE RowsOK' /\ FilesApart'
  <2>1. command'[c] = NoCommand /\ \A d \in Caller \ {c} : command'[d] = command[d]
    BY <1>0, <1>3, OnlyOne DEF SettleHealth, End
  <2> QED  BY <1>3, <2>1, OwnedStays DEF SettleHealth
<1>4. CASE ProcessEnds
  <2>1. \A c \in Caller : command'[c] = NoCommand
    BY <1>4 DEF ProcessEnds
  <2> QED  BY <1>4, <2>1, OwnedStays DEF ProcessEnds
<1> QED  BY <1>1, <1>2, <1>3, <1>4

LEMMA OwnedStep == SessionsTypes /\ OwnedUnlessCrossed /\ [SessionsNext]_session_vars => OwnedUnlessCrossed'
<1> SUFFICES ASSUME SessionsTypes, OwnedUnlessCrossed, [SessionsNext]_session_vars, "crossed" \notin accidents'
             PROVE  Owned'
  BY DEF OwnedUnlessCrossed
<1>1. SessionsTypes'
  BY SessionsTypesStep
<1>2. CASE SessionsNext
  <2>1. Owned
    BY <1>2, AccidentsStay DEF OwnedUnlessCrossed
  <2>2. RowsOK' /\ FilesApart'
    BY <1>2, <2>1, OwnedCompanion, OwnedWindow, OwnedOther DEF SessionsNext
  <2> QED  BY <1>1, <2>2 DEF Owned
<1>3. CASE UNCHANGED session_vars
  BY <1>1, <1>3 DEF session_vars, OwnedUnlessCrossed, Owned, RowsOK, FilesApart, Files, AtWork, UpToDate
<1> QED  BY <1>2, <1>3

\* A step of one command, if what it leaves changed is either well judged or its own account's.
LEMMA JudgedStays ==
    ASSUME NEW c \in Caller, NEW w, \A a \in accounts : Judged(a),
           command'[c] = w, \A d \in Caller \ {c} : command'[d] = command[d],
           \A a \in accounts' :
              \/ Judged(a)'
              \/ /\ a \in accounts /\ session'[a] = session[a]
                 /\ health'[a] = health[a] /\ judged'[a] = judged[a]
                 /\ Judging(command[c], a) => Judging(w, a)
    PROVE  \A a \in accounts' : Judged(a)'
<1> SUFFICES ASSUME NEW a \in accounts',
                    a \in accounts /\ session'[a] = session[a],
                    health'[a] = health[a] /\ judged'[a] = judged[a],
                    Judging(command[c], a) => Judging(w, a),
                    \A d \in Caller : ~Judging(command'[d], a), health'[a] = "ready"
             PROVE  session'[a] # NoSecret /\ judged'[a] = session'[a]
  BY DEF Judged
<1>1. \A d \in Caller : ~Judging(command[d], a)
  OBVIOUS
<1> QED  BY <1>1 DEF Judged

\* A verdict that is written while the session is still the one it is about.
LEMMA JudgedNow ==
    ASSUME SessionsTypes, NEW a \in ProviderAccount, NEW f, NEW state, Judge(a, f, state), "late" \notin accidents',
           session' = session, state = "ready" => f # NoSecret
    PROVE  /\ Judged(a)'
           /\ \A b \in ProviderAccount \ {a} : health'[b] = health[b] /\ judged'[b] = judged[b]
<1>1. health'[a] = state /\ judged'[a] = f /\ f = session[a]
  BY DEF Judge, SessionsTypes, SessionsTypeOK
<1>2. \A b \in ProviderAccount \ {a} : health'[b] = health[b] /\ judged'[b] = judged[b]
  BY DEF Judge, SessionsTypes, SessionsTypeOK
<1> QED  BY <1>1, <1>2 DEF Judged

LEMMA JudgedCompanion ==
    ASSUME SessionsTypes, \A a \in accounts : Judged(a), CompanionStep
    PROVE  \A a \in accounts' : Judged(a)'
<1>0. "companion" \in Caller /\ SessionsTypeOK
  BY DEF Caller, SessionsTypes
<1>a. \A a : ~Judging(NoCommand, a)
  BY DEF Judging, NoCommand
<1>1. ASSUME NEW a \in ProviderAccount, NEW who \in Login, ImportCapture(a, who) PROVE \A b \in accounts' : Judged(b)'
  <2>1. PICK w : command' = [command EXCEPT !["companion"] = w] /\ command["companion"] = NoCommand
    BY <1>1 DEF ImportCapture, Begin
  <2>2. command'["companion"] = w /\ \A d \in Caller \ {"companion"} : command'[d] = command[d]
    BY <1>0, <2>1, OnlyOne
  <2> QED  BY <1>0, <1>a, <1>1, <2>1, <2>2, JudgedStays DEF ImportCapture
<1>2. CASE ImportCommit
  <2>1. PICK v : v = command["companion"]
    OBVIOUS
  <2>2. v \in ImportWork /\ v.step = "commit" /\ \A a : ~Judging(v, a)
    BY <1>2, <2>1, WorkKnown DEF ImportCommit, Performing, Judging
  <2>3. CASE End("companion") /\ UNCHANGED <<accounts, health, session, imports, replaced>>
    <3>1. command'["companion"] = NoCommand /\ \A d \in Caller \ {"companion"} : command'[d] = command[d]
      BY <1>0, <2>3, OnlyOne DEF End
    <3> QED  BY <1>0, <1>2, <2>1, <2>2, <2>3, <3>1, JudgedStays DEF ImportCommit
  <2>4. CASE ~(End("companion") /\ UNCHANGED <<accounts, health, session, imports, replaced>>)
    <3>1. PICK w : w = [v EXCEPT !.step = "clean"]
      OBVIOUS
    <3>2. /\ accounts' = accounts \cup {v.account}
          /\ health' = IF v.created THEN [health EXCEPT ![v.account] = "ready"] ELSE health
          /\ session' = [session EXCEPT ![v.account] = v.new]
          /\ command' = [command EXCEPT !["companion"] = w]
          /\ judged' = judged
      BY <1>2, <2>1, <2>4, <3>1 DEF ImportCommit, Then
    <3>3. command'["companion"] = w /\ \A d \in Caller \ {"companion"} : command'[d] = command[d]
      BY <1>0, <3>2, OnlyOne
    <3>4. Judging(w, v.account) /\ v.account \in ProviderAccount
      BY <2>2, <3>1, ImportAdvances DEF Judging, ImportWork
    <3>5. Judged(v.account)'
      BY <1>0, <2>2, <3>3, <3>4 DEF Judged
    <3>6. \A b \in accounts' \ {v.account} :
             b \in accounts /\ session'[b] = session[b] /\ health'[b] = health[b] /\ judged'[b] = judged[b]
      BY <1>0, <3>2, <3>4 DEF SessionsTypeOK
    <3> QED  BY <1>0, <2>1, <2>2, <3>3, <3>5, <3>6, JudgedStays
  <2> QED  BY <2>3, <2>4
<1>3. CASE ImportClean
  <2>1. PICK v, w : v = command["companion"] /\ w = [v EXCEPT !.step = "validate"]
    OBVIOUS
  <2>2. v \in ImportWork /\ command' = [command EXCEPT !["companion"] = w]
    BY <1>3, <2>1, WorkKnown DEF ImportClean, Validated, Then
  <2>3. \A a : Judging(v, a) => Judging(w, a)
    BY <2>1, <2>2, ImportAdvances DEF Judging
  <2>4. command'["companion"] = w /\ \A d \in Caller \ {"companion"} : command'[d] = command[d]
    BY <1>0, <2>2, OnlyOne
  <2> QED  BY <1>0, <1>3, <2>1, <2>3, <2>4, JudgedStays DEF ImportClean
<1> QED  BY <1>1, <1>2, <1>3 DEF CompanionStep

LEMMA JudgedWindow ==
    ASSUME SessionsTypes, \A a \in accounts : Judged(a), WindowStep
    PROVE  \A a \in accounts' : Judged(a)'
<1>0. "window" \in Caller /\ SessionsTypeOK
  BY DEF Caller, SessionsTypes
<1>a. \A a : ~Judging(NoCommand, a)
  BY DEF Judging, NoCommand
\* A command that begins changes no session and no health.
<1>b. ASSUME NEW work, command["window"] = NoCommand, command' = [command EXCEPT !["window"] = work],
             UNCHANGED <<accounts, session, health, judged>>
      PROVE  \A b \in accounts' : Judged(b)'
  <2>1. PICK w : w = work
    OBVIOUS
  <2>2. command' = [command EXCEPT !["window"] = w]
    BY <1>b, <2>1
  <2>3. command'["window"] = w /\ \A d \in Caller \ {"window"} : command'[d] = command[d]
    BY <1>0, <2>2, OnlyOne
  <2> QED  BY <1>0, <1>a, <1>b, <2>3, JudgedStays
\* A command that goes on, or that ends before it was to be judged.
<1>c. ASSUME NEW v, NEW w, v = command["window"], command' = [command EXCEPT !["window"] = w],
             \A a \in ProviderAccount : Judging(v, a) => Judging(w, a),
             \A a \in accounts' : a \in accounts /\ health'[a] = health[a] /\ judged'[a] = judged[a],
             \A a \in accounts' : session'[a] = session[a] \/ Judging(w, a)
      PROVE  \A b \in accounts' : Judged(b)'
  <2>1. command'["window"] = w /\ \A d \in Caller \ {"window"} : command'[d] = command[d]
    BY <1>0, <1>c, OnlyOne
  <2>2. \A a \in accounts' : Judging(w, a) => Judged(a)'
    BY <1>0, <2>1 DEF Judged
  <2>3. \A a \in accounts' : a \in ProviderAccount
    BY <1>0, <1>c DEF SessionsTypeOK
  <2> QED  BY <1>0, <1>c, <2>1, <2>2, <2>3, JudgedStays
<1>1. ASSUME NEW a \in ProviderAccount, NEW who \in Login, SaveCookies(a, who) PROVE \A b \in accounts' : Judged(b)'
  BY <1>1, <1>b DEF SaveCookies, Begin
<1>2. ASSUME NEW a \in ProviderAccount, Revert(a) \/ Clear(a) \/ EditHeaders(a) \/ Validate(a)
      PROVE  \A b \in accounts' : Judged(b)'
  BY <1>2, <1>b DEF Revert, Clear, EditHeaders, Validate, Begin
<1>3. ASSUME NEW a \in ProviderAccount, Delete(a) PROVE \A b \in accounts' : Judged(b)'
  <2>1. CASE command' = [command EXCEPT !["window"] = [step |-> "rows", kind |-> "delete", account |-> a]]
    BY <1>3, <1>b, <2>1 DEF Delete
  <2>2. CASE UNCHANGED command
    BY <1>3, <2>2 DEF Delete, Judged
  <2> QED  BY <1>3, <2>1, <2>2 DEF Delete
<1>4. CASE SaveCommit
  <2>1. PICK v, w : v = command["window"] /\ w = [v EXCEPT !.step = "clean"]
    OBVIOUS
  <2>2. v \in SaveWork /\ v.step = "commit" /\ \A a : ~Judging(v, a)
    BY <1>4, <2>1, WorkKnown DEF SaveCommit, Performing, Judging
  <2>3. UNCHANGED <<accounts, health, judged>>
    BY <1>4 DEF SaveCommit
  <2>4. CASE End("window") /\ UNCHANGED session
    BY <1>a, <1>c, <2>1, <2>2, <2>3, <2>4 DEF End
  <2>5. CASE session' = [session EXCEPT ![v.account] = v.new] /\ Then("window", "clean")
    <3>1. command' = [command EXCEPT !["window"] = w]
      BY <2>1, <2>5 DEF Then
    <3>2. Judging(w, v.account) /\ v.account \in ProviderAccount
      BY <2>1, <2>2, SaveAdvances DEF Judging, SaveWork
    <3>3. \A a \in ProviderAccount : session'[a] = session[a] \/ a = v.account
      BY <1>0, <2>5 DEF SessionsTypeOK
    <3>4. \A a \in accounts' : session'[a] = session[a] \/ Judging(w, a)
      BY <1>0, <2>3, <3>2, <3>3 DEF SessionsTypeOK
    <3> QED  BY <1>c, <2>1, <2>2, <2>3, <3>1, <3>4
  <2> QED  BY <1>4, <2>1, <2>4, <2>5 DEF SaveCommit
<1>5. CASE SaveClean
  <2>1. PICK v, w : v = command["window"] /\ w = [v EXCEPT !.step = "validate"]
    OBVIOUS
  <2>2. v \in SaveWork /\ command' = [command EXCEPT !["window"] = w]
    BY <1>5, <2>1, WorkKnown DEF SaveClean, Validated, Then
  <2>3. \A a : Judging(v, a) => Judging(w, a)
    BY <2>1, <2>2, SaveAdvances DEF Judging
  <2> QED  BY <1>5, <1>c, <2>1, <2>2, <2>3 DEF SaveClean
<1>6. CASE RevertCommit
  <2>1. PICK v, w : v = command["window"] /\ w = [v EXCEPT !.step = "validate"]
    OBVIOUS
  <2>2. v \in RevertWork /\ v.step = "commit" /\ \A a : ~Judging(v, a)
    BY <1>6, <2>1, WorkKnown DEF RevertCommit, Performing, Judging
  <2>3. UNCHANGED <<accounts, health, judged>>
    BY <1>6 DEF RevertCommit
  <2>4. CASE End("window") /\ UNCHANGED session
    BY <1>a, <1>c, <2>1, <2>2, <2>3, <2>4 DEF End
  <2>5. CASE session' = [session EXCEPT ![v.account] = v.row.backup] /\ Validated("window")
    <3>1. command' = [command EXCEPT !["window"] = w]
      BY <2>1, <2>5 DEF Validated, Then
    <3>2. Judging(w, v.account) /\ v.account \in ProviderAccount
      BY <2>1, <2>2, RevertAdvances DEF Judging, RevertWork
    <3>3. \A a \in ProviderAccount : session'[a] = session[a] \/ a = v.account
      BY <1>0, <2>5 DEF SessionsTypeOK
    <3>4. \A a \in accounts' : session'[a] = session[a] \/ Judging(w, a)
      BY <1>0, <2>3, <3>2, <3>3 DEF SessionsTypeOK
    <3> QED  BY <1>c, <2>1, <2>2, <2>3, <3>1, <3>4
  <2> QED  BY <1>6, <2>1, <2>4, <2>5 DEF RevertCommit
<1>7. CASE ClearRows
  <2>1. PICK v, w : v = command["window"] /\ w = [v EXCEPT !.step = "validate"]
    OBVIOUS
  <2>2. v \in ClearWork /\ v.step = "rows" /\ \A a : ~Judging(v, a)
    BY <1>7, <2>1, WorkKnown DEF ClearRows, Performing, Judging
  <2>3. /\ UNCHANGED <<accounts, health, judged>> /\ session' = [session EXCEPT ![v.account] = NoSecret]
        /\ command' = [command EXCEPT !["window"] = w]
    BY <1>7, <2>1 DEF ClearRows, Validated, Then
  <2>4. Judging(w, v.account) /\ v.account \in ProviderAccount
    BY <2>1, <2>2, ClearAdvances DEF Judging, ClearWork
  <2>5. \A a \in ProviderAccount : session'[a] = session[a] \/ a = v.account
    BY <1>0, <2>3 DEF SessionsTypeOK
  <2>6. \A a \in accounts' : session'[a] = session[a] \/ Judging(w, a)
    BY <1>0, <2>3, <2>4, <2>5 DEF SessionsTypeOK
  <2> QED  BY <1>c, <2>1, <2>2, <2>3, <2>6
<1>8. CASE DeleteRow
  <2>1. PICK v : v = command["window"]
    OBVIOUS
  <2>2. v \in DeleteWork /\ v.step = "rows" /\ \A a : ~Judging(v, a)
    BY <1>8, <2>1, WorkKnown DEF DeleteRow, Performing, Judging
  <2>3. command' = [command EXCEPT !["window"] = NoCommand] /\ UNCHANGED <<health, judged>>
    BY <1>8 DEF DeleteRow, End
  <2>4. \A a \in accounts' : a \in accounts /\ session'[a] = session[a]
    <3>1. CASE v.account \in bound
      BY <1>8, <2>1, <3>1 DEF DeleteRow
    <3>2. CASE v.account \notin bound
      <4>1. accounts' = accounts \ {v.account} /\ session' = [session EXCEPT ![v.account] = NoSecret]
        BY <1>8, <2>1, <3>2 DEF DeleteRow
      <4> QED  BY <1>0, <4>1 DEF SessionsTypeOK
    <3> QED  BY <3>1, <3>2
  <2> QED  BY <1>c, <2>1, <2>2, <2>3, <2>4
<1>9. CASE EditCommit
  <2>1. PICK v : v = command["window"]
    OBVIOUS
  <2>2. \A a : ~Judging(v, a)
    BY <1>9, <2>1 DEF EditCommit, Performing, Judging
  <2>3. command' = [command EXCEPT !["window"] = NoCommand] /\ UNCHANGED <<accounts, session, health, judged>>
    BY <1>9 DEF EditCommit, End
  <2> QED  BY <1>c, <2>1, <2>2, <2>3
<1> QED  BY <1>1, <1>2, <1>3, <1>4, <1>5, <1>6, <1>7, <1>8, <1>9 DEF WindowStep

LEMMA JudgedOther ==
    ASSUME SessionsTypes, \A a \in accounts : Judged(a), NoneOf({"late", "declared", "unjudged"})',
           AccountStep \/ (\E c \in Caller : ReadSession(c) \/ SettleHealth(c)) \/ ReportHealth \/ ProcessEnds
    PROVE  \A a \in accounts' : Judged(a)'
<1>0. SessionsTypeOK /\ accounts \subseteq ProviderAccount
  BY DEF SessionsTypes, SessionsTypeOK
<1>a. \A a : ~Judging(NoCommand, a)
  BY DEF Judging, NoCommand
<1>b. "late" \notin accidents' /\ "declared" \notin accidents' /\ "unjudged" \notin accidents'
  BY DEF NoneOf
<1>1. CASE AccountStep
  <2>1. \A a, state : ~SaveAccount(a, state)
    BY <1>b DEF SaveAccount
  <2>2. PICK a \in ProviderAccount : Bind(a) \/ UseSession(a)
    BY <1>1, <2>1 DEF AccountStep, CloneAccount
  <2> QED  BY <2>2 DEF Bind, UseSession, Judged
<1>2. ASSUME NEW c \in Caller, ReadSession(c) PROVE \A a \in accounts' : Judged(a)'
  <2>1. PICK v : v = command[c]
    OBVIOUS
  <2>2. /\ v.step = "validate" /\ UNCHANGED <<accounts, session, health, judged>>
        /\ v # NoCommand
    BY <1>2, <2>1 DEF ReadSession, NoCommand
  <2>3. PICK w : command' = [command EXCEPT ![c] = w] /\ \A a \in accounts : Judging(v, a) => Judging(w, a)
    <3>1. CASE v.account \in accounts
      <4>1. PICK w : w = [step |-> "settle", kind |-> v.kind, account |-> v.account,
                          file |-> session[v.account], state |-> Verdict_of(session[v.account])]
        OBVIOUS
      <4>2. command' = [command EXCEPT ![c] = w]
        BY <1>2, <2>1, <3>1, <4>1 DEF ReadSession
      <4>3. \A a \in accounts : Judging(v, a) => Judging(w, a)
        BY <4>1 DEF Judging
      <4> QED  BY <4>2, <4>3
    <3>2. CASE v.account \notin accounts
      <4>1. command' = [command EXCEPT ![c] = NoCommand]
        BY <1>2, <2>1, <3>2 DEF ReadSession, End
      <4>2. \A a \in accounts : ~Judging(v, a)
        BY <3>2 DEF Judging
      <4> QED  BY <4>1, <4>2
    <3> QED  BY <3>1, <3>2
  <2>4. command'[c] = w /\ \A d \in Caller \ {c} : command'[d] = command[d]
    BY <2>3, OnlyOne
  <2> QED  BY <2>1, <2>2, <2>3, <2>4, JudgedStays
<1>3. ASSUME NEW c \in Caller, SettleHealth(c) PROVE \A a \in accounts' : Judged(a)'
  <2>1. PICK v : v = command[c]
    OBVIOUS
  <2>2. /\ v.step = "settle" /\ v.account \in ProviderAccount /\ (v.state = "ready" => v.file # NoSecret)
        /\ UNCHANGED <<accounts, session>>
    <3>1. v.step = "settle" /\ UNCHANGED <<accounts, session>>
      BY <1>3, <2>1 DEF SettleHealth
    <3>2. v \in JudgeWork
      BY <2>1, <3>1, WorkTypes
    <3> QED  BY <2>1, <3>1, <3>2 DEF JudgeWork, SessionsTypes, CommandTypes
  <2>3. command'[c] = NoCommand /\ \A d \in Caller \ {c} : command'[d] = command[d]
    BY <1>3, OnlyOne DEF SettleHealth, End
  <2>4. CASE v.account \in accounts
    <3>1. Judge(v.account, v.file, v.state)
      BY <1>3, <2>1, <2>4 DEF SettleHealth
    <3>2. /\ Judged(v.account)'
          /\ \A b \in ProviderAccount \ {v.account} : health'[b] = health[b] /\ judged'[b] = judged[b]
      BY <1>b, <2>2, <3>1, JudgedNow
    <3>3. \A b \in accounts \ {v.account} : ~Judging(v, b)
      BY DEF Judging
    <3> QED  BY <1>0, <2>1, <2>2, <2>3, <3>2, <3>3, JudgedStays
  <2>5. CASE v.account \notin accounts
    <3>1. UNCHANGED <<health, judged>>
      BY <1>3, <2>1, <2>5 DEF SettleHealth
    <3>2. \A b \in accounts : ~Judging(v, b)
      BY <2>5 DEF Judging
    <3> QED  BY <2>1, <2>2, <2>3, <3>1, <3>2, JudgedStays
  <2> QED  BY <2>4, <2>5
<1>4. CASE ReportHealth
  <2>1. user # NoUse /\ UNCHANGED <<accounts, session, command>>
    BY <1>4 DEF ReportHealth
  <2>2. CASE UNCHANGED <<health, judged>>
    BY <2>1, <2>2 DEF Judged
  <2>3. CASE ~UNCHANGED <<health, judged>>
    <3>1. PICK state : user.account \in accounts /\ Judge(user.account, user.file, state)
      BY <1>4, <2>3 DEF ReportHealth
    <3>2. PICK a, f : a = user.account /\ f = user.file
      OBVIOUS
    <3>3. a \in ProviderAccount /\ f # NoSecret
      BY <2>1, <3>2 DEF SessionsTypes, Secret, NoSecret
    <3>4. Judge(a, f, state)
      BY <3>1, <3>2
    <3>5. Judged(a)' /\ \A b \in ProviderAccount \ {a} : health'[b] = health[b] /\ judged'[b] = judged[b]
      BY <1>b, <2>1, <3>3, <3>4, JudgedNow
    <3> QED  BY <1>0, <2>1, <3>5 DEF Judged
  <2> QED  BY <2>2, <2>3
<1>5. CASE ProcessEnds
  <2>1. ~Interrupted({"clean", "validate", "settle"}, {"import", "save", "revert", "clear"})
    BY <1>5, <1>b DEF ProcessEnds
  <2>2. ASSUME NEW c \in Caller, NEW a, Judging(command[c], a) PROVE FALSE
    <3>1. command[c].kind \in {"import", "save", "revert", "clear", "validate"}
      <4>1. CASE c = "companion"
        BY <2>2, <4>1 DEF Judging, SessionsTypes, CommandTypes, CompanionWork, ImportWork, JudgeWork, NoCommand
      <4>2. CASE c = "window"
        BY <2>2, <4>2 DEF Judging, SessionsTypes, CommandTypes, WindowWork, SaveWork, RevertWork, ClearWork, DeleteWork,
             EditWork, ValidateWork, JudgeWork, NoCommand
      <4> QED  BY <4>1, <4>2 DEF Caller
    <3> QED  BY <2>1, <2>2, <3>1 DEF Interrupted, Judging
  <2>3. UNCHANGED <<accounts, session, health, judged>>
    BY <1>5 DEF ProcessEnds
  <2> QED  BY <2>2, <2>3 DEF Judged
<1> QED  BY <1>1, <1>2, <1>3, <1>4, <1>5

LEMMA HealthJudgedStep == SessionsTypes /\ HealthJudged /\ [SessionsNext]_session_vars => HealthJudged'
<1> SUFFICES ASSUME SessionsTypes, HealthJudged, [SessionsNext]_session_vars,
                    NoneOf({"late", "declared", "unjudged"})'
             PROVE  \A a \in accounts' : Judged(a)'
  BY DEF HealthJudged
<1>1. CASE SessionsNext
  <2>1. \A a \in accounts : Judged(a)
    BY <1>1, AccidentsStay DEF HealthJudged, NoneOf
  <2> QED  BY <1>1, <2>1, JudgedCompanion, JudgedWindow, JudgedOther DEF SessionsNext
<1>2. CASE UNCHANGED session_vars
  BY <1>2 DEF session_vars, HealthJudged, NoneOf, Judged
<1> QED  BY <1>1, <1>2

\* docs/provider-account-flow.md, "Validation must compute account health from persisted
\* session material": a ready account has the session that was found to be so, whatever
\* the commands, the Companion and the syncs do in between, unless a verdict was written
\* to another session than the one it is about, or was lost with the process, or the
\* health was saved from a form (validate_provider_account).
THEOREM ReadyIsForThisSession == SessionsSpec => []HealthIsCurrent
<1>1. SessionsInit => HealthJudged
  BY SessionsAssumption DEF SessionsInit, HealthJudged, Judged, Judging, NoCommand, NoSecret
<1>2. SessionsTypes /\ HealthJudged => HealthIsCurrent
  <2> SUFFICES ASSUME SessionsTypes, HealthJudged, NoneOf({"late", "declared", "unjudged"}),
                      NEW a \in Settled, health[a] = "ready"
               PROVE  session[a] # NoSecret /\ judged[a] = session[a]
    BY DEF HealthIsCurrent, NoneOf
  <2>1. a \in accounts /\ \A c \in Caller : ~Judging(command[c], a)
    BY DEF Settled, Judging, NoCommand
  <2> QED  BY <2>1 DEF HealthJudged, Judged
<1> QED  BY <1>1, <1>2, SessionsTypesInit, SessionsTypesStep, HealthJudgedStep, PTL DEF SessionsSpec

\* What a write and a removal leave of the files.
LEMMA SecretsWith ==
    ASSUME NEW f, NEW who, secrets' = WithSecret(f, who)
    PROVE  /\ DOMAIN secrets' = DOMAIN secrets \cup {f} /\ secrets'[f] = who
           /\ \A g \in DOMAIN secrets \ {f} : g \in DOMAIN secrets' /\ secrets'[g] = secrets[g]
BY DEF WithSecret

LEMMA SecretsWithout ==
    ASSUME NEW files, secrets' = Without(files)
    PROVE  /\ DOMAIN secrets' = DOMAIN secrets \ files
           /\ \A g \in DOMAIN secrets \ files : g \in DOMAIN secrets' /\ secrets'[g] = secrets[g]
BY DEF Without

LEMMA SecretsDiscarded ==
    ASSUME NEW files, Discarded(files)
    PROVE  /\ \A g \in DOMAIN secrets \ files : g \in DOMAIN secrets' /\ secrets'[g] = secrets[g]
           /\ \A g \in DOMAIN secrets' : g \in DOMAIN secrets
           /\ "left" \in accidents' \/ \A g \in files : g \notin DOMAIN secrets'
BY DEF Discarded, Without

\* A step of one command that takes away, or writes over, no file that a row of an account
\* names or that another command holds.
LEMMA WholeStays ==
    ASSUME Owned, \A a \in ProviderAccount : Whole(a), \A d \in Caller : WorkWhole(command[d]),
           NEW c \in Caller, NEW w, NEW gone,
           command'[c] = w, \A d \in Caller \ {c} : command'[d] = command[d],
           \A f \in DOMAIN secrets \ gone : f \in DOMAIN secrets' /\ secrets'[f] = secrets[f],
           \A a \in ProviderAccount : gone \cap Files(a) = {} \/ Forgetting(a)',
           \A d \in Caller \ {c} : gone \cap Loose(command[d]) = {},
           \A a \in ProviderAccount :
              \/ Whole(a)'
              \/ /\ session'[a] = session[a] /\ imports'[a] = imports[a] /\ replaced'[a] = replaced[a]
                 /\ Forgetting(a) => Forgetting(a)',
           WorkWhole(w)'
    PROVE  /\ \A a \in ProviderAccount : Whole(a)'
           /\ \A d \in Caller : WorkWhole(command[d])'
<1>1. ASSUME NEW a \in ProviderAccount PROVE Whole(a)'
  <2> SUFFICES ASSUME ~Forgetting(a)', ~Forgetting(a), gone \cap Files(a) = {},
                      session'[a] = session[a], imports'[a] = imports[a], replaced'[a] = replaced[a]
               PROVE  Whole(a)'
    BY <1>1 DEF Whole
  <2>1. Files(a)' = Files(a)
    BY DEF Files
  <2>2. \A f \in Files(a) : Readable(f) /\ f \in DOMAIN secrets' /\ secrets'[f] = secrets[f]
    BY DEF Whole, Readable
  <2>3. imports[a].backup # NoSecret => imports[a].backup \in Files(a)
    BY DEF Files
  <2> QED  BY <2>1, <2>2, <2>3 DEF Whole, Readable, SessionOf
<1>2. ASSUME NEW d \in Caller \ {c}, command[d].step = "commit" PROVE WorkWhole(command[d])'
  <2>1. PICK v : v = command[d]
    OBVIOUS
  <2>2. CASE v.kind \in {"import", "save"}
    <3>1. v.new \in Loose(v) /\ Readable(v.new)
      BY <1>2, <2>1, <2>2 DEF Loose, WorkWhole
    <3>2. v.new \in DOMAIN secrets' /\ secrets'[v.new] = secrets[v.new]
      BY <2>1, <3>1 DEF Readable
    <3> QED  BY <1>2, <2>1, <2>2, <3>1, <3>2 DEF WorkWhole, Readable
  <2>3. CASE v.kind = "edit"
    <3>1. d = "window" /\ v.account \in ProviderAccount /\ v.file \in Files(v.account)
      <4>1. d = "window"
        BY <2>1, <2>3, <1>2 DEF Owned, SessionsTypes, CommandTypes, CompanionWork, ImportWork, JudgeWork, NoCommand, Caller
      <4>2. v \in EditWork
        BY <1>2, <2>1, <2>3, <4>1, WorkKnown DEF Performing, Owned
      <4>3. v.file = session[v.account]
        BY <1>2, <2>1, <2>3 DEF Owned, FilesApart, UpToDate
      <4> QED  BY <4>1, <4>2, <4>3 DEF EditWork, Files, Secret, NoSecret
    <3>2. ~Forgetting(v.account)'
      BY <1>2, <2>1, <3>1 DEF Forgetting
    <3>3. v.file \in DOMAIN secrets' /\ secrets'[v.file] = secrets[v.file] /\ Readable(v.file) /\ v.has = secrets[v.file]
      BY <1>2, <2>1, <2>3, <3>1, <3>2 DEF WorkWhole, Readable
    <3> QED  BY <1>2, <2>1, <2>3, <3>3 DEF WorkWhole, Readable
  <2> QED  BY <1>2, <2>1, <2>2, <2>3 DEF WorkWhole
<1>3. ASSUME NEW d \in Caller \ {c} PROVE WorkWhole(command[d])'
  BY <1>2, <1>3 DEF WorkWhole
<1> QED  BY <1>1, <1>3

\* What a command holds loose is nobody else's: it may be discarded, and the command ends
\* or goes on to its validation.
LEMMA WholeDiscarded ==
    ASSUME Owned, \A a \in ProviderAccount : Whole(a), \A d \in Caller : WorkWhole(command[d]),
           NEW c \in Caller, NEW v, NEW w, v = command[c], v.step \in {"commit", "clean"},
           Discarded(Loose(v)), command' = [command EXCEPT ![c] = w], w.step \notin {"commit", "rows"},
           UNCHANGED <<session, imports, replaced>>
    PROVE  (\A a \in ProviderAccount : Whole(a)') /\ (\A d \in Caller : WorkWhole(command[d])')
<1>1. command'[c] = w /\ \A d \in Caller \ {c} : command'[d] = command[d]
  BY OnlyOne DEF Owned
<1>2. PICK gone : gone = Loose(v)
  OBVIOUS
<1>3. \A f \in DOMAIN secrets \ gone : f \in DOMAIN secrets' /\ secrets'[f] = secrets[f]
  BY <1>2, SecretsDiscarded
<1>4. \A a \in ProviderAccount : gone \cap Files(a) = {}
  BY <1>2 DEF Owned, FilesApart
<1>5. \A d \in Caller \ {c} : gone \cap Loose(command[d]) = {}
  BY <1>2 DEF Owned, FilesApart, Caller
<1>6. \A a \in ProviderAccount : Forgetting(a) => Forgetting(a)'
  BY <1>1 DEF Forgetting, Caller
<1>7. WorkWhole(w)'
  BY DEF WorkWhole
<1> QED  BY <1>1, <1>3, <1>4, <1>5, <1>6, <1>7, WholeStays

\* The window's command that waits for its rows is alone with its account.
LEMMA NotForgotten ==
    ASSUME Owned, NEW a \in ProviderAccount, AtWork("companion", a)
    PROVE  ~Forgetting(a)
BY DEF Owned, FilesApart, AtWork, Forgetting, NoCommand

LEMMA WholeCompanion ==
    ASSUME Owned, \A a \in ProviderAccount : Whole(a), \A d \in Caller : WorkWhole(command[d]), CompanionStep
    PROVE  (\A a \in ProviderAccount : Whole(a)') /\ (\A d \in Caller : WorkWhole(command[d])')
<1>0. "companion" \in Caller /\ SessionsTypes /\ SessionsTypeOK /\ written \in Nat
  BY DEF Caller, Owned, SessionsTypes, SessionsTypeOK
<1> DEFINE Goal == (\A a \in ProviderAccount : Whole(a)') /\ (\A d \in Caller : WorkWhole(command[d])')
<1>1. ASSUME NEW a \in ProviderAccount, NEW who \in Login, ImportCapture(a, who) PROVE Goal
  <2>1. PICK w : w = [step |-> "commit", kind |-> "import", account |-> a, new |-> written + 1, who |-> who,
                      created |-> a \notin accounts, old |-> session[a], row |-> imports[a]]
    OBVIOUS
  <2>2. /\ command' = [command EXCEPT !["companion"] = w] /\ secrets' = WithSecret(written + 1, who)
        /\ UNCHANGED <<session, imports, replaced>>
    BY <1>1, <2>1 DEF ImportCapture, Begin
  <2>3. command'["companion"] = w /\ \A d \in Caller \ {"companion"} : command'[d] = command[d]
    BY <1>0, <2>2, OnlyOne
  <2>4. written + 1 \notin DOMAIN secrets
    BY <1>0 DEF SessionsTypeOK
  <2>5. /\ \A f \in DOMAIN secrets : f \in DOMAIN secrets' /\ secrets'[f] = secrets[f]
        /\ w.new \in DOMAIN secrets' /\ secrets'[w.new] = who
    BY <2>1, <2>2, <2>4, SecretsWith
  <2>6. WorkWhole(w)'
    BY <2>1, <2>5, LoginAssumption DEF WorkWhole, Readable
  <2>7. \A b \in ProviderAccount : Forgetting(b) => Forgetting(b)'
    BY <2>3 DEF Forgetting, Caller
  <2>8. PICK gone : gone = {}
    OBVIOUS
  <2> QED  BY <1>0, <2>2, <2>3, <2>5, <2>6, <2>7, <2>8, WholeStays
<1>2. CASE ImportCommit
  <2>1. PICK v, a : v = command["companion"] /\ a = v.account
    OBVIOUS
  <2>2. v \in ImportWork /\ v.step = "commit" /\ v # NoCommand /\ a \in ProviderAccount
    BY <1>0, <1>2, <2>1, WorkKnown DEF ImportCommit, Performing, NoCommand, ImportWork
  <2>3. Loose(v) = {v.new}
    BY <2>2, LooseOf
  <2>4. CASE Discarded({v.new}) /\ End("companion") /\ UNCHANGED <<accounts, health, session, imports, replaced>>
    <3>1. PICK w : w = NoCommand
      OBVIOUS
    <3>2. command' = [command EXCEPT !["companion"] = w] /\ w.step \notin {"commit", "rows"}
      BY <2>4, <3>1 DEF End, NoCommand
    <3>3. Discarded(Loose(v)) /\ UNCHANGED <<session, imports, replaced>> /\ v.step \in {"commit", "clean"}
      BY <2>2, <2>3, <2>4
    <3> QED  BY <1>0, <2>1, <3>2, <3>3, WholeDiscarded
  <2>5. CASE ~(Discarded({v.new}) /\ End("companion") /\ UNCHANGED <<accounts, health, session, imports, replaced>>)
    <3>1. PICK w : w = [v EXCEPT !.step = "clean"]
      OBVIOUS
    <3>2. /\ session' = [session EXCEPT ![a] = v.new]
          /\ imports' = [imports EXCEPT ![a] = ImportRowOf(v)]
          /\ replaced' = [replaced EXCEPT ![a] = SessionOf(session[a])]
          /\ command' = [command EXCEPT !["companion"] = w]
          /\ secrets' = secrets
      BY <1>2, <2>1, <2>5, <3>1 DEF ImportCommit, Then
    <3>3. command'["companion"] = w /\ \A d \in Caller \ {"companion"} : command'[d] = command[d]
      BY <1>0, <3>2, OnlyOne
    <3>4. WorkWhole(w)'
      BY <2>2, <3>1, ImportAdvances DEF WorkWhole
    <3>5. \A b \in ProviderAccount : Forgetting(b) => Forgetting(b)'
      BY <3>3 DEF Forgetting, Caller
    <3>6. v.old = session[a] /\ Readable(v.new)
      BY <1>0, <2>1, <2>2 DEF Owned, FilesApart, UpToDate, ImportWork, WorkWhole
    <3>7. /\ session'[a] = v.new /\ imports'[a].backup = session[a] /\ replaced'[a] = SessionOf(session[a])
      BY <1>0, <2>2, <3>2, <3>6 DEF SessionsTypeOK, ImportRowOf, Backup
    <3>8. \A b \in ProviderAccount \ {a} :
             session'[b] = session[b] /\ imports'[b] = imports[b] /\ replaced'[b] = replaced[b]
      BY <1>0, <3>2 DEF SessionsTypeOK
    <3>9. session[a] # NoSecret => Readable(session[a])
      <4>1. ~Forgetting(a)
        BY <2>1, <2>2, NotForgotten DEF AtWork
      <4> QED  BY <2>2, <4>1 DEF Whole, Files
    <3>10. Whole(a)'
      BY <3>2, <3>6, <3>7, <3>9 DEF Whole, Files, Readable, SessionOf
    <3>11. PICK gone : gone = {}
      OBVIOUS
    <3> QED  BY <1>0, <3>2, <3>3, <3>4, <3>5, <3>8, <3>10, <3>11, WholeStays
  <2> QED  BY <2>4, <2>5
<1>3. CASE ImportClean
  <2>1. PICK v, w : v = command["companion"] /\ w = [v EXCEPT !.step = "validate"]
    OBVIOUS
  <2>2. v \in ImportWork /\ v.step = "clean" /\ command' = [command EXCEPT !["companion"] = w]
    BY <1>0, <1>3, <2>1, WorkKnown DEF ImportClean, Performing, Validated, Then
  <2>3. Loose(v) = Superseded(v) /\ w.step = "validate"
    BY <2>1, <2>2, LooseOf, ImportAdvances
  <2>4. Discarded(Loose(v)) /\ UNCHANGED <<session, imports, replaced>>
    BY <1>3, <2>1, <2>3 DEF ImportClean
  <2> QED  BY <1>0, <2>1, <2>2, <2>3, <2>4, WholeDiscarded
<1> QED  BY <1>1, <1>2, <1>3 DEF CompanionStep

LEMMA WholeWindow ==
    ASSUME Owned, \A a \in ProviderAccount : Whole(a), \A d \in Caller : WorkWhole(command[d]), WindowStep,
           NoneOf({"crossed", "wiped", "torn"})'
    PROVE  (\A a \in ProviderAccount : Whole(a)') /\ (\A d \in Caller : WorkWhole(command[d])')
<1>0. "window" \in Caller /\ SessionsTypes /\ SessionsTypeOK /\ written \in Nat
  BY DEF Caller, Owned, SessionsTypes, SessionsTypeOK
<1>n. "wiped" \notin accidents'
  BY DEF NoneOf
<1> DEFINE Goal == (\A a \in ProviderAccount : Whole(a)') /\ (\A d \in Caller : WorkWhole(command[d])')
\* A command that begins and leaves the files as they are.
<1>b. ASSUME NEW w, command' = [command EXCEPT !["window"] = w], command["window"] = NoCommand, WorkWhole(w)',
             UNCHANGED <<session, imports, replaced, secrets>>
      PROVE  Goal
  <2>1. command'["window"] = w /\ \A d \in Caller \ {"window"} : command'[d] = command[d]
    BY <1>0, <1>b, OnlyOne
  <2>2. \A b \in ProviderAccount : ~Forgetting(b)
    BY <1>b DEF Forgetting, NoCommand
  <2>3. PICK gone : gone = {}
    OBVIOUS
  <2> QED  BY <1>0, <1>b, <2>1, <2>2, <2>3, WholeStays
\* A command that removes the files of an account, whose rows it is about to forget.
<1>r. ASSUME NEW a \in ProviderAccount, NEW w, command' = [command EXCEPT !["window"] = w],
             w.step = "rows", w.account = a, command["window"] = NoCommand, NEW files,
             secrets' = Without(files) \/ secrets' = secrets,
             files \subseteq Files(a) \cup {NoSecret}, UNCHANGED <<session, imports, replaced>>
      PROVE  Goal
  <2>1. command'["window"] = w /\ \A d \in Caller \ {"window"} : command'[d] = command[d]
    BY <1>0, <1>r, OnlyOne
  <2>2. Forgetting(a)' /\ (\A b \in ProviderAccount : ~Forgetting(b)) /\ WorkWhole(w)'
    BY <1>r, <2>1 DEF Forgetting, NoCommand, WorkWhole
  <2>3. PICK gone : gone = Files(a) /\ NoSecret \notin DOMAIN secrets
    BY <1>0 DEF SessionsTypeOK, NoSecret
  <2>4. \A f \in DOMAIN secrets \ gone : f \in DOMAIN secrets' /\ secrets'[f] = secrets[f]
    BY <1>r, <2>3, SecretsWithout
  <2>5. \A b \in ProviderAccount : gone \cap Files(b) = {} \/ Forgetting(b)'
    BY <1>r, <2>2, <2>3 DEF Owned, FilesApart
  <2>6. \A d \in Caller \ {"window"} : gone \cap Loose(command[d]) = {}
    BY <1>r, <2>3 DEF Owned, FilesApart
  <2> QED  BY <1>0, <1>r, <2>1, <2>2, <2>4, <2>5, <2>6, WholeStays
\* A command that changes the rows of its account and no file.
<1>c. ASSUME NEW a \in ProviderAccount, NEW w, command' = [command EXCEPT !["window"] = w],
             w.step \notin {"commit", "rows"}, command["window"].step = "rows" => command["window"].account = a,
             Whole(a)', secrets' = secrets,
             \A b \in ProviderAccount \ {a} :
                session'[b] = session[b] /\ imports'[b] = imports[b] /\ replaced'[b] = replaced[b]
      PROVE  Goal
  <2>1. command'["window"] = w /\ \A d \in Caller \ {"window"} : command'[d] = command[d]
    BY <1>0, <1>c, OnlyOne
  <2>2. WorkWhole(w)' /\ \A b \in ProviderAccount \ {a} : ~Forgetting(b)
    BY <1>c DEF WorkWhole, Forgetting
  <2>3. PICK gone : gone = {}
    OBVIOUS
  <2> QED  BY <1>0, <1>c, <2>1, <2>2, <2>3, WholeStays
<1>1. ASSUME NEW a \in ProviderAccount, NEW who \in Login, SaveCookies(a, who) PROVE Goal
  <2>1. PICK w : w = [step |-> "commit", kind |-> "save", account |-> a, new |-> written + 1,
                      old |-> session[a], backup |-> imports[a].backup]
    OBVIOUS
  <2>2. /\ command' = [command EXCEPT !["window"] = w] /\ secrets' = WithSecret(written + 1, who)
        /\ UNCHANGED <<session, imports, replaced>> /\ command["window"] = NoCommand
    BY <1>1, <2>1 DEF SaveCookies, Begin
  <2>3. command'["window"] = w /\ \A d \in Caller \ {"window"} : command'[d] = command[d]
    BY <1>0, <2>2, OnlyOne
  <2>4. written + 1 \notin DOMAIN secrets
    BY <1>0 DEF SessionsTypeOK
  <2>5. /\ \A f \in DOMAIN secrets : f \in DOMAIN secrets' /\ secrets'[f] = secrets[f]
        /\ w.new \in DOMAIN secrets' /\ secrets'[w.new] = who
    BY <2>1, <2>2, <2>4, SecretsWith
  <2>6. WorkWhole(w)'
    BY <2>1, <2>5, LoginAssumption DEF WorkWhole, Readable
  <2>7. \A b \in ProviderAccount : ~Forgetting(b)
    BY <2>2 DEF Forgetting, NoCommand
  <2>8. PICK gone : gone = {}
    OBVIOUS
  <2>9. /\ \A f \in DOMAIN secrets \ gone : f \in DOMAIN secrets' /\ secrets'[f] = secrets[f]
        /\ \A b \in ProviderAccount : gone \cap Files(b) = {}
        /\ \A d \in Caller \ {"window"} : gone \cap Loose(command[d]) = {}
    BY <2>5, <2>8
  <2>10. \A b \in ProviderAccount :
            /\ session'[b] = session[b] /\ imports'[b] = imports[b] /\ replaced'[b] = replaced[b]
            /\ Forgetting(b) => Forgetting(b)'
    BY <2>2, <2>7
  <2>11. "window" \in Caller
    BY <1>0
  <2> QED  BY <2>3, <2>6, <2>9, <2>10, <2>11, WholeStays
<1>2. ASSUME NEW a \in ProviderAccount, Revert(a) PROVE Goal
  <2>1. PICK w : w = [step |-> "commit", kind |-> "revert", account |-> a, old |-> session[a], row |-> imports[a]]
    OBVIOUS
  <2>2. /\ command' = [command EXCEPT !["window"] = w] /\ command["window"] = NoCommand
        /\ UNCHANGED <<session, imports, replaced, secrets>>
    BY <1>2, <2>1 DEF Revert, Begin
  <2> QED  BY <1>b, <2>1, <2>2 DEF WorkWhole
<1>3. ASSUME NEW a \in ProviderAccount, Clear(a) PROVE Goal
  <2>1. PICK w, files : w = [step |-> "rows", kind |-> "clear", account |-> a] /\ files = Files(a)
    OBVIOUS
  <2>2. /\ command' = [command EXCEPT !["window"] = w] /\ command["window"] = NoCommand
        /\ UNCHANGED <<session, imports, replaced>> /\ (secrets' = Without(files) \/ secrets' = secrets)
    BY <1>3, <2>1 DEF Clear, Begin, Files
  <2>3. files \subseteq Files(a) \cup {NoSecret} /\ w.step = "rows" /\ w.account = a
    BY <2>1
  <2> QED  BY <1>r, <2>2, <2>3
<1>4. ASSUME NEW a \in ProviderAccount, Delete(a) PROVE Goal
  <2>1. PICK w, files : w = [step |-> "rows", kind |-> "delete", account |-> a] /\ files = {session[a], imports[a].backup}
    OBVIOUS
  <2>2. /\ command' = [command EXCEPT !["window"] = w] /\ command["window"] = NoCommand
        /\ UNCHANGED <<session, imports, replaced>> /\ secrets' = Without(files)
    BY <1>4, <1>n, <2>1 DEF Delete
  <2>3. files \subseteq Files(a) \cup {NoSecret} /\ w.step = "rows" /\ w.account = a
    BY <2>1 DEF Files
  <2> QED  BY <1>r, <2>2, <2>3
<1>5. ASSUME NEW a \in ProviderAccount, EditHeaders(a) PROVE Goal
  <2>1. PICK w : w = [step |-> "commit", kind |-> "edit", account |-> a, file |-> session[a],
                      has |-> secrets[session[a]]]
    OBVIOUS
  <2>2. /\ command' = [command EXCEPT !["window"] = w] /\ command["window"] = NoCommand
        /\ UNCHANGED <<session, imports, replaced, secrets>> /\ Readable(session[a])
    BY <1>5, <2>1 DEF EditHeaders, Begin
  <2>3. WorkWhole(w)'
    BY <2>1, <2>2 DEF WorkWhole, Readable
  <2> QED  BY <1>b, <2>2, <2>3
<1>6. ASSUME NEW a \in ProviderAccount, Validate(a) PROVE Goal
  <2>1. PICK w : w = [step |-> "validate", kind |-> "validate", account |-> a]
    OBVIOUS
  <2>2. /\ command' = [command EXCEPT !["window"] = w] /\ command["window"] = NoCommand
        /\ UNCHANGED <<session, imports, replaced, secrets>>
    BY <1>6, <2>1 DEF Validate, Begin
  <2> QED  BY <1>b, <2>1, <2>2 DEF WorkWhole
<1>7. CASE SaveCommit
  <2>1. PICK v, a : v = command["window"] /\ a = v.account
    OBVIOUS
  <2>2. v \in SaveWork /\ v.step = "commit" /\ a \in ProviderAccount
    BY <1>0, <1>7, <2>1, WorkKnown DEF SaveCommit, Performing, SaveWork
  <2>3. Loose(v) = {v.new} /\ UNCHANGED <<imports, replaced>>
    BY <1>7, <2>2, LooseOf DEF SaveCommit
  <2>4. CASE Discarded({v.new}) /\ End("window") /\ UNCHANGED session
    <3>1. PICK w : w = NoCommand
      OBVIOUS
    <3>2. command' = [command EXCEPT !["window"] = w] /\ w.step \notin {"commit", "rows"}
      BY <2>4, <3>1 DEF End, NoCommand
    <3>3. Discarded(Loose(v)) /\ UNCHANGED <<session, imports, replaced>> /\ v.step \in {"commit", "clean"}
      BY <2>2, <2>3, <2>4
    <3> QED  BY <1>0, <2>1, <3>2, <3>3, WholeDiscarded
  <2>5. CASE /\ session' = [session EXCEPT ![a] = v.new]
             /\ Then("window", "clean")
             /\ UNCHANGED <<secrets, accidents>>
    <3>1. PICK w : w = [v EXCEPT !.step = "clean"]
      OBVIOUS
    <3>2. command' = [command EXCEPT !["window"] = w] /\ w.step = "clean"
      BY <2>1, <2>2, <2>5, <3>1, SaveAdvances DEF Then
    <3>3. Readable(v.new) /\ ~Forgetting(a)
      BY <1>0, <2>1, <2>2 DEF WorkWhole, SaveWork, Forgetting
    <3>4. session'[a] = v.new /\ \A b \in ProviderAccount \ {a} : session'[b] = session[b]
      BY <1>0, <2>2, <2>5 DEF SessionsTypeOK
    <3>5. Whole(a)'
      BY <2>2, <2>3, <2>5, <3>3, <3>4 DEF Whole, Files, Readable, SessionOf
    <3> QED  BY <1>c, <2>1, <2>2, <2>3, <2>5, <3>2, <3>4, <3>5
  <2> QED  BY <1>7, <2>1, <2>4, <2>5 DEF SaveCommit
<1>8. CASE SaveClean
  <2>1. PICK v, w : v = command["window"] /\ w = [v EXCEPT !.step = "validate"]
    OBVIOUS
  <2>2. v \in SaveWork /\ v.step = "clean" /\ command' = [command EXCEPT !["window"] = w]
    BY <1>0, <1>8, <2>1, WorkKnown DEF SaveClean, Performing, Validated, Then
  <2>3. Loose(v) = OldFile(v) /\ w.step = "validate"
    BY <2>1, <2>2, LooseOf, SaveAdvances
  <2>4. Discarded(Loose(v)) /\ UNCHANGED <<session, imports, replaced>>
    BY <1>8, <2>1, <2>3 DEF SaveClean
  <2> QED  BY <1>0, <2>1, <2>2, <2>3, <2>4, WholeDiscarded
<1>9. CASE RevertCommit
  <2>1. PICK v, a : v = command["window"] /\ a = v.account
    OBVIOUS
  <2>2. v \in RevertWork /\ v.step = "commit" /\ a \in ProviderAccount /\ secrets' = secrets
    BY <1>0, <1>9, <2>1, WorkKnown DEF RevertCommit, Performing, RevertWork
  <2>3. CASE End("window") /\ UNCHANGED <<session, imports, replaced>>
    <3>1. PICK w : w = NoCommand
      OBVIOUS
    <3>2. command' = [command EXCEPT !["window"] = w] /\ w.step = "idle"
      BY <2>3, <3>1 DEF End, NoCommand
    <3>3. ~Forgetting(a)
      BY <2>1, <2>2 DEF Forgetting
    <3>4. Whole(a)'
      BY <2>2, <2>3, <3>3 DEF Whole, Files, Readable, SessionOf
    <3> QED  BY <1>c, <2>1, <2>2, <2>3, <3>2, <3>4
  <2>4. CASE ~(End("window") /\ UNCHANGED <<session, imports, replaced>>)
    <3> DEFINE new == IF imports[a].kept
                      THEN [kept |-> TRUE, who |-> v.row.backup_who, backup |-> v.old, backup_who |-> v.row.who]
                      ELSE imports[a]
    <3>1. PICK w : w = [v EXCEPT !.step = "validate"]
      OBVIOUS
    <3>2. /\ session' = [session EXCEPT ![a] = v.row.backup]
          /\ imports' = [imports EXCEPT ![a] = new]
          /\ replaced' = [replaced EXCEPT ![a] = SessionOf(session[a])]
          /\ command' = [command EXCEPT !["window"] = w]
      BY <1>9, <2>1, <2>4, <3>1 DEF RevertCommit, Validated, Then
    <3>3. w.step = "validate" /\ ~Forgetting(a)
      BY <2>1, <2>2, <3>1, RevertAdvances DEF Forgetting
    <3>4. v.old = session[a] /\ v.row = imports[a] /\ v.row.backup # NoSecret
      BY <1>0, <2>1, <2>2 DEF Owned, FilesApart, UpToDate, RevertWork
    <3>5. imports[a].kept
      BY <2>2, <3>4 DEF Owned, RowsOK
    <3>6. session'[a] = imports[a].backup /\ imports'[a].backup = session[a] /\ replaced'[a] = SessionOf(session[a])
      BY <1>0, <2>2, <3>2, <3>4, <3>5 DEF SessionsTypeOK
    <3>7. \A b \in ProviderAccount \ {a} :
             session'[b] = session[b] /\ imports'[b] = imports[b] /\ replaced'[b] = replaced[b]
      BY <1>0, <3>2 DEF SessionsTypeOK
    <3>8. \A f \in Files(a) : Readable(f)
      BY <2>2, <3>3 DEF Whole
    <3>9. Whole(a)'
      BY <2>2, <3>6, <3>8 DEF Whole, Files, Readable, SessionOf
    <3> HIDE DEF new
    <3> QED  BY <1>c, <2>1, <2>2, <3>2, <3>3, <3>7, <3>9
  <2> QED  BY <2>3, <2>4
<1>10. CASE ClearRows
  <2>1. PICK v, a, w : v = command["window"] /\ a = v.account /\ w = [v EXCEPT !.step = "validate"]
    OBVIOUS
  <2>2. v \in ClearWork /\ v.step = "rows" /\ a \in ProviderAccount
    BY <1>0, <1>10, <2>1, WorkKnown DEF ClearRows, Performing, ClearWork
  <2>3. /\ session' = [session EXCEPT ![a] = NoSecret] /\ imports' = [imports EXCEPT ![a] = NoImport]
        /\ command' = [command EXCEPT !["window"] = w] /\ UNCHANGED <<secrets, replaced>>
    BY <1>10, <2>1 DEF ClearRows, Validated, Then
  <2>4. w.step = "validate"
    BY <2>1, <2>2, ClearAdvances
  <2>5. session'[a] = NoSecret /\ imports'[a].backup = NoSecret
    BY <1>0, <2>2, <2>3 DEF SessionsTypeOK, NoImport
  <2>6. Whole(a)'
    BY <2>5 DEF Whole, Files
  <2>7. \A b \in ProviderAccount \ {a} :
           session'[b] = session[b] /\ imports'[b] = imports[b] /\ replaced'[b] = replaced[b]
    BY <1>0, <2>3 DEF SessionsTypeOK
  <2> QED  BY <1>c, <2>1, <2>2, <2>3, <2>4, <2>6, <2>7
<1>11. CASE DeleteRow
  <2>1. PICK v, a, w : v = command["window"] /\ a = v.account /\ w = NoCommand
    OBVIOUS
  <2>2. v \in DeleteWork /\ v.step = "rows" /\ a \in ProviderAccount /\ w.step = "idle"
    BY <1>0, <1>11, <2>1, WorkKnown DEF DeleteRow, Performing, DeleteWork, NoCommand
  <2>3. /\ session' = [session EXCEPT ![a] = NoSecret] /\ imports' = [imports EXCEPT ![a] = NoImport]
        /\ command' = [command EXCEPT !["window"] = w] /\ UNCHANGED <<secrets, replaced>>
    BY <1>11, <1>n, <2>1 DEF DeleteRow, End
  <2>5. session'[a] = NoSecret /\ imports'[a].backup = NoSecret
    BY <1>0, <2>2, <2>3 DEF SessionsTypeOK, NoImport
  <2>6. Whole(a)'
    BY <2>5 DEF Whole, Files
  <2>7. \A b \in ProviderAccount \ {a} :
           session'[b] = session[b] /\ imports'[b] = imports[b] /\ replaced'[b] = replaced[b]
    BY <1>0, <2>3 DEF SessionsTypeOK
  <2> QED  BY <1>c, <2>1, <2>2, <2>3, <2>6, <2>7
<1>12. CASE EditCommit
  <2>1. PICK v, w, gone : v = command["window"] /\ w = NoCommand /\ gone = {}
    OBVIOUS
  <2>2. v \in EditWork /\ v.step = "commit" /\ w.step = "idle"
    BY <1>0, <1>12, <2>1, WorkKnown DEF EditCommit, Performing, NoCommand
  <2>3. /\ secrets' = WithSecret(v.file, v.has) /\ command' = [command EXCEPT !["window"] = w]
        /\ UNCHANGED <<session, imports, replaced>>
    BY <1>12, <2>1 DEF EditCommit, End
  <2>4. Readable(v.file) /\ v.has = secrets[v.file]
    BY <1>0, <2>1, <2>2 DEF WorkWhole, EditWork
  <2>5. \A f \in DOMAIN secrets : f \in DOMAIN secrets' /\ secrets'[f] = secrets[f]
    BY <2>3, <2>4, SecretsWith
  <2>6. command'["window"] = w /\ \A d \in Caller \ {"window"} : command'[d] = command[d]
    BY <1>0, <2>3, OnlyOne
  <2>7. WorkWhole(w)' /\ \A b \in ProviderAccount : ~Forgetting(b)
    BY <2>1, <2>2 DEF WorkWhole, Forgetting
  <2> QED  BY <1>0, <2>1, <2>3, <2>5, <2>6, <2>7, WholeStays
<1> QED
  BY <1>1, <1>2, <1>3, <1>4, <1>5, <1>6, <1>7, <1>8, <1>9, <1>10, <1>11, <1>12 DEF WindowStep

LEMMA WholeOther ==
    ASSUME Owned, \A a \in ProviderAccount : Whole(a), \A d \in Caller : WorkWhole(command[d]),
           AccountStep \/ (\E c \in Caller : ReadSession(c) \/ SettleHealth(c)) \/ ReportHealth \/ ProcessEnds,
           NoneOf({"crossed", "wiped", "torn"})'
    PROVE  (\A a \in ProviderAccount : Whole(a)') /\ (\A d \in Caller : WorkWhole(command[d])')
<1>0. SessionsTypes /\ "window" \in Caller
  BY DEF Owned, Caller
<1>1. CASE AccountStep \/ ReportHealth
  <2>1. UNCHANGED <<session, imports, replaced, secrets, command>>
    BY <1>1 DEF AccountStep, SaveAccount, CloneAccount, Bind, UseSession, ReportHealth
  <2> QED  BY <2>1 DEF Whole, WorkWhole, Forgetting, Files, Readable, SessionOf
<1>2. ASSUME NEW c \in Caller, ReadSession(c) \/ SettleHealth(c)
      PROVE  (\A a \in ProviderAccount : Whole(a)') /\ (\A d \in Caller : WorkWhole(command[d])')
  <2>1. PICK w : command' = [command EXCEPT ![c] = w] /\ w.step \notin {"commit", "rows"}
    <3>1. CASE End(c)
      <4>1. PICK w : w = NoCommand
        OBVIOUS
      <4>2. command' = [command EXCEPT ![c] = w] /\ w.step = "idle"
        BY <3>1, <4>1 DEF End, NoCommand
      <4> QED  BY <4>2
    <3>2. CASE ~End(c)
      <4>1. PICK w : w = [step |-> "settle", kind |-> command[c].kind, account |-> command[c].account,
                          file |-> session[command[c].account], state |-> Verdict_of(session[command[c].account])]
        OBVIOUS
      <4>2. command' = [command EXCEPT ![c] = w] /\ w.step = "settle"
        BY <1>2, <3>2, <4>1 DEF ReadSession, SettleHealth
      <4> QED  BY <4>2
    <3> QED  BY <3>1, <3>2
  <2>2. command'[c] = w /\ \A d \in Caller \ {c} : command'[d] = command[d]
    BY <1>0, <2>1, OnlyOne
  <2>3. UNCHANGED <<session, imports, replaced, secrets>> /\ command[c].step # "rows"
    BY <1>2 DEF ReadSession, SettleHealth
  <2>4. WorkWhole(w)' /\ \A a \in ProviderAccount : Forgetting(a) => Forgetting(a)'
    BY <2>1, <2>2, <2>3 DEF WorkWhole, Forgetting, Caller
  <2>5. PICK gone : gone = {}
    OBVIOUS
  <2> QED  BY <2>2, <2>3, <2>4, <2>5, WholeStays
<1>3. CASE ProcessEnds
  <2>1. ~Interrupted({"rows"}, {"clear", "delete"}) /\ ~Interrupted({"commit"}, {"edit"})
    BY <1>3 DEF ProcessEnds, NoneOf
  <2>2. \A a \in ProviderAccount : ~Forgetting(a)
    <3>1. command["window"].step = "rows" => command["window"].kind \in {"clear", "delete"}
      BY <1>0 DEF SessionsTypes, CommandTypes, WindowWork, SaveWork, RevertWork, ClearWork, DeleteWork,
         EditWork, ValidateWork, JudgeWork, NoCommand
    <3> QED  BY <1>0, <2>1, <3>1 DEF Interrupted, Forgetting
  <2>3. \A c \in Caller : ~Performing(c, "edit", "commit")
    BY <2>1 DEF Interrupted, Performing
  <2>4. UNCHANGED <<session, imports, replaced, secrets>> /\ \A d \in Caller : command'[d] = NoCommand
    BY <1>3, <2>3 DEF ProcessEnds
  <2> QED  BY <2>2, <2>4 DEF Whole, WorkWhole, Forgetting, Files, Readable, SessionOf, NoCommand
<1> QED  BY <1>1, <1>2, <1>3

LEMMA FilesWholeStep ==
    SessionsTypes /\ OwnedUnlessCrossed /\ FilesWhole /\ [SessionsNext]_session_vars => FilesWhole'
<1> SUFFICES ASSUME SessionsTypes, OwnedUnlessCrossed, FilesWhole, [SessionsNext]_session_vars,
                    NoneOf({"crossed", "wiped", "torn"})'
             PROVE  (\A a \in ProviderAccount : Whole(a)') /\ (\A d \in Caller : WorkWhole(command[d])')
  BY DEF FilesWhole
<1>1. CASE SessionsNext
  <2>1. Owned /\ (\A a \in ProviderAccount : Whole(a)) /\ (\A d \in Caller : WorkWhole(command[d]))
    BY <1>1, AccidentsStay DEF FilesWhole, NoneOf, OwnedUnlessCrossed
  <2> QED  BY <1>1, <2>1, WholeCompanion, WholeWindow, WholeOther DEF SessionsNext
<1>2. CASE UNCHANGED session_vars
  BY <1>2 DEF session_vars, FilesWhole, NoneOf, Whole, WorkWhole, Forgetting, Files, Readable, SessionOf
<1> QED  BY <1>1, <1>2

LEMMA FilesWholeInit == SessionsInit => FilesWhole
<1> SUFFICES ASSUME SessionsInit PROVE (\A a \in ProviderAccount : Whole(a)) /\ (\A d \in Caller : WorkWhole(command[d]))
  BY DEF FilesWhole
<1>1. \A d \in Caller : WorkWhole(command[d])
  BY DEF SessionsInit, WorkWhole, NoCommand
<1>2. ASSUME NEW a \in ProviderAccount PROVE Whole(a)
  <2>1. imports[a].backup = NoSecret /\ session[a] \in {1, NoSecret}
    BY DEF SessionsInit, NoImport
  <2>2. Readable(1)
    BY SessionsAssumption, LoginAssumption DEF SessionsInit, Readable
  <2> QED  BY <2>1, <2>2 DEF Whole, Files
<1> QED  BY <1>1, <1>2

\* docs/companion-account-import.md, "Revert swaps the current and backup states": the
\* backup of an account holds the session that its last import or revert replaced, through
\* any saves, failures and ends of the process after that, unless two commands worked on
\* one account at once, or the process ended in the middle of a removal or a rewrite of
\* its files (revert_provider_account_import_with_connection).
THEOREM BackupIsWhatWasReplaced == SessionsSpec => []RevertReturns
<1>1. SessionsTypes /\ FilesWhole => RevertReturns
  <2> SUFFICES ASSUME FilesWhole, NoneOf({"crossed", "wiped", "torn"}), NEW a \in Settled, imports[a].backup # NoSecret,
                      SessionsTypes
               PROVE  SessionOf(imports[a].backup) = replaced[a]
    BY DEF RevertReturns, NoneOf
  <2>1. ~Forgetting(a)
    BY DEF Settled, Forgetting, NoCommand, Caller
  <2> QED  BY <2>1 DEF FilesWhole, Whole, Settled, SessionsTypes, SessionsTypeOK
<1>2. SessionsInit => OwnedUnlessCrossed
  BY SessionsTypesInit, OwnedInit DEF OwnedUnlessCrossed, Owned
<1> QED
  BY <1>1, <1>2, SessionsTypesInit, SessionsTypesStep, OwnedStep, FilesWholeInit, FilesWholeStep, PTL
     DEF SessionsSpec

\* A step of one command after which every file there is its own, is named by a row, or
\* was there and nobody let go of it.
LEMMA ClaimedStays ==
    ASSUME NEW c \in Caller, NEW v, NEW w, v = command[c],
           command'[c] = w, \A d \in Caller \ {c} : command'[d] = command[d],
           \A f \in DOMAIN secrets : Claimed(f),
           \A f \in DOMAIN secrets' :
              \/ f \in Loose(w)
              \/ \E a \in ProviderAccount : f \in Files(a)'
              \/ /\ f \in DOMAIN secrets /\ f \notin Loose(v)
                 /\ \A a \in ProviderAccount : f \in Files(a) => f \in Files(a)'
    PROVE  \A f \in DOMAIN secrets' : Claimed(f)'
BY DEF Claimed

LEMMA StrayCompanion ==
    ASSUME Owned, \A f \in DOMAIN secrets : Claimed(f), \A a \in ProviderAccount : Forgetting(a) => Gone(a),
           CompanionStep, "left" \notin accidents'
    PROVE  (\A f \in DOMAIN secrets' : Claimed(f)') /\ (\A a \in ProviderAccount : Forgetting(a)' => Gone(a)')
<1>0. "companion" \in Caller /\ SessionsTypes /\ SessionsTypeOK /\ written \in Nat
  BY DEF Caller, Owned, SessionsTypes, SessionsTypeOK
<1> DEFINE Goal == (\A f \in DOMAIN secrets' : Claimed(f)')
                   /\ (\A a \in ProviderAccount : Forgetting(a)' => Gone(a)')
<1>1. ASSUME NEW a \in ProviderAccount, NEW who \in Login, ImportCapture(a, who) PROVE Goal
  <2>1. PICK v, w : /\ v = command["companion"]
                    /\ w = [step |-> "commit", kind |-> "import", account |-> a, new |-> written + 1, who |-> who,
                            created |-> a \notin accounts, old |-> session[a], row |-> imports[a]]
    OBVIOUS
  <2>2. /\ command' = [command EXCEPT !["companion"] = w] /\ secrets' = WithSecret(written + 1, who)
        /\ UNCHANGED <<session, imports>> /\ v = NoCommand
    BY <1>1, <2>1 DEF ImportCapture, Begin
  <2>3. command'["companion"] = w /\ \A d \in Caller \ {"companion"} : command'[d] = command[d]
    BY <1>0, <2>2, OnlyOne
  <2>4. Loose(w) = {written + 1} /\ Loose(v) = {} /\ DOMAIN secrets' = DOMAIN secrets \cup {written + 1}
    <3>1. Loose(w) = {written + 1} /\ Loose(v) = {}
      BY <2>1, <2>2 DEF Loose, NoCommand
    <3>2. DOMAIN secrets' = DOMAIN secrets \cup {written + 1}
      BY <2>2, SecretsWith
    <3> QED  BY <3>1, <3>2
  <2>5. \A b \in ProviderAccount : Files(b)' = Files(b)
    BY <2>2 DEF Files
  <2>6. \A f \in DOMAIN secrets' : Claimed(f)'
    BY <1>0, <2>1, <2>3, <2>4, <2>5, ClaimedStays
  <2>7. \A b \in ProviderAccount : Forgetting(b)' => Gone(b)'
    <3>1. \A b \in ProviderAccount : written + 1 \notin Files(b)
      BY <1>0 DEF Owned, RowsOK
    <3>2. \A b \in ProviderAccount : Forgetting(b)' => Forgetting(b)
      BY <2>3 DEF Forgetting, Caller
    <3> QED  BY <2>4, <2>5, <3>1, <3>2 DEF Gone
  <2> QED  BY <2>6, <2>7
<1>2. CASE ImportCommit
  <2>1. PICK v, a : v = command["companion"] /\ a = v.account
    OBVIOUS
  <2>2. v \in ImportWork /\ v.step = "commit" /\ v # NoCommand /\ a \in ProviderAccount
    BY <1>0, <1>2, <2>1, WorkKnown DEF ImportCommit, Performing, NoCommand, ImportWork
  <2>3. Loose(v) = {v.new}
    BY <2>2, LooseOf
  <2>4. CASE Discarded({v.new}) /\ End("companion") /\ UNCHANGED <<accounts, health, session, imports, replaced>>
    <3>1. PICK w : w = NoCommand
      OBVIOUS
    <3>2. command' = [command EXCEPT !["companion"] = w]
      BY <2>4, <3>1 DEF End
    <3>3. command'["companion"] = w /\ \A d \in Caller \ {"companion"} : command'[d] = command[d]
      BY <1>0, <3>2, OnlyOne
    <3>4. \A b \in ProviderAccount : Files(b)' = Files(b) /\ (Forgetting(b)' => Forgetting(b))
      BY <2>4, <3>3 DEF Files, Forgetting, Caller
    <3>5. \A f \in DOMAIN secrets' : f \in DOMAIN secrets /\ f # v.new
      BY <2>4, SecretsDiscarded
    <3>6. \A f \in DOMAIN secrets' : Claimed(f)'
      BY <1>0, <2>1, <2>3, <3>3, <3>4, <3>5, ClaimedStays
    <3> QED  BY <3>4, <3>5, <3>6 DEF Gone
  <2>5. CASE ~(Discarded({v.new}) /\ End("companion") /\ UNCHANGED <<accounts, health, session, imports, replaced>>)
    <3>1. PICK w : w = [v EXCEPT !.step = "clean"]
      OBVIOUS
    <3>2. /\ session' = [session EXCEPT ![a] = v.new]
          /\ imports' = [imports EXCEPT ![a] = ImportRowOf(v)]
          /\ command' = [command EXCEPT !["companion"] = w]
          /\ secrets' = secrets
      BY <1>2, <2>1, <2>5, <3>1 DEF ImportCommit, Then
    <3>3. command'["companion"] = w /\ \A d \in Caller \ {"companion"} : command'[d] = command[d]
      BY <1>0, <3>2, OnlyOne
    <3>4. v.old = session[a] /\ v.row = imports[a] /\ v.new # NoSecret
      BY <1>0, <2>1, <2>2 DEF Owned, FilesApart, UpToDate, ImportWork, Secret, NoSecret
    <3>5. session'[a] = v.new /\ imports'[a].backup = session[a]
      BY <1>0, <2>2, <3>2, <3>4 DEF SessionsTypeOK, ImportRowOf, Backup
    <3>6. Files(a)' = {v.new, session[a]} \ {NoSecret}
      BY <3>5 DEF Files
    <3>7. Loose(w) = {imports[a].backup} \ {NoSecret, session[a]}
      <4>1. w \in ImportWork /\ w.step = "clean" /\ w.old = v.old /\ w.row = v.row
        BY <2>2, <3>1, ImportAdvances
      <4> QED  BY <3>4, <4>1, LooseOf DEF Superseded
    <3>8. \A b \in ProviderAccount \ {a} : Files(b)' = Files(b)
      BY <1>0, <3>2 DEF SessionsTypeOK, Files
    <3>9. \A f \in DOMAIN secrets' : Claimed(f)'
      <4>1. ASSUME NEW f \in DOMAIN secrets'
            PROVE  \/ f \in Loose(w)
                   \/ \E b \in ProviderAccount : f \in Files(b)'
                   \/ /\ f \in DOMAIN secrets /\ f \notin Loose(v)
                      /\ \A b \in ProviderAccount : f \in Files(b) => f \in Files(b)'
        <5>1. CASE f = v.new \/ f \in Files(a)
          BY <2>2, <3>4, <3>6, <3>7, <5>1 DEF Files
        <5>2. CASE f # v.new /\ f \notin Files(a)
          BY <2>3, <3>2, <3>8, <5>2
        <5> QED  BY <5>1, <5>2
      <4> QED  BY <1>0, <2>1, <3>3, <4>1, ClaimedStays
    <3>10. \A b \in ProviderAccount : Forgetting(b)' => Gone(b)'
      <4>1. ~Forgetting(a)
        BY <2>1, <2>2, NotForgotten DEF AtWork
      <4>2. \A b \in ProviderAccount : Forgetting(b)' => Forgetting(b)
        BY <3>3 DEF Forgetting, Caller
      <4> QED  BY <3>2, <3>8, <4>1, <4>2 DEF Gone
    <3> QED  BY <3>9, <3>10
  <2> QED  BY <2>4, <2>5
<1>3. CASE ImportClean
  <2>1. PICK v, w : v = command["companion"] /\ w = [v EXCEPT !.step = "validate"]
    OBVIOUS
  <2>2. v \in ImportWork /\ v.step = "clean" /\ command' = [command EXCEPT !["companion"] = w]
    BY <1>0, <1>3, <2>1, WorkKnown DEF ImportClean, Performing, Validated, Then
  <2>3. Discarded(Loose(v)) /\ UNCHANGED <<session, imports>>
    BY <1>3, <2>1, <2>2, LooseOf DEF ImportClean
  <2>4. command'["companion"] = w /\ \A d \in Caller \ {"companion"} : command'[d] = command[d]
    BY <1>0, <2>2, OnlyOne
  <2>5. \A b \in ProviderAccount : Files(b)' = Files(b) /\ (Forgetting(b)' => Forgetting(b))
    BY <2>3, <2>4 DEF Files, Forgetting, Caller
  <2>6. \A f \in DOMAIN secrets' : f \in DOMAIN secrets /\ f \notin Loose(v)
    BY <2>3, SecretsDiscarded
  <2>7. \A f \in DOMAIN secrets' : Claimed(f)'
    BY <1>0, <2>1, <2>4, <2>5, <2>6, ClaimedStays
  <2> QED  BY <2>5, <2>6, <2>7 DEF Gone
<1> QED  BY <1>1, <1>2, <1>3 DEF CompanionStep

LEMMA StrayWindow ==
    ASSUME Owned, \A f \in DOMAIN secrets : Claimed(f), \A a \in ProviderAccount : Forgetting(a) => Gone(a),
           WindowStep, "left" \notin accidents', "wiped" \notin accidents'
    PROVE  (\A f \in DOMAIN secrets' : Claimed(f)') /\ (\A a \in ProviderAccount : Forgetting(a)' => Gone(a)')
<1>0. "window" \in Caller /\ SessionsTypes /\ SessionsTypeOK /\ written \in Nat
  BY DEF Caller, Owned, SessionsTypes, SessionsTypeOK
<1> DEFINE Goal == (\A f \in DOMAIN secrets' : Claimed(f)')
                   /\ (\A a \in ProviderAccount : Forgetting(a)' => Gone(a)')
\* A command that goes on but not to its rows, or ends.
<1>c. ASSUME NEW v, NEW w, v = command["window"], command' = [command EXCEPT !["window"] = w], w.step # "rows",
             \A f \in DOMAIN secrets' :
                \/ f \in Loose(w)
                \/ \E a \in ProviderAccount : f \in Files(a)'
                \/ /\ f \in DOMAIN secrets /\ f \notin Loose(v)
                   /\ \A a \in ProviderAccount : f \in Files(a) => f \in Files(a)'
      PROVE  Goal
  <2>1. command'["window"] = w /\ \A d \in Caller \ {"window"} : command'[d] = command[d]
    BY <1>0, <1>c, OnlyOne
  <2>2. \A f \in DOMAIN secrets' : Claimed(f)'
    BY <1>0, <1>c, <2>1, ClaimedStays
  <2>3. \A a \in ProviderAccount : ~Forgetting(a)'
    BY <1>c, <2>1 DEF Forgetting
  <2> QED  BY <2>2, <2>3
\* A command that begins and leaves the files as they are.
<1>b. ASSUME NEW w, command["window"] = NoCommand, command' = [command EXCEPT !["window"] = w], w.step # "rows",
             UNCHANGED <<session, imports, secrets>>
      PROVE  Goal
  <2>1. PICK v : v = command["window"]
    OBVIOUS
  <2>2. Loose(v) = {} /\ \A b \in ProviderAccount : Files(b)' = Files(b)
    BY <1>b, <2>1 DEF Files, Loose, NoCommand
  <2> QED  BY <1>b, <1>c, <2>1, <2>2
\* A command that removes the files of an account, whose rows it is about to forget.
<1>r. ASSUME NEW a \in ProviderAccount, NEW w, command["window"] = NoCommand,
             command' = [command EXCEPT !["window"] = w], w.step = "rows", w.account = a, NEW files,
             secrets' = Without(files), Files(a) \subseteq files, UNCHANGED <<session, imports>>
      PROVE  Goal
  <2>1. PICK v : v = command["window"]
    OBVIOUS
  <2>2. command'["window"] = w /\ \A d \in Caller \ {"window"} : command'[d] = command[d]
    BY <1>0, <1>r, OnlyOne
  <2>3. Loose(v) = {} /\ \A b \in ProviderAccount : Files(b)' = Files(b)
    BY <1>r, <2>1 DEF Files, Loose, NoCommand
  <2>4. DOMAIN secrets' = DOMAIN secrets \ files
    BY <1>r, SecretsWithout
  <2>5. \A f \in DOMAIN secrets' : Claimed(f)'
    BY <1>0, <2>1, <2>2, <2>3, <2>4, ClaimedStays
  <2>6. \A b \in ProviderAccount : Forgetting(b)' => b = a
    BY <1>r, <2>2 DEF Forgetting
  <2>7. Gone(a)'
    BY <1>r, <2>3, <2>4 DEF Gone
  <2> QED  BY <2>5, <2>6, <2>7
\* A command that forgets the rows of an account, whose files are gone.
<1>f. ASSUME NEW v, NEW a \in ProviderAccount, NEW w, v = command["window"], v.step = "rows", v.account = a,
             command' = [command EXCEPT !["window"] = w], w.step # "rows", secrets' = secrets,
             \A b \in ProviderAccount \ {a} : session'[b] = session[b] /\ imports'[b] = imports[b]
      PROVE  Goal
  <2>1. Gone(a) /\ Loose(v) = {}
    BY <1>f, LooseOf DEF Forgetting
  <2>2. \A b \in ProviderAccount \ {a} : Files(b)' = Files(b)
    BY <1>f DEF Files
  <2>3. \A f \in DOMAIN secrets' : f \in DOMAIN secrets /\ f \notin Loose(v) /\ f \notin Files(a)
    BY <1>f, <2>1 DEF Gone
  <2>4. \A f \in DOMAIN secrets' : \A b \in ProviderAccount : f \in Files(b) => f \in Files(b)'
    BY <2>2, <2>3
  <2> QED  BY <1>c, <1>f, <2>3, <2>4
<1>1. ASSUME NEW a \in ProviderAccount, NEW who \in Login, SaveCookies(a, who) PROVE Goal
  <2>1. PICK v, w : /\ v = command["window"]
                    /\ w = [step |-> "commit", kind |-> "save", account |-> a, new |-> written + 1,
                            old |-> session[a], backup |-> imports[a].backup]
    OBVIOUS
  <2>2. /\ command' = [command EXCEPT !["window"] = w] /\ secrets' = WithSecret(written + 1, who)
        /\ UNCHANGED <<session, imports>> /\ v = NoCommand
    BY <1>1, <2>1 DEF SaveCookies, Begin
  <2>3. Loose(w) = {written + 1} /\ Loose(v) = {} /\ w.step # "rows"
    BY <2>1, <2>2 DEF Loose, NoCommand
  <2>4. \A f \in DOMAIN secrets' : f \in DOMAIN secrets \/ f = written + 1
    BY <2>2, SecretsWith
  <2>5. \A b \in ProviderAccount : Files(b)' = Files(b)
    BY <2>2 DEF Files
  <2> QED  BY <1>c, <2>1, <2>2, <2>3, <2>4, <2>5, ZenonT(60)
<1>2. ASSUME NEW a \in ProviderAccount, Revert(a) \/ EditHeaders(a) \/ Validate(a) PROVE Goal
  <2>1. PICK w : /\ command' = [command EXCEPT !["window"] = w] /\ command["window"] = NoCommand
                 /\ UNCHANGED <<session, imports, secrets>> /\ w.step # "rows"
    <3>1. CASE Revert(a)
      <4>1. PICK w : w = [step |-> "commit", kind |-> "revert", account |-> a, old |-> session[a], row |-> imports[a]]
        OBVIOUS
      <4>2. /\ command' = [command EXCEPT !["window"] = w] /\ command["window"] = NoCommand
            /\ UNCHANGED <<session, imports, secrets>>
        BY <3>1, <4>1 DEF Revert, Begin
      <4>3. w.step # "rows"
        BY <4>1
      <4> QED  BY <4>2, <4>3
    <3>2. CASE EditHeaders(a)
      <4>1. PICK w : w = [step |-> "commit", kind |-> "edit", account |-> a, file |-> session[a],
                          has |-> secrets[session[a]]]
        OBVIOUS
      <4>2. /\ command' = [command EXCEPT !["window"] = w] /\ command["window"] = NoCommand
            /\ UNCHANGED <<session, imports, secrets>>
        BY <3>2, <4>1 DEF EditHeaders, Begin
      <4>3. w.step # "rows"
        BY <4>1
      <4> QED  BY <4>2, <4>3
    <3>3. CASE Validate(a)
      <4>1. PICK w : w = [step |-> "validate", kind |-> "validate", account |-> a]
        OBVIOUS
      <4>2. /\ command' = [command EXCEPT !["window"] = w] /\ command["window"] = NoCommand
            /\ UNCHANGED <<session, imports, secrets>>
        BY <3>3, <4>1 DEF Validate, Begin
      <4>3. w.step # "rows"
        BY <4>1
      <4> QED  BY <4>2, <4>3
    <3> QED  BY <1>2, <3>1, <3>2, <3>3
  <2> QED  BY <1>b, <2>1
<1>3. ASSUME NEW a \in ProviderAccount, Clear(a) PROVE Goal
  <2>1. PICK w, files : w = [step |-> "rows", kind |-> "clear", account |-> a] /\ files = Files(a)
    OBVIOUS
  <2>2. /\ command' = [command EXCEPT !["window"] = w] /\ command["window"] = NoCommand
        /\ UNCHANGED <<session, imports>> /\ secrets' = Without(files)
    BY <1>3, <2>1 DEF Clear, Begin, Files
  <2>3. Files(a) \subseteq files /\ w.step = "rows" /\ w.account = a
    BY <2>1
  <2> QED  BY <1>r, <2>2, <2>3
<1>4. ASSUME NEW a \in ProviderAccount, Delete(a) PROVE Goal
  <2>1. PICK w, files : w = [step |-> "rows", kind |-> "delete", account |-> a] /\ files = {session[a], imports[a].backup}
    OBVIOUS
  <2>2. /\ command' = [command EXCEPT !["window"] = w] /\ command["window"] = NoCommand
        /\ UNCHANGED <<session, imports>> /\ secrets' = Without(files)
    BY <1>4, <2>1 DEF Delete
  <2>3. Files(a) \subseteq files /\ w.step = "rows" /\ w.account = a
    BY <2>1 DEF Files
  <2> QED  BY <1>r, <2>2, <2>3
<1>7. CASE SaveCommit
  <2>1. PICK v, a : v = command["window"] /\ a = v.account
    OBVIOUS
  <2>2. v \in SaveWork /\ v.step = "commit" /\ a \in ProviderAccount
    BY <1>0, <1>7, <2>1, WorkKnown DEF SaveCommit, Performing, SaveWork
  <2>3. Loose(v) = {v.new} /\ UNCHANGED imports
    BY <1>7, <2>2, LooseOf DEF SaveCommit
  <2>4. CASE Discarded({v.new}) /\ End("window") /\ UNCHANGED session
    <3>1. PICK w : w = NoCommand
      OBVIOUS
    <3>2. command' = [command EXCEPT !["window"] = w] /\ w.step # "rows"
      BY <2>4, <3>1 DEF End, NoCommand
    <3>3. \A b \in ProviderAccount : Files(b)' = Files(b)
      BY <2>3, <2>4 DEF Files
    <3>4. \A f \in DOMAIN secrets' : f \in DOMAIN secrets /\ f # v.new
      BY <2>4, SecretsDiscarded
    <3> QED  BY <1>c, <2>1, <2>3, <3>2, <3>3, <3>4
  <2>5. CASE /\ session' = [session EXCEPT ![a] = v.new]
             /\ Then("window", "clean")
             /\ UNCHANGED <<secrets, accidents>>
    <3>1. PICK w : w = [v EXCEPT !.step = "clean"]
      OBVIOUS
    <3>2. /\ w \in SaveWork /\ w.step = "clean" /\ w.old = v.old /\ w.backup = v.backup
          /\ command' = [command EXCEPT !["window"] = w]
      BY <2>1, <2>2, <2>5, <3>1, SaveAdvances DEF Then
    <3>3. v.old = session[a] /\ v.backup = imports[a].backup /\ v.new # NoSecret
      BY <1>0, <2>1, <2>2 DEF Owned, FilesApart, UpToDate, SaveWork, Secret, NoSecret
    <3>4. session'[a] = v.new /\ \A b \in ProviderAccount \ {a} : session'[b] = session[b]
      BY <1>0, <2>2, <2>5 DEF SessionsTypeOK
    <3>5. Files(a)' = {v.new, imports[a].backup} \ {NoSecret} /\ \A b \in ProviderAccount \ {a} : Files(b)' = Files(b)
      BY <2>3, <3>4 DEF Files
    <3>6. Loose(w) = {session[a]} \ {NoSecret, imports[a].backup}
      BY <3>2, <3>3, LooseOf DEF OldFile
    <3>7. ASSUME NEW f \in DOMAIN secrets'
          PROVE  \/ f \in Loose(w)
                 \/ \E b \in ProviderAccount : f \in Files(b)'
                 \/ /\ f \in DOMAIN secrets /\ f \notin Loose(v)
                    /\ \A b \in ProviderAccount : f \in Files(b) => f \in Files(b)'
      <4>1. CASE f = v.new \/ f \in Files(a)
        BY <2>2, <3>3, <3>5, <3>6, <4>1 DEF Files
      <4>2. CASE f # v.new /\ f \notin Files(a)
        BY <2>3, <2>5, <3>5, <4>2
      <4> QED  BY <4>1, <4>2
    <3> QED  BY <1>c, <2>1, <3>2, <3>7
  <2> QED  BY <1>7, <2>1, <2>4, <2>5 DEF SaveCommit
<1>8. CASE SaveClean
  <2>1. PICK v, w : v = command["window"] /\ w = [v EXCEPT !.step = "validate"]
    OBVIOUS
  <2>2. v \in SaveWork /\ v.step = "clean" /\ command' = [command EXCEPT !["window"] = w]
    BY <1>0, <1>8, <2>1, WorkKnown DEF SaveClean, Performing, Validated, Then
  <2>3. Discarded(Loose(v)) /\ UNCHANGED <<session, imports>> /\ w.step # "rows"
    BY <1>8, <2>1, <2>2, LooseOf, SaveAdvances DEF SaveClean
  <2>4. \A b \in ProviderAccount : Files(b)' = Files(b)
    BY <2>3 DEF Files
  <2>5. \A f \in DOMAIN secrets' : f \in DOMAIN secrets /\ f \notin Loose(v)
    BY <2>3, SecretsDiscarded
  <2> QED  BY <1>c, <2>1, <2>2, <2>3, <2>4, <2>5
<1>9. CASE RevertCommit
  <2>1. PICK v, a : v = command["window"] /\ a = v.account
    OBVIOUS
  <2>2. v \in RevertWork /\ v.step = "commit" /\ a \in ProviderAccount /\ secrets' = secrets /\ Loose(v) = {}
    BY <1>0, <1>9, <2>1, WorkKnown, LooseOf DEF RevertCommit, Performing, RevertWork
  <2>3. PICK w : /\ command' = [command EXCEPT !["window"] = w] /\ w.step # "rows"
                 /\ \A b \in ProviderAccount : Files(b)' = Files(b)
    <3>1. CASE End("window") /\ UNCHANGED <<session, imports, replaced>>
      <4>1. PICK w : w = NoCommand
        OBVIOUS
      <4>2. command' = [command EXCEPT !["window"] = w] /\ w.step # "rows"
        BY <3>1, <4>1 DEF End, NoCommand
      <4>3. \A b \in ProviderAccount : Files(b)' = Files(b)
        BY <3>1 DEF Files
      <4> QED  BY <4>2, <4>3
    <3>2. CASE ~(End("window") /\ UNCHANGED <<session, imports, replaced>>)
      <4> DEFINE new == IF imports[a].kept
                        THEN [kept |-> TRUE, who |-> v.row.backup_who, backup |-> v.old, backup_who |-> v.row.who]
                        ELSE imports[a]
      <4>1. PICK w : w = [v EXCEPT !.step = "validate"]
        OBVIOUS
      <4>2. /\ session' = [session EXCEPT ![a] = v.row.backup]
            /\ imports' = [imports EXCEPT ![a] = new]
            /\ command' = [command EXCEPT !["window"] = w]
        BY <1>9, <2>1, <3>2, <4>1 DEF RevertCommit, Validated, Then
      <4>3. w.step # "rows"
        BY <2>2, <4>1, RevertAdvances
      <4>4. v.old = session[a] /\ v.row = imports[a] /\ v.row.backup # NoSecret
        BY <1>0, <2>1, <2>2 DEF Owned, FilesApart, UpToDate, RevertWork
      <4>5. imports[a].kept
        BY <2>2, <4>4 DEF Owned, RowsOK
      <4>6. session'[a] = imports[a].backup /\ imports'[a].backup = session[a]
        BY <1>0, <2>2, <4>2, <4>4, <4>5 DEF SessionsTypeOK
      <4>7. \A b \in ProviderAccount \ {a} : session'[b] = session[b] /\ imports'[b] = imports[b]
        BY <1>0, <4>2 DEF SessionsTypeOK
      <4>8. \A b \in ProviderAccount : Files(b)' = Files(b)
        BY <4>6, <4>7 DEF Files
      <4> HIDE DEF new
      <4> QED  BY <4>2, <4>3, <4>8
    <3> QED  BY <3>1, <3>2
  <2> QED  BY <1>c, <2>1, <2>2, <2>3
<1>10. CASE ClearRows
  <2>1. PICK v, a, w : v = command["window"] /\ a = v.account /\ w = [v EXCEPT !.step = "validate"]
    OBVIOUS
  <2>2. v \in ClearWork /\ v.step = "rows" /\ a \in ProviderAccount
    BY <1>0, <1>10, <2>1, WorkKnown DEF ClearRows, Performing, ClearWork
  <2>3. /\ session' = [session EXCEPT ![a] = NoSecret] /\ imports' = [imports EXCEPT ![a] = NoImport]
        /\ command' = [command EXCEPT !["window"] = w] /\ UNCHANGED secrets
    BY <1>10, <2>1 DEF ClearRows, Validated, Then
  <2>4. w.step = "validate"
    BY <2>1, <2>2, ClearAdvances
  <2>5. \A b \in ProviderAccount \ {a} : session'[b] = session[b] /\ imports'[b] = imports[b]
    BY <1>0, <2>3 DEF SessionsTypeOK
  <2> QED  BY <1>f, <2>1, <2>2, <2>3, <2>4, <2>5
<1>11. CASE DeleteRow
  <2>1. PICK v, a, w : v = command["window"] /\ a = v.account /\ w = NoCommand
    OBVIOUS
  <2>2. v \in DeleteWork /\ v.step = "rows" /\ a \in ProviderAccount /\ w.step = "idle"
    BY <1>0, <1>11, <2>1, WorkKnown DEF DeleteRow, Performing, DeleteWork, NoCommand
  <2>3. /\ session' = [session EXCEPT ![a] = NoSecret] /\ imports' = [imports EXCEPT ![a] = NoImport]
        /\ command' = [command EXCEPT !["window"] = w] /\ UNCHANGED secrets
    BY <1>11, <2>1 DEF DeleteRow, End
  <2>5. \A b \in ProviderAccount \ {a} : session'[b] = session[b] /\ imports'[b] = imports[b]
    BY <1>0, <2>3 DEF SessionsTypeOK
  <2> QED  BY <1>f, <2>1, <2>2, <2>3, <2>5
<1>12. CASE EditCommit
  <2>1. PICK v, w : v = command["window"] /\ w = NoCommand
    OBVIOUS
  <2>2. v \in EditWork /\ v.step = "commit" /\ w.step = "idle" /\ Loose(v) = {}
    <3>1. v \in EditWork /\ v.step = "commit"
      BY <1>0, <1>12, <2>1, WorkKnown DEF EditCommit, Performing
    <3> QED  BY <2>1, <3>1, LooseOf DEF NoCommand
  <2>3. /\ secrets' = WithSecret(v.file, v.has) /\ command' = [command EXCEPT !["window"] = w]
        /\ UNCHANGED <<session, imports>>
    BY <1>12, <2>1 DEF EditCommit, End
  <2>4. v.account \in ProviderAccount /\ v.file \in Files(v.account)
    BY <1>0, <2>1, <2>2 DEF Owned, FilesApart, UpToDate, EditWork, Files, Secret, NoSecret
  <2>5. \A b \in ProviderAccount : Files(b)' = Files(b)
    BY <2>3 DEF Files
  <2>6. \A f \in DOMAIN secrets' : f \in DOMAIN secrets \/ f = v.file
    <3>1. PICK file, who : file = v.file /\ who = v.has
      OBVIOUS
    <3>2. secrets' = WithSecret(file, who)
      BY <2>3, <3>1
    <3>3. DOMAIN secrets' = DOMAIN secrets \cup {file}
      BY <3>2, SecretsWith
    <3> QED  BY <3>1, <3>3
  <2>7. \A f \in DOMAIN secrets' :
           \/ \E a \in ProviderAccount : f \in Files(a)'
           \/ /\ f \in DOMAIN secrets /\ f \notin Loose(v)
              /\ \A a \in ProviderAccount : f \in Files(a) => f \in Files(a)'
    BY <2>2, <2>4, <2>5, <2>6
  <2>8. w.step # "rows"
    BY <2>2
  <2> QED  BY <1>c, <2>1, <2>3, <2>7, <2>8
<1> QED
  BY <1>1, <1>2, <1>3, <1>4, <1>7, <1>8, <1>9, <1>10, <1>11, <1>12 DEF WindowStep

LEMMA StrayOther ==
    ASSUME Owned, \A f \in DOMAIN secrets : Claimed(f), \A a \in ProviderAccount : Forgetting(a) => Gone(a),
           AccountStep \/ (\E c \in Caller : ReadSession(c) \/ SettleHealth(c)) \/ ReportHealth \/ ProcessEnds,
           "left" \notin accidents', "wiped" \notin accidents'
    PROVE  (\A f \in DOMAIN secrets' : Claimed(f)') /\ (\A a \in ProviderAccount : Forgetting(a)' => Gone(a)')
<1>0. SessionsTypes /\ "window" \in Caller
  BY DEF Owned, Caller
<1>1. CASE AccountStep \/ ReportHealth
  <2>1. UNCHANGED <<session, imports, secrets, command>>
    BY <1>1 DEF AccountStep, SaveAccount, CloneAccount, Bind, UseSession, ReportHealth
  <2> QED  BY <2>1 DEF Claimed, Forgetting, Gone, Files
<1>2. ASSUME NEW c \in Caller, ReadSession(c) \/ SettleHealth(c)
      PROVE  (\A f \in DOMAIN secrets' : Claimed(f)') /\ (\A a \in ProviderAccount : Forgetting(a)' => Gone(a)')
  <2>1. PICK w : command' = [command EXCEPT ![c] = w] /\ w.step \in {"idle", "settle"}
    <3>1. CASE End(c)
      <4>1. PICK w : w = NoCommand
        OBVIOUS
      <4>2. command' = [command EXCEPT ![c] = w] /\ w.step = "idle"
        BY <3>1, <4>1 DEF End, NoCommand
      <4> QED  BY <4>2
    <3>2. CASE ~End(c)
      <4>1. PICK w : w = [step |-> "settle", kind |-> command[c].kind, account |-> command[c].account,
                          file |-> session[command[c].account], state |-> Verdict_of(session[command[c].account])]
        OBVIOUS
      <4>2. command' = [command EXCEPT ![c] = w] /\ w.step = "settle"
        BY <1>2, <3>2, <4>1 DEF ReadSession, SettleHealth
      <4> QED  BY <4>2
    <3> QED  BY <3>1, <3>2
  <2>2. command'[c] = w /\ \A d \in Caller \ {c} : command'[d] = command[d]
    BY <1>0, <2>1, OnlyOne
  <2>3. UNCHANGED <<session, imports, secrets>> /\ command[c].step \in {"validate", "settle"}
    BY <1>2 DEF ReadSession, SettleHealth
  <2>4. PICK v : v = command[c]
    OBVIOUS
  <2>5. \A a \in ProviderAccount : Files(a)' = Files(a) /\ (Forgetting(a)' => Forgetting(a))
    BY <2>1, <2>2, <2>3 DEF Files, Forgetting, Caller
  <2>6. Loose(v) = {}
    BY <2>3, <2>4, LooseOf
  <2>7. \A f \in DOMAIN secrets' : Claimed(f)'
    BY <2>2, <2>3, <2>4, <2>5, <2>6, ClaimedStays
  <2> QED  BY <2>3, <2>5, <2>7 DEF Gone
<1>3. CASE ProcessEnds
  <2>1. ~Interrupted({"commit", "clean"}, {"import", "save"})
    BY <1>3 DEF ProcessEnds
  <2>2. ASSUME NEW d \in Caller PROVE Loose(command[d]) = {}
    <3>1. command[d].kind \notin {"import", "save"} \/ command[d].step \notin {"commit", "clean"}
      BY <2>1 DEF Interrupted
    <3> QED  BY <3>1 DEF Loose
  <2>3. \A f \in DOMAIN secrets : \E a \in ProviderAccount : f \in Files(a)
    BY <2>2 DEF Claimed
  <2>4. UNCHANGED <<session, imports>> /\ command' = [c \in Caller |-> NoCommand]
        /\ secrets' \in {secrets} \cup
              {WithSecret(command[c].file, Garbage) : c \in {d \in Caller : Performing(d, "edit", "commit")}}
    BY <1>3 DEF ProcessEnds
  <2>5. \A f \in DOMAIN secrets' : \E a \in ProviderAccount : f \in Files(a)
    <3>1. CASE secrets' = secrets
      BY <2>3, <3>1
    <3>2. CASE secrets' # secrets
      <4>1. PICK c \in Caller : Performing(c, "edit", "commit") /\ secrets' = WithSecret(command[c].file, Garbage)
        BY <2>4, <3>2
      <4>2. PICK v, file, none : v = command[c] /\ file = v.file /\ none = Garbage
        OBVIOUS
      <4>3. c = "window" /\ v.step = "commit" /\ v.kind = "edit"
        BY <1>0, <4>1, <4>2 DEF Performing, SessionsTypes, CommandTypes, CompanionWork, ImportWork, JudgeWork,
           NoCommand, Caller
      <4>4. v \in EditWork
        BY <1>0, <4>1, <4>2, <4>3, WorkKnown
      <4>5. v.account \in ProviderAccount /\ file \in Files(v.account)
        BY <1>0, <4>2, <4>3, <4>4 DEF Owned, FilesApart, UpToDate, EditWork, Files, Secret, NoSecret
      <4>6. secrets' = WithSecret(file, none)
        BY <4>1, <4>2
      <4>7. \A f \in DOMAIN secrets' : f \in DOMAIN secrets \/ f = file
        BY <4>6, SecretsWith
      <4> QED  BY <2>3, <4>5, <4>7
    <3> QED  BY <3>1, <3>2
  <2>6. \A a \in ProviderAccount : Files(a)' = Files(a)
    BY <2>4 DEF Files
  <2>7. \A a \in ProviderAccount : ~Forgetting(a)'
    BY <1>0, <2>4 DEF Forgetting, NoCommand
  <2> QED  BY <2>5, <2>6, <2>7 DEF Claimed
<1> QED  BY <1>1, <1>2, <1>3

LEMMA NoneStrayStep ==
    SessionsTypes /\ OwnedUnlessCrossed /\ NoneStray /\ [SessionsNext]_session_vars => NoneStray'
<1> SUFFICES ASSUME SessionsTypes, OwnedUnlessCrossed, NoneStray, [SessionsNext]_session_vars,
                    NoneOf({"crossed", "left", "wiped"})'
             PROVE  (\A f \in DOMAIN secrets' : Claimed(f)') /\ (\A a \in ProviderAccount : Forgetting(a)' => Gone(a)')
  BY DEF NoneStray
<1>0. "left" \notin accidents' /\ "wiped" \notin accidents'
  BY DEF NoneOf
<1>1. CASE SessionsNext
  <2>1. Owned /\ (\A f \in DOMAIN secrets : Claimed(f)) /\ (\A a \in ProviderAccount : Forgetting(a) => Gone(a))
    BY <1>1, AccidentsStay DEF NoneStray, NoneOf, OwnedUnlessCrossed
  <2> QED  BY <1>0, <1>1, <2>1, StrayCompanion, StrayWindow, StrayOther DEF SessionsNext
<1>2. CASE UNCHANGED session_vars
  BY <1>2 DEF session_vars, NoneStray, NoneOf, Claimed, Forgetting, Gone, Files
<1> QED  BY <1>1, <1>2

LEMMA NoneStrayInit == SessionsInit => NoneStray
<1> SUFFICES ASSUME SessionsInit
             PROVE  (\A f \in DOMAIN secrets : Claimed(f)) /\ (\A a \in ProviderAccount : Forgetting(a) => Gone(a))
  BY DEF NoneStray
<1>1. \A a \in ProviderAccount : ~Forgetting(a)
  BY DEF SessionsInit, Forgetting, NoCommand, Caller
<1>2. DOMAIN secrets = {1} /\ 1 \in Files(FirstAccount)
  BY SessionsAssumption DEF SessionsInit, Files, NoSecret
<1> QED  BY <1>1, <1>2, SessionsAssumption DEF Claimed

\* docs/companion-account-import.md, "staged writes and compensating cleanup": whatever is
\* imported, saved, reverted or cleared, and wherever the process ends in that, the file of
\* a session and of its backup is there and whole; and once every command got to its end,
\* no file is there that no row names.  Excepted are two commands at work on one account,
\* a process that ends in the middle of a removal or of a rewrite, and, for the second
\* part, a removal that failed or was not come to.
THEOREM FilesAndRowsMatch == SessionsSpec => []FilesMatchRows
<1>1. SessionsTypes /\ OwnedUnlessCrossed /\ FilesWhole /\ NoneStray => FilesMatchRows
  <2> SUFFICES ASSUME SessionsTypes, OwnedUnlessCrossed, FilesWhole, NoneStray PROVE FilesMatchRows
    OBVIOUS
  <2>1. ASSUME NoneOf({"crossed", "wiped", "torn"}), NEW a \in accounts,
               \A c \in Caller : command[c].step = "rows" => command[c].account # a
        PROVE  \A f \in {session[a], imports[a].backup} \ {NoSecret} : Readable(f)
    <3>1. a \in ProviderAccount /\ ~Forgetting(a)
      BY <2>1 DEF Forgetting, Caller, SessionsTypes, SessionsTypeOK
    <3> QED  BY <2>1, <3>1 DEF FilesWhole, Whole, Files
  <2>2. ASSUME NoneOf({"crossed", "left", "wiped"}), command = [c \in Caller |-> NoCommand], NEW f \in DOMAIN secrets
        PROVE  f \in Named
    <3>1. Owned /\ Claimed(f)
      BY <2>2 DEF OwnedUnlessCrossed, NoneStray, NoneOf
    <3>2. \A c \in Caller : Loose(command[c]) = {}
      BY <2>2, LooseOf DEF NoCommand
    <3>3. PICK a \in ProviderAccount : f \in Files(a)
      BY <3>1, <3>2 DEF Claimed
    <3>4. a \in accounts
      BY <3>1, <3>3 DEF Owned, RowsOK
    <3> QED  BY <3>3, <3>4 DEF Files, Named
  <2> QED  BY <2>1, <2>2 DEF FilesMatchRows, NoneOf
<1>2. SessionsInit => OwnedUnlessCrossed
  BY SessionsTypesInit, OwnedInit DEF OwnedUnlessCrossed, Owned
<1> QED
  BY <1>1, <1>2, SessionsTypesInit, SessionsTypesStep, OwnedStep, FilesWholeInit, FilesWholeStep,
     NoneStrayInit, NoneStrayStep, PTL DEF SessionsSpec

-----------------------------------------------------------------------------
(***************************************************************************)
(* The import of older folders.  What the ledgers of a profile know, what  *)
(* its sync set out from, and what its syncs had to leave it with are in   *)
(* its folder, or the user deleted them from it: as long as no other       *)
(* profile has the folder, and every import was of the folder and the      *)
(* first.                                                                  *)
(***************************************************************************)

ProfileRow ==
    [live : BOOLEAN, handle : DOMAIN HandMade, home : Folder, stamp : Dates, first : Dates,
     by_import : BOOLEAN, special : BOOLEAN]

SyncUnderWay ==
    [of : SourceRow, known : SUBSET Post, from : Dates, force : BOOLEAN, since : Dates]

ImportTypes ==
    /\ profiles \in [SourceRow -> ProfileRow \cup {NoRow}]
    /\ ledgers \in [SourceRow -> SUBSET Post] /\ erased \in [SourceRow -> SUBSET Post]
    /\ due \in [SourceRow -> SUBSET Post] /\ excuses \in [SourceRow -> SUBSET Excuse]
    /\ kept \in [Folder -> SUBSET Post]
    /\ legacy \subseteq LegacyFolder /\ imported \subseteq LegacyFolder
    /\ published \in Dates
    /\ syncing \in SyncUnderWay \cup {NoSync}

ImportQueued ==
    /\ jobs \in Seq(Job) /\ current_job \in Job \cup {NoJob}
    /\ worker \in {"none", "next", "run", "folders"}
    /\ worker \in {"none", "next"} => current_job = NoJob
    /\ \A i, j \in DOMAIN jobs : jobs[i].kind = jobs[j].kind => i = j
    /\ \A i \in DOMAIN jobs : jobs[i].kind # current_job.kind

Excused(p) == excuses[p] # {}
HeldFor(p) == kept[Home(p)] \cup erased[p]

\* A row that was never used has no past, and a backfill only goes over used ones.
FreeRowsBlank ==
    \A p \in SourceRow : profiles[p] = NoRow => ledgers[p] = {} /\ due[p] = {}
BackfillsRows ==
    worker = "folders" /\ current_job.kind = "backfill" =>
        /\ review = [todo |-> review.todo]
        /\ \A p \in review.todo \cap SourceRow : profiles[p] # NoRow

FoldersApart == \A p, q \in Live : p # q /\ Home(p) = Home(q) => Excused(p)
StampedOnce ==
    \A p \in Live : ~Excused(p) /\ profiles[p].by_import => profiles[p].stamp <= profiles[p].first
SyncOfLive ==
    syncing # NoSync => syncing.of \in Live
SyncFromImport ==
    syncing # NoSync /\ ~Excused(syncing.of) => syncing.from <= syncing.since
KnownHeld ==
    \A p \in Live : ~Excused(p) =>
        /\ ledgers[p] \cup due[p] \subseteq HeldFor(p)
        /\ syncing.of = p => syncing.known \subseteq HeldFor(p)

ImportInv ==
    /\ ImportTypes /\ ImportQueued /\ FreeRowsBlank /\ BackfillsRows /\ FoldersApart
    /\ StampedOnce /\ SyncOfLive /\ SyncFromImport /\ KnownHeld
LEMMA LeastRow ==
    ASSUME NEW S \in SUBSET Nat, S # {}
    PROVE  \E m \in S : \A n \in S : m <= n
<1> DEFINE less == OpToRel(<, Nat)
<1>1. IsWellFoundedOn(less, Nat)
  BY NatLessThanWellFounded
<1>2. \A m, n \in Nat : n < m => <<n, m>> \in less
  BY DEF OpToRel
<1> HIDE DEF less
<1>3. PICK m \in S : \A n \in S : ~ (<<n, m>> \in less)
  BY <1>1, WFMin
<1>4. ASSUME NEW n \in S PROVE m <= n
  <2>1. m \in Nat /\ n \in Nat /\ ~(n < m)
    BY <1>2, <1>3
  <2> QED  BY <2>1
<1> QED  BY <1>4

LEMMA ImportConstants ==
    /\ LastPost \in Nat /\ MaxProfiles \in Nat /\ FirstPublished \in 0..LastPost
    /\ Dates \subseteq Nat /\ Post \subseteq Nat /\ SourceRow \subseteq Nat
    /\ 0 \in Dates /\ 0 \notin SourceRow
    /\ LegacyFolder \subseteq Folder /\ "none" \notin Folder
    /\ \A h \in DOMAIN HandMade : HandMade[h] \in Folder
  BY ImportAssumption DEF Dates, Post, SourceRow, Folder

LEMMA NextRowIsFree == Free # {} => NextRow \in Free /\ NextRow \in SourceRow
<1> SUFFICES ASSUME Free # {} PROVE NextRow \in Free
  BY DEF Free
<1>1. Free \in SUBSET Nat
  BY ImportConstants DEF Free
<1>2. \E p \in Free : \A q \in Free : p <= q
  BY <1>1, LeastRow
<1> QED  BY <1>2 DEF NextRow

LEMMA LiveRows ==
    ASSUME ImportTypes, NEW p \in Live
    PROVE  /\ p \in SourceRow /\ profiles[p] \in ProfileRow /\ profiles[p].live
           /\ Home(p) \in Folder /\ profiles[p] # NoRow
<1>1. p \in SourceRow /\ profiles[p].live
  BY DEF Live
<1>2. profiles[p] # NoRow
  BY <1>1 DEF NoRow
<1> QED  BY <1>1, <1>2 DEF ImportTypes, ProfileRow, Home

\* What the catalogue of a folder adds to the ledgers is in the folder.
LEMMA RecordsAreKept ==
    ASSUME ImportTypes, NEW f \in Folder
    PROVE  Records(f) \subseteq kept[f] /\ Records(f) \in SUBSET Post
  BY DEF ImportTypes, Records

LEMMA RowsApart == ASSUME NEW x \in ProfileRow PROVE x # NoRow
<1>1. x.home \in Folder
  BY DEF ProfileRow
<1> QED  BY <1>1, ImportConstants DEF NoRow

LEMMA ImportInvInit == ImportInit => ImportInv
<1> SUFFICES ASSUME ImportInit PROVE ImportInv
  OBVIOUS
<1>1. Live = {}
  BY DEF ImportInit, Live, NoRow
<1>2. ImportTypes
  BY ImportConstants, ImportAssumption DEF ImportInit, ImportTypes, Dates, Post
<1>3. ImportQueued
  BY DEF ImportInit, ImportQueued
<1>4. FreeRowsBlank /\ BackfillsRows
  BY DEF ImportInit, FreeRowsBlank, BackfillsRows
<1> QED
  BY <1>1, <1>2, <1>3, <1>4 DEF ImportInv, ImportInit, FoldersApart, StampedOnce, SyncOfLive, SyncFromImport, KnownHeld

\* What a step that leaves the profiles and the files alone keeps.
LEMMA QueueStep ==
    ASSUME ImportInv,
           UNCHANGED <<profiles, ledgers, erased, kept, legacy, imported, syncing, published,
                       due, excuses>>,
           ImportQueued', BackfillsRows'
    PROVE  ImportInv'
<1>1. Live' = Live
  BY DEF Live
<1>2. ImportTypes' /\ FreeRowsBlank'
  BY DEF ImportInv, ImportTypes, FreeRowsBlank
<1>3. FoldersApart' /\ StampedOnce' /\ SyncOfLive' /\ SyncFromImport' /\ KnownHeld'
  BY <1>1 DEF ImportInv, FoldersApart, StampedOnce, SyncOfLive, SyncFromImport, KnownHeld, Excused, HeldFor, Home
<1> QED  BY <1>2, <1>3 DEF ImportInv

LEMMA ImportQueueKept ==
    ASSUME ImportInv, UNCHANGED <<jobs, current_job, worker>>
    PROVE  ImportQueued'
  BY DEF ImportInv, ImportQueued

LEMMA EnqueueImportStep ==
    ASSUME ImportInv, NEW j \in Job, EnqueueImport(j)
    PROVE  ImportInv'
<1>1. ImportQueued'
  <2>1. CASE jobs' = jobs
    BY <2>1 DEF ImportInv, ImportQueued, EnqueueImport
  <2>2. CASE jobs' # jobs
    <3>1. /\ jobs' = Append(jobs, j) /\ current_job' = current_job
          /\ current_job.kind # j.kind /\ \A i \in DOMAIN jobs : jobs[i].kind # j.kind
      BY <2>2 DEF EnqueueImport
    <3>2. jobs \in Seq(Job)
      BY DEF ImportInv, ImportQueued
    <3>3. /\ jobs' \in Seq(Job) /\ DOMAIN jobs' = DOMAIN jobs \cup {Len(jobs) + 1}
          /\ jobs'[Len(jobs) + 1] = j /\ \A i \in DOMAIN jobs : jobs'[i] = jobs[i]
      BY <3>1, <3>2
    <3>4. \A i, k \in DOMAIN jobs' : jobs'[i].kind = jobs'[k].kind => i = k
      BY <3>1, <3>3 DEF ImportInv, ImportQueued
    <3>5. \A i \in DOMAIN jobs' : jobs'[i].kind # current_job'.kind
      BY <3>1, <3>3 DEF ImportInv, ImportQueued
    <3> QED  BY <3>1, <3>3, <3>4, <3>5 DEF ImportInv, ImportQueued, EnqueueImport
  <2> QED  BY <2>1, <2>2
<1>2. BackfillsRows'
  BY DEF ImportInv, BackfillsRows, EnqueueImport
<1> QED  BY <1>1, <1>2, QueueStep DEF EnqueueImport

LEMMA TakeJobStep == ASSUME ImportInv, TakeJob PROVE ImportInv'
<1>1. ImportQueued'
  <2>1. CASE jobs = << >>
    BY <2>1 DEF ImportInv, ImportQueued, TakeJob
  <2>2. CASE jobs # << >>
    <3>1. jobs' = Tail(jobs) /\ current_job' = Head(jobs) /\ worker' = "run" /\ jobs \in Seq(Job)
      BY <2>2 DEF ImportInv, ImportQueued, TakeJob
    <3>2. /\ jobs' \in Seq(Job) /\ 1 \in DOMAIN jobs /\ current_job' = jobs[1] /\ jobs[1] \in Job
          /\ \A i \in DOMAIN jobs' : i + 1 \in DOMAIN jobs /\ i # 0 /\ i \in Nat /\ jobs'[i] = jobs[i + 1]
      BY <2>2, <3>1
    <3>3. \A i, k \in DOMAIN jobs' : jobs'[i].kind = jobs'[k].kind => i = k
      BY <3>2 DEF ImportInv, ImportQueued
    <3>4. \A i \in DOMAIN jobs' : jobs'[i].kind # current_job'.kind
      BY <3>2 DEF ImportInv, ImportQueued
    <3> QED  BY <3>1, <3>2, <3>3, <3>4 DEF ImportQueued
  <2> QED  BY <2>1, <2>2
<1>2. BackfillsRows'
  BY DEF BackfillsRows, TakeJob
<1> QED  BY <1>1, <1>2, QueueStep DEF TakeJob

LEMMA JobKinds == NoJob.kind = "none" /\ \A j \in Job : j.kind \in {"preview", "backfill", "import"}
  BY DEF NoJob, Job

LEMMA FinishJobStep == ASSUME ImportInv, FinishJob PROVE ImportInv'
<1>1. ImportQueued'
  <2>1. \A i \in DOMAIN jobs : jobs[i] \in Job
    BY DEF ImportInv, ImportQueued
  <2> QED  BY <2>1, JobKinds DEF ImportInv, ImportQueued, FinishJob
<1>2. BackfillsRows'
  BY DEF BackfillsRows, FinishJob
<1> QED  BY <1>1, <1>2, QueueStep DEF FinishJob

LEMMA StartJobStep ==
    ASSUME ImportInv, StartImport \/ StartBackfill
    PROVE  ImportInv'
<1>1. ImportQueued'
  BY DEF ImportInv, ImportQueued, StartImport, StartBackfill
<1>2. BackfillsRows'
  <2>1. CASE StartImport
    BY <2>1 DEF StartImport, BackfillsRows
  <2>2. CASE StartBackfill
    <3>1. review' = [todo |-> Live] /\ profiles' = profiles
      BY <2>2 DEF StartBackfill
    <3> QED  BY <3>1, LiveRows DEF BackfillsRows, ImportInv
  <2> QED  BY <2>1, <2>2
<1> QED  BY <1>1, <1>2, QueueStep DEF StartImport, StartBackfill

\* A profile's ledgers grow by posts that its folder has.
LEMMA SeededInv ==
    ASSUME ImportInv, NEW p \in SourceRow, profiles[p] # NoRow, Seeded(p, Home(p)),
           UNCHANGED <<profiles, erased, kept, legacy, imported, syncing, published, due,
                       excuses>>,
           ImportQueued', BackfillsRows'
    PROVE  ImportInv'
<1>0. ImportTypes /\ FreeRowsBlank /\ KnownHeld
  BY DEF ImportInv
<1>1. Home(p) \in Folder
  BY <1>0 DEF ImportTypes, ProfileRow, Home
<1>2. Records(Home(p)) \subseteq kept[Home(p)] /\ Records(Home(p)) \in SUBSET Post
  BY <1>0, <1>1, RecordsAreKept
<1>3. /\ ledgers' \in [SourceRow -> SUBSET Post]
      /\ ledgers'[p] = ledgers[p] \cup Records(Home(p))
      /\ \A q \in SourceRow \ {p} : ledgers'[q] = ledgers[q]
  BY <1>0, <1>2 DEF ImportTypes, Seeded, Recorded
<1>4. Live' = Live /\ Live \subseteq SourceRow
  BY DEF Live
<1>5. ImportTypes'
  BY <1>0, <1>3 DEF ImportTypes
<1>6. FreeRowsBlank'
  BY <1>0, <1>3 DEF FreeRowsBlank
<1>7. KnownHeld'
  BY <1>0, <1>2, <1>3, <1>4 DEF KnownHeld, Excused, HeldFor, Home
<1>8. FoldersApart' /\ StampedOnce' /\ SyncOfLive' /\ SyncFromImport'
  BY <1>4 DEF ImportInv, FoldersApart, StampedOnce, SyncOfLive, SyncFromImport, Excused, Home
<1> QED  BY <1>5, <1>6, <1>7, <1>8 DEF ImportInv

LEMMA BackfillProfileStep ==
    ASSUME ImportInv, NEW p \in SourceRow, BackfillProfile(p)
    PROVE  ImportInv'
<1>1. review = [todo |-> review.todo] /\ \A q \in review.todo \cap SourceRow : profiles[q] # NoRow
  BY DEF ImportInv, BackfillsRows, BackfillProfile
<1>2. review' = [todo |-> review.todo \ {p}]
  BY <1>1 DEF BackfillProfile
<1>3. BackfillsRows'
  BY <1>1, <1>2 DEF BackfillsRows, BackfillProfile
<1>4. ImportQueued'
  BY ImportQueueKept DEF BackfillProfile
<1>5. profiles[p] # NoRow
  BY <1>1 DEF BackfillProfile
<1> QED  BY <1>3, <1>4, <1>5, SeededInv DEF BackfillProfile

\* A row of its own is used for a new profile: whoever has its folder is not alone.
LEMMA NewProfileApart ==
    ASSUME ImportInv, NEW p \in Free, NEW row \in ProfileRow, row.live,
           profiles' = [profiles EXCEPT ![p] = row], excuses' \in [SourceRow -> SUBSET Excuse],
           \A q \in SourceRow : excuses[q] \subseteq excuses'[q],
           \A q \in Sharers(p, row.home) : "shared" \in excuses'[q]
    PROVE  FoldersApart' /\ p \notin Live /\ p \in SourceRow
<1>0. ImportTypes /\ FoldersApart
  BY DEF ImportInv
<1>1. p \in SourceRow /\ profiles[p] = NoRow /\ p \notin Live
  BY DEF Free, Live, NoRow
<1>2. Live' = Live \cup {p} /\ profiles'[p] = row /\ \A q \in Live : profiles'[q] = profiles[q] /\ q \in SourceRow
  BY <1>0, <1>1 DEF Live, ImportTypes
<1>3. ASSUME NEW q \in Live, Home(q) = row.home PROVE {p, q} \subseteq Sharers(p, row.home)
  BY <1>1, <1>3 DEF Sharers
<1>4. \A q \in Live, r \in Live : q # r /\ Home(q)' = Home(r)' => Excused(q)'
  BY <1>0, <1>2 DEF FoldersApart, Excused, Home
<1>5. \A q \in Live : Home(q)' = Home(p)' => Excused(q)' /\ Excused(p)'
  BY <1>2, <1>3 DEF Excused, Home
<1> QED  BY <1>1, <1>2, <1>4, <1>5 DEF FoldersApart

\* A transaction on a profile with the folder f: into it, or into a new row.
LEMMA StampedInv ==
    ASSUME ImportInv, NEW p \in SourceRow, NEW f \in LegacyFolder, NEW new \in ProfileRow,
           new.live,
           (p \in Live /\ new = profiles[p]) \/ (p \in Free /\ new.home = f /\ new.first = 0),
           Stamped(p, f, new),
           UNCHANGED <<erased, kept, legacy, syncing, published, due>>,
           ImportQueued', BackfillsRows'
    PROVE  ImportInv'
<1> DEFINE first == IF new.first = 0 THEN published ELSE new.first
           row == [new EXCEPT !.stamp = published, !.by_import = TRUE, !.first = first]
<1>0. ImportTypes /\ FreeRowsBlank /\ FoldersApart /\ StampedOnce /\ SyncOfLive /\ SyncFromImport /\ KnownHeld
  BY DEF ImportInv
<1>1. /\ row \in ProfileRow /\ row.live /\ row.home = new.home /\ row.stamp = published
      /\ row.first = first /\ first \in Dates /\ published \in Dates
  <2>1. published \in Dates /\ new.first \in Dates
    BY <1>0 DEF ImportTypes, ProfileRow
  <2>2. first \in Dates
    BY <2>1
  <2> QED  BY <2>1, <2>2 DEF ProfileRow
<1>2. /\ profiles' = [profiles EXCEPT ![p] = row] /\ profiles'[p] = row
      /\ \A q \in SourceRow \ {p} : profiles'[q] = profiles[q]
  BY <1>0 DEF Stamped, ImportTypes
<1> HIDE DEF row
<1>3. /\ excuses' \in [SourceRow -> SUBSET Excuse]
      /\ \A q \in SourceRow : excuses[q] \subseteq excuses'[q]
      /\ \A q \in Sharers(p, row.home) : q \in SourceRow => "shared" \in excuses'[q]
      /\ new.home # f => "joined" \in excuses'[p]
      /\ first < published => "reimported" \in excuses'[p]
  <2>1. \A q \in SourceRow : excuses'[q] = excuses[q]
              \cup (IF q = p /\ new.home # f THEN {"joined"} ELSE {})
              \cup (IF q = p /\ first < published THEN {"reimported"} ELSE {})
              \cup (IF q \in Sharers(p, new.home) THEN {"shared"} ELSE {})
    BY DEF Stamped
  <2>2. \A q \in SourceRow : excuses'[q] \in SUBSET Excuse
    BY <1>0, <2>1 DEF ImportTypes, Excuse
  <2>3. excuses' \in [SourceRow -> SUBSET Excuse]
    BY <2>2 DEF Stamped
  <2> QED  BY <1>1, <2>1, <2>3
<1>4. Records(f) \subseteq kept[f] /\ Records(f) \in SUBSET Post
  BY <1>0, RecordsAreKept, ImportConstants
<1>5. /\ ledgers' \in [SourceRow -> SUBSET Post] /\ ledgers'[p] = ledgers[p] \cup Records(f)
      /\ \A q \in SourceRow \ {p} : ledgers'[q] = ledgers[q]
  BY <1>0, <1>4 DEF ImportTypes, Stamped, Seeded, Recorded
<1>6. ImportTypes'
  <2>1. profiles' \in [SourceRow -> ProfileRow \cup {NoRow}]
    BY <1>0, <1>1, <1>2 DEF ImportTypes
  <2>2. imported' \subseteq LegacyFolder
    BY <1>0 DEF ImportTypes, Stamped
  <2> QED  BY <1>0, <1>3, <1>5, <2>1, <2>2 DEF ImportTypes
<1>7. profiles'[p] # NoRow
  BY <1>1, <1>2, RowsApart
<1>8. FreeRowsBlank'
  BY <1>0, <1>2, <1>5, <1>7 DEF FreeRowsBlank
<1>9. /\ p \in Live' /\ p \in SourceRow /\ Live' = Live \cup {p}
      /\ Live \subseteq SourceRow /\ Home(p)' = new.home
  BY <1>0, <1>1, <1>2 DEF Live, Home
<1>10. \A q \in Live' \ {p} : q \in Live /\ profiles'[q] = profiles[q] /\ Home(q)' = Home(q) /\ HeldFor(q)' = HeldFor(q)
  BY <1>2, <1>9 DEF Home, HeldFor
<1>11. \A q \in SourceRow : Excused(q) => Excused(q)'
  BY <1>3 DEF Excused
<1>12. FoldersApart'
  <2>1. CASE p \in Live /\ new = profiles[p]
    <3>1. \A q \in Live : Home(q)' = Home(q)
      BY <1>10, <1>9, <2>1 DEF Home
    <3> QED  BY <1>0, <1>9, <1>11, <2>1, <3>1 DEF FoldersApart
  <2>2. CASE p \in Free
    <3>1. Sharers(p, row.home) \subseteq SourceRow
      BY DEF Sharers, Live
    <3> QED  BY <1>1, <1>2, <1>3, <2>2, <3>1, NewProfileApart
  <2> QED  BY <2>1, <2>2
<1>13. StampedOnce'
  <2>1. ~Excused(p)' => row.stamp <= row.first
    <3>1. first \in Nat /\ published \in Nat
      BY <1>1, ImportConstants
    <3> QED  BY <1>1, <1>3, <3>1 DEF Excused
  <2>2. \A q \in Live' \ {p} : ~Excused(q)' /\ profiles'[q].by_import => profiles'[q].stamp <= profiles'[q].first
    BY <1>0, <1>9, <1>10, <1>11 DEF StampedOnce
  <2> QED  BY <1>2, <2>1, <2>2 DEF StampedOnce
<1>14. SyncOfLive' /\ SyncFromImport'
  BY <1>0, <1>9, <1>11 DEF SyncOfLive, SyncFromImport
<1>15. KnownHeld'
  <2>1. ASSUME NEW q \in Live' \ {p}, ~Excused(q)'
        PROVE  ledgers'[q] \cup due'[q] \subseteq HeldFor(q)' /\ (syncing'.of = q => syncing'.known \subseteq HeldFor(q)')
    BY <1>0, <1>5, <1>9, <1>10, <1>11, <2>1 DEF KnownHeld
  <2>2. ASSUME ~Excused(p)'
        PROVE  ledgers'[p] \cup due'[p] \subseteq HeldFor(p)' /\ (syncing'.of = p => syncing'.known \subseteq HeldFor(p)')
    <3>1. new.home = f /\ HeldFor(p)' = kept[f] \cup erased[p] /\ ~Excused(p)
      BY <1>3, <1>9, <1>11, <2>2 DEF Excused, HeldFor
    <3>2. CASE p \in Live /\ new = profiles[p]
      <4>1. HeldFor(p) = kept[f] \cup erased[p]
        BY <3>1, <3>2 DEF HeldFor, Home
      <4> QED  BY <1>0, <1>4, <1>5, <3>1, <3>2, <4>1 DEF KnownHeld
    <3>3. CASE p \in Free
      <4>1. profiles[p] = NoRow /\ p \notin Live
        BY <3>3 DEF Free, Live, NoRow
      <4>2. ledgers[p] = {} /\ due[p] = {} /\ syncing.of # p
        BY <1>0, <4>1 DEF FreeRowsBlank, SyncOfLive, NoSync, ImportTypes, SourceRow
      <4> QED  BY <1>4, <1>5, <3>1, <4>2
    <3> QED  BY <3>2, <3>3
  <2> QED  BY <2>1, <2>2 DEF KnownHeld
<1> QED  BY <1>6, <1>8, <1>12, <1>13, <1>14, <1>15 DEF ImportInv

LEMMA ImportFolderStep ==
    ASSUME ImportInv, NEW f \in LegacyFolder, ImportFolder(f)
    PROVE  ImportInv'
<1> DEFINE p == review.seen[f].source
<1>0. ImportTypes
  BY DEF ImportInv
<1>1. ImportQueued'
  BY ImportQueueKept DEF ImportFolder
<1>2. BackfillsRows'
  BY DEF BackfillsRows, ImportFolder
<1>3. UNCHANGED <<erased, kept, legacy, syncing, published, due>>
  BY DEF ImportFolder
<1>4. CASE p \in Live /\ Stamped(p, f, profiles[p])
  <2>1. p \in SourceRow /\ profiles[p] \in ProfileRow /\ profiles[p].live
    BY <1>0, <1>4, LiveRows
  <2>2. PICK q \in Live : q = p
    BY <1>4
  <2>3. PICK new \in ProfileRow : new = profiles[q] /\ new.live
    BY <2>1, <2>2
  <2>4. q \in SourceRow /\ Stamped(q, f, new)
    BY <1>4, <2>1, <2>2, <2>3
  <2>5. (q \in Live /\ new = profiles[q]) \/ (q \in Free /\ new.home = f /\ new.first = 0)
    BY <2>2, <2>3
  <2> HIDE DEF p
  <2> QED  BY <1>1, <1>2, <1>3, <2>3, <2>4, <2>5, StampedInv
<1>5. CASE MayAdd(f) /\ Stamped(NextRow, f, NewProfile(f))
  <2>1. NextRow \in Free /\ NextRow \in SourceRow
    BY <1>5, NextRowIsFree DEF MayAdd
  <2>2. NewProfile(f) \in ProfileRow /\ NewProfile(f).live /\ NewProfile(f).home = f /\ NewProfile(f).first = 0
    <3>1. f \in Folder /\ XmlHandle[f] \in DOMAIN HandMade
      BY ImportConstants, ImportAssumption
    <3> QED  BY <3>1, ImportConstants DEF NewProfile, NoRow, ProfileRow
  <2> QED  BY <1>1, <1>2, <1>3, <1>5, <2>1, <2>2, StampedInv
<1>6. CASE UNCHANGED <<profiles, ledgers, imported, excuses>>
  BY <1>1, <1>2, <1>3, <1>6, QueueStep
<1> QED  BY <1>4, <1>5, <1>6 DEF ImportFolder

\* What the user does to a profile other than through an import.
LEMMA AddByHandStep ==
    ASSUME ImportInv, NEW h \in DOMAIN HandMade, AddByHand(h)
    PROVE  ImportInv'
<1> DEFINE p == NextRow
           row == [NoRow EXCEPT !.live = TRUE, !.handle = h, !.home = HandMade[h]]
<1>0. ImportTypes /\ FreeRowsBlank /\ FoldersApart /\ StampedOnce /\ SyncOfLive /\ SyncFromImport /\ KnownHeld
  BY DEF ImportInv
<1>1. p \in Free /\ p \in SourceRow /\ p \notin Live /\ profiles[p] = NoRow
  BY NextRowIsFree DEF AddByHand, Free, Live, NoRow
<1>2. row \in ProfileRow /\ row.live /\ row.home = HandMade[h] /\ ~row.by_import
  BY ImportConstants DEF NoRow, ProfileRow
<1> HIDE DEF p
<1>3. profiles' = [profiles EXCEPT ![p] = row]
  BY DEF AddByHand, p
<1> HIDE DEF row
<1>4. /\ profiles'[p] = row /\ \A q \in SourceRow \ {p} : profiles'[q] = profiles[q]
      /\ profiles' \in [SourceRow -> ProfileRow \cup {NoRow}] /\ profiles'[p] # NoRow
  BY <1>0, <1>1, <1>2, <1>3, RowsApart DEF ImportTypes
<1>5. /\ excuses' \in [SourceRow -> SUBSET Excuse]
      /\ \A q \in SourceRow : excuses[q] \subseteq excuses'[q]
      /\ \A q \in Sharers(p, row.home) : "shared" \in excuses'[q]
  <2>1. Sharers(p, row.home) \subseteq SourceRow
    BY <1>1 DEF Sharers, Live
  <2>2. excuses' = [q \in SourceRow |-> IF q \in Sharers(p, row.home) THEN excuses[q] \cup {"shared"} ELSE excuses[q]]
    BY <1>2 DEF AddByHand, p
  <2> QED  BY <1>0, <2>1, <2>2 DEF ImportTypes, Excuse
<1>6. FoldersApart'
  BY <1>1, <1>2, <1>3, <1>5, NewProfileApart
<1>7. Live' = Live \cup {p} /\ Live \subseteq SourceRow
  BY <1>1, <1>2, <1>4 DEF Live
<1>8. \A q \in Live : profiles'[q] = profiles[q] /\ q # p /\ (Excused(q) => Excused(q)') /\ HeldFor(q)' = HeldFor(q)
  BY <1>1, <1>4, <1>5, <1>7 DEF Excused, HeldFor, Home, AddByHand
<1>9. UNCHANGED <<ledgers, erased, kept, legacy, imported, jobs, current_job, worker, review, syncing,
                  published, due>>
  BY DEF AddByHand
<1>10. ImportTypes' /\ FreeRowsBlank'
  BY <1>0, <1>4, <1>5, <1>9 DEF ImportTypes, FreeRowsBlank
<1>11. ImportQueued'
  BY <1>9, ImportQueueKept
<1>12. BackfillsRows'
  BY <1>4, <1>9 DEF ImportInv, BackfillsRows
<1>13. StampedOnce'
  BY <1>0, <1>2, <1>4, <1>7, <1>8 DEF StampedOnce
<1>14. SyncOfLive' /\ SyncFromImport'
  BY <1>0, <1>7, <1>8, <1>9 DEF SyncOfLive, SyncFromImport
<1>15. KnownHeld'
  <2>1. ledgers[p] = {} /\ due[p] = {} /\ syncing.of # p
    BY <1>0, <1>1 DEF FreeRowsBlank, SyncOfLive, NoSync, SourceRow
  <2>2. ledgers'[p] = {} /\ due'[p] = {} /\ syncing'.of # p
    BY <1>9, <2>1
  <2> QED  BY <1>0, <1>7, <1>8, <1>9, <2>2 DEF KnownHeld
<1> QED  BY <1>6, <1>10, <1>11, <1>12, <1>13, <1>14, <1>15 DEF ImportInv

LEMMA GiveHandleStep ==
    ASSUME ImportInv, NEW p \in SourceRow, NEW h \in DOMAIN HandMade, GiveHandle(p, h)
    PROVE  ImportInv'
<1>0. ImportTypes /\ FreeRowsBlank /\ FoldersApart /\ StampedOnce /\ SyncOfLive /\ SyncFromImport /\ KnownHeld
  BY DEF ImportInv
<1>1. p \in Live /\ profiles[p] \in ProfileRow
  BY <1>0, LiveRows DEF GiveHandle
<1> DEFINE row == [profiles[p] EXCEPT !.handle = h]
<1>2. /\ row \in ProfileRow /\ row.live = profiles[p].live /\ row.home = profiles[p].home
      /\ row.by_import = profiles[p].by_import /\ row.stamp = profiles[p].stamp
      /\ row.first = profiles[p].first
  BY <1>1 DEF ProfileRow
<1>3. profiles' = [profiles EXCEPT ![p] = row]
  BY DEF GiveHandle
<1> HIDE DEF row
<1>4. /\ profiles'[p] = row /\ \A q \in SourceRow \ {p} : profiles'[q] = profiles[q]
      /\ profiles' \in [SourceRow -> ProfileRow \cup {NoRow}] /\ profiles'[p] # NoRow
  BY <1>0, <1>2, <1>3, RowsApart DEF ImportTypes
<1>5. UNCHANGED <<ledgers, erased, kept, legacy, imported, jobs, current_job, worker, review, syncing,
                  published, due, excuses>>
  BY DEF GiveHandle
<1>6. /\ Live' = Live /\ Live \subseteq SourceRow
      /\ \A q \in Live : /\ Home(q)' = Home(q) /\ HeldFor(q)' = HeldFor(q) /\ Excused(q)' = Excused(q)
                         /\ profiles'[q].by_import = profiles[q].by_import
                         /\ profiles'[q].stamp = profiles[q].stamp
                         /\ profiles'[q].first = profiles[q].first
  <2>1. \A q \in SourceRow : profiles'[q].live = profiles[q].live /\ profiles'[q].home = profiles[q].home
    BY <1>2, <1>4
  <2>2. Live' = Live /\ Live \subseteq SourceRow
    BY <2>1 DEF Live
  <2> QED  BY <1>2, <1>4, <1>5, <2>1, <2>2 DEF Home, HeldFor, Excused
<1>7. ImportTypes' /\ FreeRowsBlank'
  BY <1>0, <1>4, <1>5 DEF ImportTypes, FreeRowsBlank
<1>8. ImportQueued'
  BY <1>5, ImportQueueKept
<1>9. BackfillsRows'
  BY <1>4, <1>5 DEF ImportInv, BackfillsRows
<1>10. FoldersApart' /\ StampedOnce'
  BY <1>0, <1>6 DEF FoldersApart, StampedOnce
<1>11. SyncOfLive' /\ SyncFromImport' /\ KnownHeld'
  BY <1>0, <1>5, <1>6 DEF SyncOfLive, SyncFromImport, KnownHeld
<1> QED  BY <1>7, <1>8, <1>9, <1>10, <1>11 DEF ImportInv

LEMMA RemoveProfileStep ==
    ASSUME ImportInv, NEW p \in SourceRow, NEW with_files \in BOOLEAN, RemoveProfile(p, with_files)
    PROVE  ImportInv'
<1>0. ImportTypes /\ FreeRowsBlank /\ FoldersApart /\ StampedOnce /\ SyncOfLive /\ SyncFromImport /\ KnownHeld
  BY DEF ImportInv
<1>1. p \in Live /\ profiles[p] \in ProfileRow /\ Home(p) \in Folder /\ syncing.of # p
  BY <1>0, LiveRows DEF RemoveProfile
<1> DEFINE row == [profiles[p] EXCEPT !.live = FALSE]
<1>2. row \in ProfileRow /\ ~row.live
  BY <1>1 DEF ProfileRow
<1>3. profiles' = [profiles EXCEPT ![p] = row]
  BY DEF RemoveProfile
<1> HIDE DEF row
<1>4. /\ profiles'[p] = row /\ \A q \in SourceRow \ {p} : profiles'[q] = profiles[q]
      /\ profiles' \in [SourceRow -> ProfileRow \cup {NoRow}] /\ profiles'[p] # NoRow
  BY <1>0, <1>2, <1>3, RowsApart DEF ImportTypes
<1>5. UNCHANGED <<ledgers, erased, imported, jobs, current_job, worker, review, syncing, published, due,
                  excuses>>
  BY DEF RemoveProfile
<1>6. /\ kept' \in [Folder -> SUBSET Post] /\ legacy' \subseteq LegacyFolder
      /\ \A f \in Folder : f # Home(p) => kept'[f] = kept[f]
  BY <1>0, <1>1 DEF ImportTypes, RemoveProfile
<1>7. Live' = Live \ {p} /\ Live \subseteq SourceRow
  BY <1>2, <1>4 DEF Live
<1>8. \A q \in Live' : profiles'[q] = profiles[q] /\ q \in Live /\ q # p /\ Home(q)' = Home(q) /\ Excused(q)' = Excused(q)
  BY <1>4, <1>5, <1>7 DEF Home, Excused
<1>9. \A q \in Live' : ~Excused(q) => HeldFor(q)' = HeldFor(q)
  <2>1. ASSUME NEW q \in Live', ~Excused(q) PROVE HeldFor(q)' = HeldFor(q)
    <3>1. Home(q) # Home(p)
      BY <1>0, <1>1, <1>8, <2>1 DEF FoldersApart
    <3>2. Home(q) \in Folder
      BY <1>0, <1>8, <2>1, LiveRows
    <3> QED  BY <1>5, <1>6, <1>8, <3>1, <3>2 DEF HeldFor
  <2> QED  BY <2>1
<1>10. ImportTypes' /\ FreeRowsBlank'
  BY <1>0, <1>4, <1>5, <1>6 DEF ImportTypes, FreeRowsBlank
<1>11. ImportQueued'
  BY <1>5, ImportQueueKept
<1>12. BackfillsRows'
  BY <1>4, <1>5 DEF ImportInv, BackfillsRows
<1>13. FoldersApart' /\ StampedOnce'
  BY <1>0, <1>8 DEF FoldersApart, StampedOnce
<1>14. SyncOfLive' /\ SyncFromImport' /\ KnownHeld'
  BY <1>0, <1>1, <1>5, <1>7, <1>8, <1>9 DEF SyncOfLive, SyncFromImport, KnownHeld, Excused
<1> QED  BY <1>10, <1>11, <1>12, <1>13, <1>14 DEF ImportInv

LEMMA EraseMediaStep ==
    ASSUME ImportInv, NEW p \in SourceRow, NEW n \in Post, EraseMedia(p, n)
    PROVE  ImportInv'
<1>0. ImportTypes /\ FreeRowsBlank /\ FoldersApart /\ StampedOnce /\ SyncOfLive /\ SyncFromImport /\ KnownHeld
  BY DEF ImportInv
<1>1. p \in Live /\ Home(p) \in Folder /\ profiles[p] # NoRow
  BY <1>0, LiveRows DEF EraseMedia
<1>2. UNCHANGED <<profiles, legacy, imported, jobs, current_job, worker, review, syncing, published, due,
                  excuses>>
  BY DEF EraseMedia
<1>3. /\ kept' \in [Folder -> SUBSET Post] /\ kept'[Home(p)] = kept[Home(p)] \ {n}
      /\ \A f \in Folder : f # Home(p) => kept'[f] = kept[f]
  BY <1>0, <1>1 DEF ImportTypes, EraseMedia
<1>4. /\ erased' \in [SourceRow -> SUBSET Post] /\ erased'[p] = erased[p] \cup {n}
      /\ \A q \in SourceRow \ {p} : erased'[q] = erased[q]
  BY <1>0 DEF ImportTypes, EraseMedia
<1>5. /\ ledgers' \in [SourceRow -> SUBSET Post] /\ ledgers'[p] = ledgers[p] \cup {n}
      /\ \A q \in SourceRow \ {p} : ledgers'[q] = ledgers[q]
  BY <1>0 DEF ImportTypes, EraseMedia, Recorded
<1>6. Live' = Live /\ Live \subseteq SourceRow /\ \A q \in Live : Home(q)' = Home(q) /\ Excused(q)' = Excused(q)
  BY <1>2 DEF Live, Home, Excused
<1>7. n \in HeldFor(p)' /\ HeldFor(p) \subseteq HeldFor(p)'
  BY <1>3, <1>4, <1>6, <1>1 DEF HeldFor
<1>8. \A q \in Live \ {p} : ~Excused(q) => HeldFor(q)' = HeldFor(q)
  <2>1. ASSUME NEW q \in Live \ {p}, ~Excused(q) PROVE HeldFor(q)' = HeldFor(q)
    <3>1. Home(q) # Home(p) /\ Home(q) \in Folder
      BY <1>0, <1>1, <2>1, LiveRows DEF FoldersApart
    <3> QED  BY <1>3, <1>4, <1>6, <2>1, <3>1 DEF HeldFor
  <2> QED  BY <2>1
<1>9. ImportTypes' /\ FreeRowsBlank'
  BY <1>0, <1>1, <1>2, <1>3, <1>4, <1>5 DEF ImportTypes, FreeRowsBlank
<1>10. ImportQueued'
  BY <1>2, ImportQueueKept
<1>11. BackfillsRows'
  BY <1>2 DEF ImportInv, BackfillsRows
<1>12. FoldersApart' /\ StampedOnce' /\ SyncOfLive' /\ SyncFromImport'
  BY <1>0, <1>2, <1>6 DEF FoldersApart, StampedOnce, SyncOfLive, SyncFromImport, Excused
<1>13. KnownHeld'
  BY <1>0, <1>2, <1>5, <1>6, <1>7, <1>8 DEF KnownHeld
<1> QED  BY <1>9, <1>10, <1>11, <1>12, <1>13 DEF ImportInv

LEMMA PublishStep == ASSUME ImportInv, Publish PROVE ImportInv'
<1>0. ImportTypes
  BY DEF ImportInv
<1>1. published' \in Dates
  BY <1>0, ImportConstants DEF ImportTypes, Publish, Dates
<1>2. Live' = Live
  BY DEF Live, Publish
<1>3. ImportTypes' /\ FreeRowsBlank'
  BY <1>1 DEF ImportInv, ImportTypes, FreeRowsBlank, Publish
<1>4. ImportQueued' /\ BackfillsRows'
  BY ImportQueueKept DEF ImportInv, BackfillsRows, Publish
<1>5. FoldersApart' /\ StampedOnce' /\ SyncOfLive' /\ SyncFromImport' /\ KnownHeld'
  BY <1>2 DEF ImportInv, FoldersApart, StampedOnce, SyncOfLive, SyncFromImport, KnownHeld, Excused, HeldFor, Home, Publish
<1> QED  BY <1>3, <1>4, <1>5 DEF ImportInv

\* A sync sets out from what the profile's ledgers know, and from its import.
LEMMA StartImportedSyncStep ==
    ASSUME ImportInv, NEW p \in SourceRow, NEW force \in BOOLEAN, StartSync(p, force)
    PROVE  ImportInv'
<1>0. ImportTypes /\ FreeRowsBlank /\ FoldersApart /\ StampedOnce /\ SyncOfLive /\ SyncFromImport /\ KnownHeld
  BY DEF ImportInv
<1>1. p \in Live /\ profiles[p] \in ProfileRow
  BY <1>0, LiveRows DEF StartSync
<1>2. UNCHANGED <<profiles, ledgers, erased, kept, legacy, imported, jobs, current_job, worker, review,
                  published, due, excuses>>
  BY DEF StartSync
<1>3. /\ ImplicitCutoff(p, force) \in Dates /\ (IF force THEN 0 ELSE profiles[p].first) \in Dates
      /\ ledgers[p] \in SUBSET Post
  BY <1>0, <1>1, ImportConstants DEF ImplicitCutoff, ProfileRow, ImportTypes
<1>4. /\ syncing' \in SyncUnderWay /\ syncing'.of = p /\ syncing'.known = ledgers[p]
      /\ syncing'.from = ImplicitCutoff(p, force)
      /\ syncing'.since = IF force THEN 0 ELSE profiles[p].first
  BY <1>3 DEF StartSync, SyncUnderWay
<1>5. Live' = Live /\ \A q \in Live : Excused(q)' = Excused(q) /\ HeldFor(q)' = HeldFor(q)
  BY <1>2 DEF Live, Home, Excused, HeldFor
<1>6. ImportTypes' /\ FreeRowsBlank'
  BY <1>0, <1>2, <1>4 DEF ImportTypes, FreeRowsBlank
<1>7. ImportQueued' /\ BackfillsRows'
  BY <1>2, ImportQueueKept DEF ImportInv, BackfillsRows
<1>8. FoldersApart' /\ StampedOnce'
  BY <1>0, <1>2, <1>5 DEF FoldersApart, StampedOnce, Home
<1>9. SyncOfLive'
  BY <1>1, <1>4, <1>5 DEF SyncOfLive
<1>10. SyncFromImport'
  <2>1. ASSUME ~Excused(p) PROVE syncing'.from <= syncing'.since
    <3>1. CASE force
      BY <1>4, <3>1 DEF ImplicitCutoff
    <3>2. CASE ~force /\ profiles[p].by_import
      BY <1>0, <1>1, <1>4, <2>1, <3>2 DEF ImplicitCutoff, StampedOnce
    <3>3. CASE ~force /\ ~profiles[p].by_import
      <4>1. profiles[p].first \in Nat
        BY <1>1, ImportConstants DEF ProfileRow
      <4> QED  BY <1>4, <3>3, <4>1 DEF ImplicitCutoff
    <3> QED  BY <3>1, <3>2, <3>3
  <2> QED  BY <1>1, <1>4, <1>5, <2>1 DEF SyncFromImport
<1>11. KnownHeld'
  BY <1>0, <1>1, <1>2, <1>4, <1>5 DEF KnownHeld
<1> QED  BY <1>6, <1>7, <1>8, <1>9, <1>10, <1>11 DEF ImportInv

LEMMA FinishSyncStep == ASSUME ImportInv, FinishSync PROVE ImportInv'
<1> DEFINE posts == {n \in 1..published : n > syncing.from} \ syncing.known
           late == {n \in 1..published : n > syncing.since}
<1>0. ImportTypes /\ FreeRowsBlank /\ FoldersApart /\ StampedOnce /\ SyncOfLive /\ SyncFromImport /\ KnownHeld
  BY DEF ImportInv
<1>p. PICK p \in SourceRow : p = syncing.of
  BY <1>0, LiveRows DEF SyncOfLive, FinishSync
<1>n. PICK new : new = posts
  OBVIOUS
<1>o. PICK owed : owed = late
  OBVIOUS
<1>1. p \in Live /\ Home(p) \in Folder /\ p \in SourceRow /\ profiles[p] # NoRow /\ syncing \in SyncUnderWay
  BY <1>0, <1>p, LiveRows DEF SyncOfLive, FinishSync, ImportTypes
<1>2. new \in SUBSET Post /\ owed \in SUBSET Post
  <2>1. published \in 0..LastPost
    BY <1>0 DEF ImportTypes, Dates
  <2> QED  BY <1>n, <1>o, <2>1, ImportConstants DEF Post
<1>3. ~Excused(p) => owed \subseteq new \cup syncing.known
  <2>1. /\ syncing.from \in Nat /\ syncing.since \in Nat
        /\ ~Excused(p) => syncing.from <= syncing.since
    BY <1>0, <1>1, <1>p, ImportConstants DEF SyncUnderWay, SyncFromImport, FinishSync
  <2> QED  BY <1>n, <1>o, <2>1
<1>4. /\ kept' = [kept EXCEPT ![Home(p)] = kept[Home(p)] \cup new]
      /\ ledgers' = [ledgers EXCEPT ![p] = ledgers[p] \cup new]
      /\ due' = [due EXCEPT ![p] = due[p] \cup owed]
      /\ syncing' = NoSync
      /\ UNCHANGED <<profiles, erased, legacy, imported, jobs, current_job, worker, review, published,
                     excuses>>
  BY <1>p, <1>n, <1>o DEF FinishSync, Recorded
<1> HIDE DEF posts, late
<1>5. /\ kept' \in [Folder -> SUBSET Post] /\ kept'[Home(p)] = kept[Home(p)] \cup new
      /\ \A f \in Folder : kept[f] \subseteq kept'[f]
  BY <1>0, <1>1, <1>2, <1>4 DEF ImportTypes
<1>6. /\ ledgers' \in [SourceRow -> SUBSET Post] /\ ledgers'[p] = ledgers[p] \cup new
      /\ due' \in [SourceRow -> SUBSET Post] /\ due'[p] = due[p] \cup owed
      /\ \A q \in SourceRow \ {p} : ledgers'[q] = ledgers[q] /\ due'[q] = due[q]
  BY <1>0, <1>1, <1>2, <1>4 DEF ImportTypes
<1>7. Live' = Live /\ Live \subseteq SourceRow
  BY <1>4 DEF Live
<1>8. \A q \in Live : Home(q)' = Home(q) /\ Home(q) \in Folder /\ Excused(q)' = Excused(q) /\ HeldFor(q) \subseteq HeldFor(q)'
  BY <1>0, <1>4, <1>5, LiveRows DEF Home, Excused, HeldFor
<1>9. ImportTypes'
  BY <1>0, <1>4, <1>5, <1>6 DEF ImportTypes
<1>10. FreeRowsBlank'
  BY <1>0, <1>1, <1>4, <1>6 DEF FreeRowsBlank
<1>11. ImportQueued' /\ BackfillsRows'
  BY <1>4, ImportQueueKept DEF ImportInv, BackfillsRows
<1>12. FoldersApart' /\ StampedOnce' /\ SyncOfLive' /\ SyncFromImport'
  BY <1>0, <1>4, <1>7, <1>8 DEF FoldersApart, StampedOnce, SyncOfLive, SyncFromImport
<1>13. KnownHeld'
  <2>1. ASSUME NEW q \in Live, ~Excused(q) PROVE ledgers'[q] \cup due'[q] \subseteq HeldFor(q)'
    <3>1. ledgers[q] \cup due[q] \subseteq HeldFor(q)'
      BY <1>0, <1>8, <2>1 DEF KnownHeld
    <3>2. CASE q = p
      <4>1. new \subseteq HeldFor(p)'
        BY <1>1, <1>5, <1>8 DEF HeldFor
      <4>2. syncing.known \subseteq HeldFor(p)'
        BY <1>0, <1>8, <1>p, <2>1, <3>2 DEF KnownHeld
      <4> QED  BY <1>3, <1>6, <2>1, <3>1, <3>2, <4>1, <4>2
    <3>3. CASE q # p
      BY <1>6, <1>7, <3>1, <3>3
    <3> QED  BY <3>2, <3>3
  <2>2. \A q \in Live : syncing'.of # q
    BY <1>4, <1>7, ImportConstants DEF NoSync
  <2> QED  BY <1>7, <1>8, <2>1, <2>2 DEF KnownHeld
<1> QED  BY <1>9, <1>10, <1>11, <1>12, <1>13 DEF ImportInv

LEMMA ImportInvStep == ImportInv /\ [ImportNext]_import_vars => ImportInv'
<1> SUFFICES ASSUME ImportInv, [ImportNext]_import_vars PROVE ImportInv'
  OBVIOUS
<1>1. CASE ImportNext
  BY <1>1, EnqueueImportStep, TakeJobStep, FinishJobStep, StartJobStep, ImportFolderStep, BackfillProfileStep,
     AddByHandStep, GiveHandleStep, RemoveProfileStep, EraseMediaStep, PublishStep, StartImportedSyncStep,
     FinishSyncStep DEF ImportNext
<1>2. CASE UNCHANGED import_vars
  <2>1. ImportQueued' /\ BackfillsRows'
    BY <1>2, ImportQueueKept DEF import_vars, ImportInv, BackfillsRows
  <2> QED  BY <1>2, <2>1, QueueStep DEF import_vars
<1> QED  BY <1>1, <1>2

LEMMA ImportAlways == ImportSpec => []ImportInv
  BY ImportInvInit, ImportInvStep, PTL DEF ImportSpec

\* For every set of folders, of profiles and of posts: the rows of the profiles, their
\* ledgers and folders keep their types; of a kind of job one at most waits or runs, so
\* that no more than three wait.
THEOREM ImportTypeCorrect == ImportSpec => []ImportTypeOK
<1>1. ImportInv => ImportTypeOK
  <2> SUFFICES ASSUME ImportTypes, ImportQueued PROVE ImportTypeOK
    BY DEF ImportInv
  <2>1. ASSUME NEW p \in SourceRow, profiles[p] # NoRow
        PROVE  /\ profiles[p].handle \in DOMAIN HandMade /\ Home(p) \in Folder
               /\ {profiles[p].stamp, profiles[p].first} \subseteq Dates
    BY <2>1 DEF ImportTypes, ProfileRow, Home
  <2>2. Len(jobs) <= 3
    <3>1. jobs \in Seq(Job) /\ \A i \in DOMAIN jobs : jobs[i].kind \in {"preview", "backfill", "import"}
      BY JobKinds DEF ImportQueued
    <3>2. SUFFICES ASSUME Len(jobs) > 3 PROVE FALSE
      BY <3>1
    <3>3. {1, 2, 3, 4} \subseteq DOMAIN jobs
      BY <3>1, <3>2
    <3> QED  BY <3>1, <3>3 DEF ImportQueued
  <2>3. current_job # NoJob => worker # "none"
    BY DEF ImportQueued
  <2> QED  BY <2>1, <2>2, <2>3 DEF ImportTypes, ImportQueued, ImportTypeOK
<1> QED  BY <1>1, ImportAlways, PTL

\* For every set of older folders, of profiles and of posts, whatever is imported,
\* renamed, deleted, added and synced meanwhile: what the syncs of a profile had to
\* leave it with, everything since its import and after a forced one everything, is in
\* its folder or the user deleted it there; unless the folder became another's too,
\* another folder was imported into it, or a later import moved the date.
THEOREM AlwaysCaughtUp == ImportSpec => []CaughtUp
<1>1. ImportInv => CaughtUp
  BY DEF ImportInv, KnownHeld, CaughtUp, Excused, HeldFor
<1> QED  BY <1>1, ImportAlways, PTL
-----------------------------------------------------------------------------
(***************************************************************************)
(* Single videos.  Of a file of a post that was not spoilt, some folder    *)
(* holds a whole copy whenever any folder holds one, or the worker is      *)
(* writing it; while a move copies a file to another disk the whole copy   *)
(* is not the one being written, and once it is copied not the original    *)
(* only.  The files are within reach: in the root, in a folder that a move *)
(* left halfway or in the one a move goes to.                              *)
(***************************************************************************)
\* The queue as the worker finds it: no link twice, none that is being downloaded.
SingleQueue ==
    /\ links \in Seq(Link) /\ queued \in SUBSET Link /\ IsFiniteSet(queued)
    /\ \A i, j \in DOMAIN links : links[i] = links[j] => i = j
    /\ \A i \in DOMAIN links : links[i] \in queued
    /\ Len(links) = Cardinality(queued)
    /\ current \in (Link \ queued) \cup {NoLink}
    /\ current # NoLink <=> fetcher.step \in {"start", "fetch"}

SingleFetch ==
    fetcher \in {NoFetch} \cup [step : {"take", "start"}]
                \cup [step : {"fetch"}, root : Place, got : SUBSET Part,
                      writing : Part \cup {NoPart}]
FetchIsOfPost ==
    fetcher.step = "fetch" =>
        /\ \A n \in fetcher.got : n[1] = PostOf[current]
        /\ fetcher.writing # NoPart => fetcher.writing[1] = PostOf[current]

SingleFiles ==
    /\ folders = [d \in Place |-> folders[d]]
    /\ \A d \in Place : DOMAIN folders[d] \subseteq Part
    /\ \A d \in Place, n \in Part : Has(d, n) => folders[d][n] \in {"whole", "part"}
SingleRows ==
    /\ catalogue \in [Single -> Part \cup {NoPart}]
    /\ \A s \in Single : catalogue[s] # NoPart => catalogue[s][1] = s
SingleMove ==
    /\ root \in Place /\ halfway \subseteq Place
    /\ \/ move = NoMove
       \/ /\ move \in [to : Place, todo : SUBSET Part, copy : Part \cup {NoPart},
                       copied : BOOLEAN]
          /\ move.to # root /\ move.to \in halfway
          /\ move.copy = NoPart => ~move.copied
    /\ removal \in Single \cup {"none"}
    /\ trouble \subseteq {"apart", "overtaken"} /\ doubtful \subseteq Single

SingleTypes ==
    SingleQueue /\ SingleFetch /\ FetchIsOfPost /\ SingleFiles /\ SingleRows /\ SingleMove

LEMMA SingleParts ==
    /\ \A s \in Single : Parts(s) \subseteq Part /\ <<s, 1>> \in Parts(s)
    /\ \A n \in Part : n[1] \in Single /\ n[2] \in 1..3 /\ n = <<n[1], n[2]>>
    /\ \A s \in Single : \A n \in Parts(s) : n[1] = s
    /\ NoPart \notin Part /\ Single = {PostOf[u] : u \in Link} /\ "none" \notin Single
    /\ "none" \notin Link /\ "none" \notin Place
    /\ Slideshow \subseteq Single
  <1>1. \A s \in Single : \A n \in Parts(s) : n \in {<<s, 1>>, <<s, 2>>, <<s, 3>>}
        BY DEF Parts, Images, Sound
  <1>2. \A n \in Part : \E s \in Single : n \in Parts(s)
        BY DEF Part
  <1>3. \A s \in Single : Parts(s) \subseteq Part
        BY DEF Part
  <1>4. \A s \in Single : <<s, 1>> \in Parts(s)
        BY DEF Parts, Images
  <1>5. \A n \in Part : n[1] \in Single /\ n[2] \in 1..3 /\ n = <<n[1], n[2]>>
        BY <1>1, <1>2
  <1>6. NoPart \notin Part
        BY <1>5 DEF NoPart
  <1>7. \A s \in Single : \A n \in Parts(s) : n[1] = s
        BY <1>1
  <1> QED BY <1>3, <1>4, <1>5, <1>6, <1>7, SinglesAssumption DEF Single

\* What becomes of the files when one is written, or some are removed, in one folder.
FilePut(d, n, st) ==
    /\ SingleFiles'
    /\ \A e \in Place, m \in Part : Has(e, m)' <=> Has(e, m) \/ (e = d /\ m = n)
    /\ folders'[d][n] = st
    /\ \A e \in Place, m \in Part :
          Has(e, m)' /\ ~(e = d /\ m = n) => folders'[e][m] = folders[e][m]
LEMMA PutFile ==
    ASSUME SingleFiles, NEW d \in Place, NEW n \in Part, NEW st \in {"whole", "part"},
           folders' = [folders EXCEPT ![d] = With(@, n, st)]
    PROVE  FilePut(d, n, st)
  <1>1. folders' = [e \in Place |-> IF e = d THEN With(folders[e], n, st) ELSE folders[e]]
        BY DEF SingleFiles
  <1>2. \A e \in Place : e # d => folders'[e] = folders[e]
        BY <1>1
  <1>3. folders'[d] = With(folders[d], n, st)
        BY <1>1
  <1>4. DOMAIN folders'[d] = DOMAIN folders[d] \cup {n}
        BY <1>3 DEF With
  <1>5. \A m \in DOMAIN folders'[d] : folders'[d][m] = IF m = n THEN st ELSE folders[d][m]
        BY <1>3 DEF With
  <1>6. \A e \in Place, m \in Part : Has(e, m)' <=> Has(e, m) \/ (e = d /\ m = n)
        BY <1>2, <1>4 DEF Has
  <1>7. \A e \in Place, m \in Part :
           Has(e, m)' => folders'[e][m] = IF e = d /\ m = n THEN st ELSE folders[e][m]
        BY <1>2, <1>5 DEF Has
  <1>8. folders' = [e \in Place |-> folders'[e]]
        BY <1>1
  <1>9. \A e \in Place : DOMAIN folders'[e] \subseteq Part
        BY <1>2, <1>4 DEF SingleFiles
  <1>10. \A e \in Place, m \in Part : Has(e, m)' => folders'[e][m] \in {"whole", "part"}
        BY <1>6, <1>7 DEF SingleFiles
  <1>11. folders'[d][n] = st
        BY <1>4, <1>5
  <1>12. \A e \in Place, m \in Part :
            Has(e, m)' /\ ~(e = d /\ m = n) => folders'[e][m] = folders[e][m]
        BY <1>7
  <1>13. SingleFiles'
        BY <1>8, <1>9, <1>10 DEF SingleFiles
  <1> QED BY <1>6, <1>11, <1>12, <1>13 DEF FilePut

LEMMA DropFiles ==
    ASSUME SingleFiles, NEW d \in Place, NEW gone,
           folders' = [folders EXCEPT ![d] = Less(@, gone)]
    PROVE  /\ SingleFiles'
           /\ \A e \in Place, m \in Part : Has(e, m)' <=> Has(e, m) /\ ~(e = d /\ m \in gone)
           /\ \A e \in Place, m \in Part : Has(e, m)' => folders'[e][m] = folders[e][m]
  <1>1. folders' = [e \in Place |-> IF e = d THEN Less(folders[e], gone) ELSE folders[e]]
        BY DEF SingleFiles
  <1>2. \A e \in Place : e # d => folders'[e] = folders[e]
        BY <1>1
  <1>3. folders'[d] = Less(folders[d], gone)
        BY <1>1
  <1>4. DOMAIN folders'[d] = DOMAIN folders[d] \ gone
        BY <1>3 DEF Less
  <1>5. \A m \in DOMAIN folders'[d] : folders'[d][m] = folders[d][m]
        BY <1>3 DEF Less
  <1>6. \A e \in Place, m \in Part : Has(e, m)' <=> Has(e, m) /\ ~(e = d /\ m \in gone)
        BY <1>2, <1>4 DEF Has
  <1>7. \A e \in Place, m \in Part : Has(e, m)' => folders'[e][m] = folders[e][m]
        BY <1>2, <1>5 DEF Has
  <1>8. folders' = [e \in Place |-> folders'[e]]
        BY <1>1
  <1>9. \A e \in Place : DOMAIN folders'[e] \subseteq Part
        BY <1>2, <1>4 DEF SingleFiles
  <1>10. \A e \in Place, m \in Part : Has(e, m)' => folders'[e][m] \in {"whole", "part"}
        BY <1>6, <1>7 DEF SingleFiles
  <1> QED BY <1>6, <1>7, <1>8, <1>9, <1>10 DEF SingleFiles

FileMoved(d, e, n) ==
    /\ SingleFiles'
    /\ \A f \in Place, m \in Part :
          Has(f, m)' <=> (Has(f, m) /\ ~(f = d /\ m = n)) \/ (f = e /\ m = n)
    /\ Has(e, n)' => folders'[e][n] = folders[d][n]
    /\ \A f \in Place, m \in Part :
          Has(f, m)' /\ ~(f = e /\ m = n) => folders'[f][m] = folders[f][m]
LEMMA MoveFile ==
    ASSUME SingleFiles, NEW d \in Place, NEW e \in Place, d # e, NEW n \in Part, Has(d, n),
           folders' = [folders EXCEPT ![d] = Less(@, {n}), ![e] = With(@, n, folders[d][n])]
    PROVE  FileMoved(d, e, n)
  <1>1. folders' = [f \in Place |-> IF f = e THEN With(folders[f], n, folders[d][n])
                                    ELSE IF f = d THEN Less(folders[f], {n}) ELSE folders[f]]
        BY DEF SingleFiles
  <1>2. \A f \in Place \ {d, e} : folders'[f] = folders[f]
        BY <1>1
  <1>3. folders'[e] = With(folders[e], n, folders[d][n]) /\ folders'[d] = Less(folders[d], {n})
        BY <1>1
  <1>4. /\ DOMAIN folders'[e] = DOMAIN folders[e] \cup {n}
        /\ DOMAIN folders'[d] = DOMAIN folders[d] \ {n}
        BY <1>3 DEF With, Less
  <1>5. /\ \A m \in DOMAIN folders'[e] :
              folders'[e][m] = IF m = n THEN folders[d][n] ELSE folders[e][m]
        /\ \A m \in DOMAIN folders'[d] : folders'[d][m] = folders[d][m]
        BY <1>3 DEF With, Less
  <1>6. \A f \in Place, m \in Part :
           Has(f, m)' <=> (Has(f, m) /\ ~(f = d /\ m = n)) \/ (f = e /\ m = n)
        BY <1>2, <1>4 DEF Has
  <1>7. \A f \in Place, m \in Part :
           Has(f, m)' => folders'[f][m] = IF f = e /\ m = n THEN folders[d][n]
                                          ELSE folders[f][m]
    <2> SUFFICES ASSUME NEW f \in Place, NEW m \in Part, Has(f, m)'
                 PROVE  folders'[f][m] = IF f = e /\ m = n THEN folders[d][n]
                                         ELSE folders[f][m]
        OBVIOUS
    <2>1. CASE f = e
          BY <1>5, <2>1 DEF Has
    <2>2. CASE f = d
          BY <1>5, <2>2 DEF Has
    <2>3. CASE f # d /\ f # e
      <3>1. folders'[f] = folders[f]
            BY <1>2, <2>3
      <3> QED BY <2>3, <3>1
    <2> QED BY <2>1, <2>2, <2>3
  <1>8. folders' = [f \in Place |-> folders'[f]]
        BY <1>1
  <1>9. \A f \in Place : DOMAIN folders'[f] \subseteq Part
        BY <1>2, <1>4 DEF SingleFiles
  <1>10. \A f \in Place, m \in Part : Has(f, m)' => folders'[f][m] \in {"whole", "part"}
        BY <1>6, <1>7 DEF SingleFiles
  <1> QED BY <1>6, <1>7, <1>8, <1>9, <1>10 DEF SingleFiles, FileMoved
-----------------------------------------------------------------------------
\* Where a file is whole, or is going to be once the worker has written it.
WritesAt(d, n) == fetcher.step = "fetch" /\ fetcher.writing = n /\ fetcher.root = d
Intact(n) == {d \in Place : Has(d, n) /\ (folders[d][n] = "whole" \/ WritesAt(d, n))}

WholeBesideParts ==
    \A n \in Part, d \in Place : n[1] \notin doubtful /\ Has(d, n) => Intact(n) # {}
NamedAreHeld ==
    \A s \in Single \ (doubtful \cup {removal}) :
        catalogue[s] # NoPart => \E d \in Place : Has(d, catalogue[s])
FetchedAreHeld ==
    fetcher.step = "fetch" /\ PostOf[current] \notin doubtful =>
        /\ \A n \in fetcher.got : \E d \in Place : Has(d, n)
        /\ fetcher.writing # NoPart => Has(fetcher.root, fetcher.writing)
CopyBesideWhole ==
    \A n \in Part :
        move # NoMove /\ move.copy = n /\ n[1] \notin doubtful =>
            /\ Has(root, n) => Intact(n) \ {move.to} # {}
            /\ move.copied => Intact(n) \ {root} # {}
WithinReach ==
    trouble = {} =>
        /\ \A d \in Place, n \in Part : Has(d, n) => d \in {root} \cup halfway
        /\ fetcher.step = "fetch" => fetcher.root = root
        /\ move # NoMove => \A n \in Part : Has(root, n) => n \in move.todo

SinglesInv ==
    /\ SingleTypes /\ WholeBesideParts /\ NamedAreHeld /\ FetchedAreHeld
    /\ CopyBesideWhole /\ WithinReach

LEMMA SinglesStart == SinglesInit => SinglesInv
  <1> SUFFICES ASSUME SinglesInit PROVE SinglesInv
      OBVIOUS
  <1>1. SingleQueue
        BY FS_EmptySet DEF SinglesInit, SingleQueue, NoFetch, NoLink
  <1>2. SingleFetch /\ FetchIsOfPost
        BY DEF SinglesInit, SingleFetch, FetchIsOfPost, NoFetch
  <1>3. \A d \in Place : folders[d] = << >> /\ DOMAIN folders[d] = {}
        BY DEF SinglesInit
  <1>4. SingleFiles
        BY <1>3 DEF SinglesInit, SingleFiles, Has
  <1>5. SingleRows
        BY DEF SinglesInit, SingleRows
  <1>6. SingleMove
        BY SinglesAssumption DEF SinglesInit, SingleMove
  <1>7. \A d \in Place, n \in Part : ~Has(d, n)
        BY <1>3 DEF Has
  <1> QED BY <1>1, <1>2, <1>4, <1>5, <1>6, <1>7
          DEF SinglesInit, SinglesInv, SingleTypes, WholeBesideParts, NamedAreHeld,
              FetchedAreHeld, CopyBesideWhole, WithinReach, NoFetch

\* The rules about files, when no file changes.
LEMMA FilesAlone ==
    ASSUME SinglesInv, UNCHANGED folders, doubtful \subseteq doubtful',
           \A n \in Part, d \in Place :
              n[1] \notin doubtful' => (WritesAt(d, n)' <=> WritesAt(d, n)),
           UNCHANGED <<move, root>> \/ move' = NoMove \/ move'.copy = NoPart
    PROVE  WholeBesideParts' /\ CopyBesideWhole'
  <1>1. \A n \in Part : /\ n[1] \notin doubtful' => Intact(n)' = Intact(n)
                        /\ \A d \in Place : Has(d, n)' <=> Has(d, n)
        BY DEF Intact, Has
  <1>2. WholeBesideParts'
        BY <1>1 DEF SinglesInv, WholeBesideParts
  <1>3. CASE UNCHANGED <<move, root>>
    <2> SUFFICES ASSUME NEW n \in Part,
                        (move # NoMove /\ move.copy = n /\ n[1] \notin doubtful)'
                 PROVE  (/\ Has(root, n) => Intact(n) \ {move.to} # {}
                         /\ move.copied => Intact(n) \ {root} # {})'
        BY <1>2 DEF CopyBesideWhole
    <2>1. (Has(root, n)' <=> Has(root, n)) /\ Intact(n)' = Intact(n) /\ n[1] \notin doubtful
          BY <1>1, <1>3 DEF Has
    <2> QED BY <1>3, <2>1 DEF SinglesInv, CopyBesideWhole
  <1>4. CASE move' = NoMove \/ move'.copy = NoPart
    <2> SUFFICES ASSUME NEW n \in Part, move' # NoMove, move'.copy = n PROVE FALSE
        BY <1>2 DEF CopyBesideWhole, NoMove
    <2> QED BY <1>4, SingleParts
  <1> QED BY <1>2, <1>3, <1>4

LEMMA SingleQueueStep ==
    ASSUME SinglesInv, (\E u \in Link : EnqueueSingle(u)) \/ TakeSingle \/ StartFetch
    PROVE  SinglesInv'
  <1>1. \A n \in Part, d \in Place : WritesAt(d, n)' <=> WritesAt(d, n)
    <2>1. \/ UNCHANGED fetcher
          \/ fetcher.step # "fetch" /\ (fetcher'.step # "fetch" \/ fetcher'.writing = NoPart)
          BY DEF EnqueueSingle, TakeSingle, StartFetch, NoFetch
    <2> QED BY <2>1, SingleParts DEF WritesAt
  <1>2. SingleQueue' /\ SingleFetch' /\ FetchIsOfPost'
    <2>1. ASSUME NEW u \in Link, EnqueueSingle(u)
          PROVE  SingleQueue' /\ SingleFetch' /\ FetchIsOfPost'
      <3>1. CASE current = u \/ u \in queued
            BY <2>1, <3>1 DEF EnqueueSingle, SinglesInv, SingleTypes, SingleQueue, SingleFetch,
                              FetchIsOfPost
      <3>2. CASE ~(current = u \/ u \in queued)
        <4>1. /\ links' = Append(links, u) /\ queued' = queued \cup {u} /\ UNCHANGED current
              /\ fetcher' = IF fetcher = NoFetch THEN [step |-> "take"] ELSE fetcher
              BY <2>1, <3>2 DEF EnqueueSingle
        <4>2. IsFiniteSet(queued') /\ Cardinality(queued') = Cardinality(queued) + 1
              BY <3>2, <4>1, FS_AddElement DEF SinglesInv, SingleTypes, SingleQueue
        <4>3. /\ links' \in Seq(Link) /\ Len(links') = Len(links) + 1
              /\ DOMAIN links' = DOMAIN links \cup {Len(links) + 1}
              /\ \A i \in DOMAIN links : links'[i] = links[i]
              /\ links'[Len(links) + 1] = u
              BY <4>1 DEF SinglesInv, SingleTypes, SingleQueue
        <4>4. fetcher'.step \in {"start", "fetch"} <=> fetcher.step \in {"start", "fetch"}
              BY <4>1 DEF NoFetch
        <4>5. SingleQueue'
              BY <3>2, <4>1, <4>2, <4>3, <4>4 DEF SinglesInv, SingleTypes, SingleQueue
        <4>6. SingleFetch' /\ FetchIsOfPost'
              BY <4>1 DEF SinglesInv, SingleTypes, SingleFetch, FetchIsOfPost, NoFetch
        <4> QED BY <4>5, <4>6
      <3> QED BY <3>1, <3>2
    <2>2. ASSUME TakeSingle PROVE SingleQueue' /\ SingleFetch' /\ FetchIsOfPost'
      <3>1. CASE links = << >>
        <4>1. fetcher' = NoFetch /\ current' = NoLink /\ UNCHANGED <<links, queued>>
              BY <2>2, <3>1 DEF TakeSingle
        <4> QED BY <4>1 DEF SinglesInv, SingleTypes, SingleQueue, SingleFetch, FetchIsOfPost,
                            NoFetch, NoLink
      <3>2. CASE links # << >>
        <4>1. /\ current' = Head(links) /\ links' = Tail(links)
              /\ queued' = queued \ {Head(links)} /\ fetcher' = [step |-> "start"]
              BY <2>2, <3>2 DEF TakeSingle
        <4>2. /\ links \in Seq(Link) /\ Len(links) \in Nat \ {0}
              /\ Head(links) = links[1] /\ 1 \in DOMAIN links
              BY <3>2 DEF SinglesInv, SingleTypes, SingleQueue
        <4>3. /\ links' \in Seq(Link) /\ Len(links') = Len(links) - 1
              /\ \A i \in DOMAIN links' : i + 1 \in DOMAIN links /\ links'[i] = links[i + 1]
              BY <4>1, <4>2
        <4>4. links[1] \in queued /\ links[1] \in Link
              BY <4>2 DEF SinglesInv, SingleTypes, SingleQueue
        <4>5. IsFiniteSet(queued') /\ Cardinality(queued') = Cardinality(queued) - 1
          <5>1. IsFiniteSet(queued) /\ queued' = queued \ {links[1]} /\ links[1] \in queued
                BY <4>1, <4>2, <4>4 DEF SinglesInv, SingleTypes, SingleQueue
          <5> QED BY <5>1, FS_RemoveElement
        <4>6. \A i \in DOMAIN links' : i \in Nat /\ i # 0
              BY <4>3
        <4>7. \A i \in DOMAIN links' : links'[i] \in queued'
              BY <4>1, <4>2, <4>3, <4>6 DEF SinglesInv, SingleTypes, SingleQueue
        <4>8. \A i, j \in DOMAIN links' : links'[i] = links'[j] => i = j
              BY <4>3, <4>6 DEF SinglesInv, SingleTypes, SingleQueue
        <4>9. current' \in Link \ queued' /\ current' # NoLink
              BY <4>1, <4>2, <4>4, SingleParts DEF NoLink
        <4>10. SingleQueue'
              BY <4>1, <4>3, <4>5, <4>7, <4>8, <4>9 DEF SinglesInv, SingleTypes, SingleQueue
        <4> QED BY <4>1, <4>10 DEF SingleFetch, FetchIsOfPost
      <3> QED BY <3>1, <3>2
    <2>3. ASSUME StartFetch PROVE SingleQueue' /\ SingleFetch' /\ FetchIsOfPost'
          BY <2>3 DEF StartFetch, SinglesInv, SingleTypes, SingleQueue, SingleFetch,
                      FetchIsOfPost, SingleMove
    <2> QED BY <2>1, <2>2, <2>3
  <1>3. /\ UNCHANGED <<folders, catalogue, root, halfway, move, removal, trouble, doubtful>>
        /\ \/ UNCHANGED <<fetcher, current>> \/ fetcher'.step # "fetch"
           \/ fetcher'.root = root /\ fetcher'.got = {} /\ fetcher'.writing = NoPart
        BY DEF EnqueueSingle, TakeSingle, StartFetch, NoFetch
  <1>4. SingleFiles' /\ SingleRows' /\ SingleMove'
        BY <1>3 DEF SinglesInv, SingleTypes, SingleFiles, SingleRows, SingleMove, Has
  <1>5. WholeBesideParts' /\ CopyBesideWhole'
        BY <1>1, <1>3, FilesAlone
  <1>6. NamedAreHeld' /\ FetchedAreHeld' /\ WithinReach'
        BY <1>3 DEF SinglesInv, NamedAreHeld, FetchedAreHeld, WithinReach, Has
  <1> QED BY <1>2, <1>4, <1>5, <1>6 DEF SinglesInv, SingleTypes

\* Files written into some folders.
LEMMA PutFiles ==
    ASSUME SingleFiles, NEW there \in SUBSET Place, NEW n \in Part, NEW st \in {"whole", "part"},
           folders' = [d \in Place |-> IF d \in there THEN With(folders[d], n, st)
                                       ELSE folders[d]]
    PROVE  /\ SingleFiles'
           /\ \A e \in Place, m \in Part : Has(e, m)' <=> Has(e, m) \/ (e \in there /\ m = n)
           /\ \A e \in Place, m \in Part :
                 Has(e, m)' => folders'[e][m] = IF e \in there /\ m = n THEN st
                                                ELSE folders[e][m]
  <1>2. \A e \in Place \ there : folders'[e] = folders[e]
        OBVIOUS
  <1>3. \A e \in there : folders'[e] = With(folders[e], n, st)
        OBVIOUS
  <1>4. \A e \in there : DOMAIN folders'[e] = DOMAIN folders[e] \cup {n}
        BY <1>3 DEF With
  <1>5. \A e \in there : \A m \in DOMAIN folders'[e] :
           folders'[e][m] = IF m = n THEN st ELSE folders[e][m]
        BY <1>3 DEF With
  <1>6. \A e \in Place, m \in Part : Has(e, m)' <=> Has(e, m) \/ (e \in there /\ m = n)
        BY <1>2, <1>4 DEF Has
  <1>7. \A e \in Place, m \in Part :
           Has(e, m)' => folders'[e][m] = IF e \in there /\ m = n THEN st ELSE folders[e][m]
    <2> SUFFICES ASSUME NEW e \in Place, NEW m \in Part, Has(e, m)'
                 PROVE  folders'[e][m] = IF e \in there /\ m = n THEN st ELSE folders[e][m]
        OBVIOUS
    <2>1. CASE e \in there
          BY <1>5, <2>1 DEF Has
    <2>2. CASE e \notin there
          BY <1>2, <2>2
    <2> QED BY <2>1, <2>2
  <1>8. folders' = [e \in Place |-> folders'[e]]
        OBVIOUS
  <1>9. \A e \in Place : DOMAIN folders'[e] \subseteq Part
        BY <1>2, <1>4 DEF SingleFiles
  <1>10. \A e \in Place, m \in Part : Has(e, m)' => folders'[e][m] \in {"whole", "part"}
        BY <1>6, <1>7 DEF SingleFiles
  <1> QED BY <1>6, <1>7, <1>8, <1>9, <1>10 DEF SingleFiles

\* A file of the post being downloaded, begun or written.
LEMMA WriteStep ==
    ASSUME SinglesInv, NEW there \in SUBSET Place, NEW n \in Part, NEW st \in {"whole", "part"},
           folders' = [d \in Place |-> IF d \in there THEN With(folders[d], n, st)
                                       ELSE folders[d]],
           UNCHANGED <<links, queued, current, catalogue, root, move, removal, halfway, doubtful>>,
           Overtaken, fetcher.step = "fetch", n[1] = PostOf[current],
           fetcher.writing \in {n, NoPart},
           NEW g \in SUBSET Part, NEW wr \in {n, NoPart},
           fetcher' = [fetcher EXCEPT !.got = g, !.writing = wr],
           g \subseteq fetcher.got \cup {n},
           n[1] \notin doubtful => there = {fetcher.root} /\ (st = "whole" \/ wr = n),
           \A d \in there : d = fetcher.root \/ Has(d, n)
    PROVE  SinglesInv'
  <1>1. /\ SingleFiles'
        /\ \A e \in Place, m \in Part : Has(e, m)' <=> Has(e, m) \/ (e \in there /\ m = n)
        /\ \A e \in Place, m \in Part :
              Has(e, m)' => folders'[e][m] = IF e \in there /\ m = n THEN st
                                             ELSE folders[e][m]
        BY PutFiles DEF SinglesInv, SingleTypes
  <1>2. /\ fetcher' = [step |-> "fetch", root |-> fetcher.root, got |-> g, writing |-> wr]
        /\ fetcher.root \in Place
    <2>1. fetcher \in [step : {"fetch"}, root : Place, got : SUBSET Part,
                       writing : Part \cup {NoPart}]
          BY DEF SinglesInv, SingleTypes, SingleFetch, NoFetch
    <2> QED BY <2>1
  <1>3. SingleQueue' /\ SingleFetch' /\ FetchIsOfPost'
        BY <1>2 DEF SinglesInv, SingleTypes, SingleQueue, SingleFetch, FetchIsOfPost
  <1>4. SingleRows' /\ SingleMove'
        BY DEF SinglesInv, SingleTypes, SingleRows, SingleMove, Overtaken
  <1>5. \A m \in Part : m[1] \notin doubtful => Intact(m) \subseteq Intact(m)'
    <2> SUFFICES ASSUME NEW m \in Part, m[1] \notin doubtful, NEW d \in Intact(m)
                 PROVE  d \in Intact(m)'
        OBVIOUS
    <2>1. d \in Place /\ Has(d, m)' /\ (folders[d][m] = "whole" \/ WritesAt(d, m))
          BY <1>1 DEF Intact
    <2>2. CASE m # n
      <3>1. ~WritesAt(d, m)
            BY <2>2, SingleParts DEF WritesAt
      <3> QED BY <1>1, <2>1, <2>2, <3>1 DEF Intact
    <2>3. CASE m = n /\ d \in there
      <3>1. d = fetcher.root /\ (st = "whole" \/ WritesAt(d, n)')
            BY <1>2, <2>3 DEF WritesAt
      <3> QED BY <1>1, <2>1, <2>3, <3>1 DEF Intact
    <2>4. CASE m = n /\ d \notin there
      <3>1. d # fetcher.root
            BY <2>4
      <3> QED BY <1>1, <2>1, <2>4, <3>1 DEF Intact, WritesAt
    <2> QED BY <2>2, <2>3, <2>4
  <1>6. n[1] \notin doubtful => fetcher.root \in Intact(n)'
    <2>1. n[1] \notin doubtful => st = "whole" \/ WritesAt(fetcher.root, n)'
          BY <1>2 DEF WritesAt
    <2> QED BY <1>1, <1>2, <2>1 DEF Intact
  <1>7. WholeBesideParts'
        BY <1>1, <1>5, <1>6 DEF SinglesInv, WholeBesideParts
  <1>8. CopyBesideWhole'
    <2> SUFFICES ASSUME NEW m \in Part, move # NoMove, move.copy = m, m[1] \notin doubtful
                 PROVE  /\ Has(root, m)' => Intact(m)' \ {move.to} # {}
                        /\ move.copied => Intact(m)' \ {root} # {}
        BY DEF CopyBesideWhole
    <2>1. CASE Has(root, m) \/ ~Has(root, m)'
          BY <1>5, <2>1 DEF SinglesInv, CopyBesideWhole
    <2>2. CASE ~Has(root, m) /\ Has(root, m)'
      <3>1. m = n /\ root \in there /\ root \in Place /\ move.to # root
            BY <1>1, <2>2 DEF SinglesInv, SingleTypes, SingleMove
      <3>2. root \in Intact(m)'
            BY <1>6, <3>1
      <3> QED BY <1>5, <3>1, <3>2 DEF SinglesInv, CopyBesideWhole
    <2> QED BY <2>1, <2>2
  <1>9. NamedAreHeld' /\ FetchedAreHeld'
    <2>1. NamedAreHeld'
      <3>1. \A s \in Single : catalogue[s] # NoPart => catalogue[s] \in Part
            BY DEF SinglesInv, SingleTypes, SingleRows
      <3>2. \A d \in Place, m \in Part : Has(d, m) => Has(d, m)'
            BY <1>1
      <3> QED BY <3>1, <3>2 DEF SinglesInv, NamedAreHeld
    <2>2. PostOf[current] \notin doubtful => Has(fetcher.root, n)'
          BY <1>1, <1>2
    <2>3. ASSUME PostOf[current] \notin doubtful, NEW m \in g
          PROVE  \E d \in Place : Has(d, m)'
      <3>1. CASE m = n
            BY <1>2, <2>2, <2>3, <3>1
      <3>2. CASE m # n
            BY <1>1, <2>3, <3>2 DEF SinglesInv, FetchedAreHeld
      <3> QED BY <3>1, <3>2
    <2> QED BY <1>2, <2>1, <2>2, <2>3 DEF FetchedAreHeld, Has
  <1>10. WithinReach'
        BY <1>1, <1>2, SingleParts DEF SinglesInv, WithinReach, Overtaken
  <1> QED BY <1>1, <1>3, <1>4, <1>7, <1>8, <1>9, <1>10 DEF SinglesInv, SingleTypes

LEMMA DownloadStep ==
    ASSUME SinglesInv, (\E s \in Single : FetchVideo(s) \/ FetchSound(s))
                       \/ (\E n \in Part : BeginImage(n)) \/ EndImage
    PROVE  SinglesInv'
  <1>0. ASSUME fetcher.step = "fetch"
        PROVE  /\ fetcher \in [step : {"fetch"}, root : Place, got : SUBSET Part,
                               writing : Part \cup {NoPart}]
               /\ current \in Link /\ PostOf[current] \in Single
               /\ \A n \in Part : PostOf[current] = n[1] <=> n[1] = PostOf[current]
    <2>1. current \in Link
          BY <1>0 DEF SinglesInv, SingleTypes, SingleQueue
    <2> QED BY <1>0, <2>1 DEF SinglesInv, SingleTypes, SingleFetch, NoFetch, Single
  <1>1. ASSUME fetcher.step = "fetch", NEW n, NEW st,
               folders' = [folders EXCEPT ![fetcher.root] = With(@, n, st)]
        PROVE  folders' = [d \in Place |-> IF d \in {fetcher.root} THEN With(folders[d], n, st)
                                           ELSE folders[d]]
    <2>1. folders = [d \in Place |-> folders[d]]
          BY DEF SinglesInv, SingleTypes, SingleFiles
    <2> QED BY <1>0, <1>1, <2>1
  <1>2. ASSUME NEW s \in Single, NEW n \in Part, n[1] = s, Fetches(s),
               folders' = [folders EXCEPT ![fetcher.root] = With(@, n, "whole")],
               fetcher' = Wrote(n), Overtaken,
               UNCHANGED <<links, queued, current, catalogue, root, move, removal, halfway,
                           doubtful>>
        PROVE  SinglesInv'
    <2>1. /\ fetcher.step = "fetch" /\ fetcher.writing \in {n, NoPart}
          /\ n[1] = PostOf[current]
          BY <1>2 DEF Fetches
    <2>2. {fetcher.root} \in SUBSET Place /\ fetcher.got \cup {n} \in SUBSET Part
          BY <1>0, <2>1
    <2>3. fetcher' = [fetcher EXCEPT !.got = fetcher.got \cup {n}, !.writing = NoPart]
          BY <1>2 DEF Wrote
    <2>4. folders' = [d \in Place |-> IF d \in {fetcher.root} THEN With(folders[d], n, "whole")
                                      ELSE folders[d]]
          BY <1>1, <1>2, <2>1
    <2>5. /\ NoPart \in {n, NoPart} /\ "whole" \in {"whole", "part"}
          /\ \A d \in {fetcher.root} : d = fetcher.root \/ Has(d, n)
          BY Zenon
    <2>6. /\ UNCHANGED <<links, queued, current, catalogue, root, move, removal, halfway, doubtful>>
          /\ Overtaken
          BY <1>2
    <2>7. fetcher.got \cup {n} \subseteq fetcher.got \cup {n}
          OBVIOUS
    <2> QED BY <2>1, <2>2, <2>3, <2>4, <2>5, <2>6, <2>7, WriteStep
  <1>3. ASSUME NEW s \in Single, FetchVideo(s) PROVE SinglesInv'
    <2> DEFINE n == <<s, 1>>
    <2>1. n \in Part /\ n[1] = s
          BY SingleParts
    <2>2. CASE ~Has(fetcher.root, n)
          BY <1>2, <1>3, <2>1, <2>2 DEF FetchVideo
    <2>3. CASE Has(fetcher.root, n)
      <3>1. /\ fetcher.step = "fetch" /\ fetcher.writing = NoPart /\ PostOf[current] = s
            /\ UNCHANGED <<links, queued, current, folders, catalogue, root, move, removal,
                           halfway, doubtful>>
            /\ Overtaken
            BY <1>3, <2>3 DEF FetchVideo, Fetches
      <3>2. fetcher' = [step |-> "fetch", root |-> fetcher.root, got |-> fetcher.got \cup {n},
                        writing |-> NoPart]
            BY <1>0, <1>3, <3>1 DEF FetchVideo, Wrote
      <3>3. SingleQueue' /\ SingleFetch' /\ FetchIsOfPost'
            BY <1>0, <2>1, <3>1, <3>2 DEF SinglesInv, SingleTypes, SingleQueue, SingleFetch, FetchIsOfPost
      <3>4. SingleFiles' /\ SingleRows' /\ SingleMove'
            BY <3>1 DEF SinglesInv, SingleTypes, SingleFiles, SingleRows, SingleMove, Has, Overtaken
      <3>5. \A m \in Part, d \in Place : WritesAt(d, m)' <=> WritesAt(d, m)
            BY <3>1, <3>2, SingleParts DEF WritesAt
      <3>6. WholeBesideParts' /\ CopyBesideWhole'
            BY <3>1, <3>5, FilesAlone
      <3>7. NamedAreHeld' /\ WithinReach'
            BY <3>1, <3>2 DEF SinglesInv, NamedAreHeld, WithinReach, Has, Overtaken
      <3>8. FetchedAreHeld'
            BY <1>0, <2>3, <3>1, <3>2 DEF SinglesInv, FetchedAreHeld, Has
      <3> QED BY <3>3, <3>4, <3>6, <3>7, <3>8 DEF SinglesInv, SingleTypes
    <2> QED BY <2>2, <2>3
  <1>4. ASSUME NEW s \in Single, FetchSound(s) PROVE SinglesInv'
    <2>1. Sound(s) \in Part /\ Sound(s)[1] = s
      <3>1. Sound(s) \in Parts(s)
            BY <1>4 DEF FetchSound, Parts
      <3> QED BY <3>1, SingleParts
    <2> QED BY <1>2, <1>4, <2>1 DEF FetchSound
  <1>5. ASSUME NEW n \in Part, BeginImage(n) PROVE SinglesInv'
    <2>1. fetcher.step = "fetch" /\ fetcher.writing = NoPart /\ PostOf[current] = n[1]
          BY <1>5 DEF BeginImage, Fetches
    <2>2. {fetcher.root} \in SUBSET Place /\ fetcher.got \in SUBSET Part
          BY <1>0, <2>1
    <2>3. fetcher' = [fetcher EXCEPT !.got = fetcher.got, !.writing = n]
          BY <1>0, <1>5, <2>1 DEF BeginImage
    <2>4. /\ folders' = [folders EXCEPT ![fetcher.root] = With(@, n, "part")] /\ Overtaken
          /\ UNCHANGED <<links, queued, current, catalogue, root, move, removal, halfway,
                         doubtful>>
          BY <1>5 DEF BeginImage
    <2>5. folders' = [d \in Place |-> IF d \in {fetcher.root} THEN With(folders[d], n, "part")
                                      ELSE folders[d]]
          BY <1>1, <2>1, <2>4
    <2>6. /\ NoPart \in {n, NoPart} /\ n \in {n, NoPart} /\ "part" \in {"whole", "part"}
          /\ \A d \in {fetcher.root} : d = fetcher.root \/ Has(d, n)
          BY Zenon
    <2> QED BY <2>1, <2>2, <2>3, <2>4, <2>5, <2>6, WriteStep
  <1>6. ASSUME EndImage PROVE SinglesInv'
    <2> DEFINE n == fetcher.writing
               there == IF Has(fetcher.root, n) THEN {fetcher.root}
                        ELSE {d \in Place : Has(d, n) /\ folders[d][n] = "part"}
    <2>1. fetcher.step = "fetch" /\ n \in Part /\ n[1] = PostOf[current]
          BY <1>0, <1>6 DEF EndImage, SinglesInv, SingleTypes, FetchIsOfPost
    <2>2. there \in SUBSET Place /\ fetcher.got \cup {n} \in SUBSET Part
          BY <1>0, <2>1
    <2>3. fetcher' = [fetcher EXCEPT !.got = fetcher.got \cup {n}, !.writing = NoPart]
          BY <1>6 DEF EndImage, Wrote
    <2>4. /\ folders' = [d \in Place |-> IF d \in there THEN With(folders[d], n, "whole")
                                         ELSE folders[d]]
          /\ Overtaken
          /\ UNCHANGED <<links, queued, current, catalogue, root, move, removal, halfway,
                         doubtful>>
          BY <1>6 DEF EndImage
    <2>5. n[1] \notin doubtful => there = {fetcher.root}
          BY <1>6, <2>1 DEF EndImage, SinglesInv, FetchedAreHeld
    <2>6. \A d \in there : d = fetcher.root \/ Has(d, n)
          OBVIOUS
    <2> HIDE DEF n, there
    <2>7. n \in {n, NoPart} /\ NoPart \in {n, NoPart} /\ "whole" \in {"whole", "part"}
          OBVIOUS
    <2>8. fetcher.writing \in {n, NoPart}
          BY DEF n
    <2> QED BY <2>1, <2>2, <2>3, <2>4, <2>5, <2>6, <2>7, <2>8, WriteStep
  <1> QED BY <1>3, <1>4, <1>5, <1>6

LEMMA EndOfDownloadStep ==
    ASSUME SinglesInv, FetchFails \/ Catalogue
    PROVE  SinglesInv'
  <1>1. /\ fetcher' = [step |-> "take"] /\ current' = NoLink
        /\ UNCHANGED <<links, queued, folders, root, move, removal, halfway>>
        /\ trouble \subseteq trouble' /\ trouble' \subseteq {"apart", "overtaken"}
        /\ doubtful \subseteq doubtful' /\ doubtful' \subseteq Single
    <2>1. TornVideo \subseteq Single
      <3>1. fetcher.step = "fetch" => current \in Link
            BY DEF SinglesInv, SingleTypes, SingleQueue
      <3> QED BY <3>1 DEF TornVideo, Single
    <2> QED BY <2>1 DEF FetchFails, Catalogue, Done, SinglesInv, SingleTypes, SingleMove
  <1>2. SingleQueue' /\ SingleFetch' /\ FetchIsOfPost'
        BY <1>1 DEF SinglesInv, SingleTypes, SingleQueue, SingleFetch, FetchIsOfPost, NoLink
  <1>3. SingleFiles' /\ SingleMove'
        BY <1>1 DEF SinglesInv, SingleTypes, SingleFiles, SingleMove, Has
  <1>4. \A n \in Part, d \in Place : n[1] \notin doubtful' => (WritesAt(d, n)' <=> WritesAt(d, n))
    <2> SUFFICES ASSUME NEW n \in Part, NEW d \in Place, WritesAt(d, n)
                 PROVE  n[1] \in doubtful'
        BY <1>1 DEF WritesAt
    <2>1. fetcher.step = "fetch" /\ fetcher.writing = n /\ n # NoPart /\ n[1] = PostOf[current]
          BY SingleParts DEF WritesAt, SinglesInv, SingleTypes, FetchIsOfPost
    <2> QED BY <2>1 DEF FetchFails, Catalogue, Complete, TornVideo
  <1>5. WholeBesideParts' /\ CopyBesideWhole'
        BY <1>1, <1>4, FilesAlone
  <1>6. FetchedAreHeld' /\ WithinReach'
        BY <1>1 DEF SinglesInv, FetchedAreHeld, WithinReach, Has
  <1>7. CASE FetchFails
    <2>1. UNCHANGED catalogue
          BY <1>7 DEF FetchFails
    <2>2. SingleRows' /\ NamedAreHeld'
          BY <1>1, <2>1 DEF SinglesInv, SingleTypes, SingleRows, NamedAreHeld, Has
    <2> QED BY <1>2, <1>3, <1>5, <1>6, <2>2 DEF SinglesInv, SingleTypes
  <1>8. CASE Catalogue
    <2> DEFINE s == PostOf[current]
    <2>1. fetcher.step = "fetch" /\ current \in Link /\ s \in Single
          BY <1>8 DEF Catalogue, SinglesInv, SingleTypes, SingleQueue, Single
    <2>2. FileShown(current) \in Parts(s) \ {Sound(s)}
          BY <2>1, SinglesAssumption DEF FileShown, Parts, Images, Sound
    <2>3. FileShown(current) \in fetcher.got /\ FileShown(current) \in Part /\ FileShown(current)[1] = s
          BY <1>8, <2>1, <2>2, SingleParts DEF Catalogue, Complete
    <2>4. catalogue' = [catalogue EXCEPT ![s] = FileShown(current)] /\ UNCHANGED doubtful
          BY <1>8 DEF Catalogue
    <2> HIDE DEF s
    <2>5. SingleRows'
          BY <2>1, <2>3, <2>4 DEF SinglesInv, SingleTypes, SingleRows
    <2>6. s \notin doubtful => \E d \in Place : Has(d, FileShown(current))
          BY <2>1, <2>3 DEF SinglesInv, FetchedAreHeld, s
    <2>7. NamedAreHeld'
      <3> SUFFICES ASSUME NEW p \in Single, p \notin (doubtful \cup {removal})',
                          (catalogue[p] # NoPart)'
                   PROVE  (\E d \in Place : Has(d, catalogue[p]))'
          BY DEF NamedAreHeld
      <3>1. CASE p = s
            BY <1>1, <2>4, <2>6, <3>1 DEF SinglesInv, SingleTypes, SingleRows, Has
      <3>2. CASE p # s
            BY <1>1, <2>4, <3>2 DEF SinglesInv, SingleTypes, SingleRows, NamedAreHeld, Has
      <3> QED BY <3>1, <3>2
    <2> QED BY <1>2, <1>3, <1>5, <1>6, <2>5, <2>7 DEF SinglesInv, SingleTypes
  <1> QED BY <1>7, <1>8

LEMMA SetRootStep ==
    ASSUME SinglesInv, NEW to \in Place, NEW moving \in BOOLEAN, SetRoot(to, moving)
    PROVE  SinglesInv'
  <1>1. /\ UNCHANGED <<links, queued, current, fetcher, catalogue, folders, removal, doubtful>>
        /\ move = NoMove /\ to # root
        BY DEF SetRoot
  <1>2. SingleQueue' /\ SingleFetch' /\ FetchIsOfPost' /\ SingleFiles' /\ SingleRows'
        BY <1>1 DEF SinglesInv, SingleTypes, SingleQueue, SingleFetch, FetchIsOfPost, SingleFiles,
                    SingleRows, Has
  <1>3. NamedAreHeld' /\ FetchedAreHeld'
        BY <1>1 DEF SinglesInv, NamedAreHeld, FetchedAreHeld, Has
  <1>4. CASE moving
    <2>1. /\ move' = [to |-> to, todo |-> DOMAIN folders[root], copy |-> NoPart, copied |-> FALSE]
          /\ halfway' = halfway \cup {to} /\ UNCHANGED <<root, trouble>>
          BY <1>4 DEF SetRoot
    <2>2. DOMAIN folders[root] \subseteq Part
          BY DEF SinglesInv, SingleTypes, SingleFiles, SingleMove
    <2>3. SingleMove'
          BY <1>1, <2>1, <2>2 DEF SinglesInv, SingleTypes, SingleMove
    <2>4. WholeBesideParts' /\ CopyBesideWhole'
          BY <1>1, <2>1, FilesAlone DEF WritesAt
    <2>5. WithinReach'
          BY <1>1, <2>1 DEF SinglesInv, WithinReach, Has
    <2> QED BY <1>2, <1>3, <2>3, <2>4, <2>5 DEF SinglesInv, SingleTypes
  <1>5. CASE ~moving
    <2>1. root' = to /\ UNCHANGED <<move, halfway>> /\ trouble' = trouble \cup {"apart"}
          BY <1>5 DEF SetRoot
    <2>2. SingleMove'
          BY <1>1, <2>1 DEF SinglesInv, SingleTypes, SingleMove
    <2>3. WholeBesideParts' /\ CopyBesideWhole'
          BY <1>1, <2>1, FilesAlone DEF WritesAt
    <2>4. WithinReach'
          BY <2>1 DEF WithinReach
    <2> QED BY <1>2, <1>3, <2>2, <2>3, <2>4 DEF SinglesInv, SingleTypes
  <1> QED BY <1>4, <1>5

\* A move that ends, by itself, at an obstacle or with the process; a row that goes.
LEMMA MoveEndStep ==
    ASSUME SinglesInv, move' = NoMove,
           UNCHANGED <<links, queued, current, fetcher, catalogue, folders, removal, doubtful>>,
           UNCHANGED <<root, halfway, trouble>> \/ EndMove
    PROVE  SinglesInv'
  <1>2. SingleQueue' /\ SingleFetch' /\ FetchIsOfPost' /\ SingleFiles' /\ SingleRows'
        BY DEF SinglesInv, SingleTypes, SingleQueue, SingleFetch, FetchIsOfPost, SingleFiles,
               SingleRows, Has
  <1>3. NamedAreHeld' /\ FetchedAreHeld'
        BY DEF SinglesInv, NamedAreHeld, FetchedAreHeld, Has
  <1>4. WholeBesideParts' /\ CopyBesideWhole'
        BY FilesAlone DEF WritesAt
  <1>5. CASE UNCHANGED <<root, halfway, trouble>>
    <2>1. SingleMove' /\ WithinReach'
          BY <1>5 DEF SinglesInv, SingleTypes, SingleMove, WithinReach, Has
    <2> QED BY <1>2, <1>3, <1>4, <2>1 DEF SinglesInv, SingleTypes
  <1>6. CASE EndMove
    <2>1. /\ move # NoMove /\ root' = move.to /\ halfway' = halfway \ {move.to}
          /\ trouble' = IF fetcher.step = "fetch" THEN trouble \cup {"overtaken"} ELSE trouble
          /\ \A n \in move.todo : ~Has(root, n)
          BY <1>6 DEF EndMove, Unmoved
    <2>2. SingleMove'
          BY <2>1 DEF SinglesInv, SingleTypes, SingleMove
    <2>3. ASSUME trouble' = {} PROVE trouble = {} /\ fetcher.step # "fetch"
          BY <2>1, <2>3
    <2>4. ASSUME trouble' = {}, NEW d \in Place, NEW n \in Part, Has(d, n)'
          PROVE  d \in ({root} \cup halfway)'
      <3>1. Has(d, n) /\ d \in {root} \cup halfway /\ d # root
            BY <2>1, <2>3, <2>4 DEF SinglesInv, WithinReach, Has
      <3> QED BY <2>1, <3>1
    <2>5. WithinReach'
          BY <2>3, <2>4 DEF WithinReach
    <2> QED BY <1>2, <1>3, <1>4, <2>2, <2>5 DEF SinglesInv, SingleTypes
  <1> QED BY <1>5, <1>6

LEMMA RemoveRowStep ==
    ASSUME SinglesInv, RemoveRow
    PROVE  SinglesInv'
  <1>1. /\ UNCHANGED <<links, queued, current, fetcher, folders, root, move, trouble, halfway,
                       doubtful>>
        /\ removal \in Single /\ removal' = "none"
        /\ catalogue' = [catalogue EXCEPT ![removal] = NoPart]
        BY DEF RemoveRow, SinglesInv, SingleTypes, SingleMove
  <1>2. SingleQueue' /\ SingleFetch' /\ FetchIsOfPost' /\ SingleFiles' /\ SingleRows' /\ SingleMove'
        BY <1>1 DEF SinglesInv, SingleTypes, SingleQueue, SingleFetch, FetchIsOfPost, SingleFiles,
               SingleRows, SingleMove, Has
  <1>3. WholeBesideParts' /\ CopyBesideWhole'
        BY <1>1, FilesAlone DEF WritesAt
  <1>4. FetchedAreHeld' /\ WithinReach'
        BY <1>1 DEF SinglesInv, FetchedAreHeld, WithinReach, Has
  <1>5. NamedAreHeld'
    <2> SUFFICES ASSUME NEW p \in Single, p \notin doubtful', (catalogue[p] # NoPart)'
                 PROVE  (\E d \in Place : Has(d, catalogue[p]))'
        BY DEF NamedAreHeld
    <2>1. p # removal /\ catalogue'[p] = catalogue[p] /\ p \notin doubtful
          BY <1>1 DEF SinglesInv, SingleTypes, SingleRows
    <2> QED BY <1>1, <2>1 DEF SinglesInv, NamedAreHeld, Has
  <1> QED BY <1>2, <1>3, <1>4, <1>5 DEF SinglesInv, SingleTypes

LEMMA StopProcessStep ==
    ASSUME SinglesInv, StopProcess
    PROVE  SinglesInv'
  <1>1. /\ links' = << >> /\ queued' = {} /\ current' = NoLink /\ fetcher' = NoFetch
        /\ move' = NoMove /\ removal' = "none"
        /\ doubtful' = doubtful \cup ({removal} \cap Single) \cup TornVideo
        /\ UNCHANGED <<catalogue, folders, root, trouble, halfway>>
        BY DEF StopProcess
  <1>2. SingleQueue' /\ SingleFetch' /\ FetchIsOfPost'
        BY <1>1, FS_EmptySet DEF SingleQueue, SingleFetch, FetchIsOfPost, NoFetch, NoLink
  <1>3. SingleFiles' /\ SingleRows'
        BY <1>1 DEF SinglesInv, SingleTypes, SingleFiles, SingleRows, Has
  <1>4. TornVideo \subseteq Single
    <2>1. fetcher.step = "fetch" => current \in Link
          BY DEF SinglesInv, SingleTypes, SingleQueue
    <2> QED BY <2>1 DEF TornVideo, Single
  <1>5. SingleMove'
        BY <1>1, <1>4 DEF SinglesInv, SingleTypes, SingleMove
  <1>6. \A n \in Part, d \in Place : n[1] \notin doubtful' => (WritesAt(d, n)' <=> WritesAt(d, n))
    <2> SUFFICES ASSUME NEW n \in Part, NEW d \in Place, WritesAt(d, n)
                 PROVE  n[1] \in doubtful'
        BY <1>1 DEF WritesAt, NoFetch
    <2>1. fetcher.step = "fetch" /\ fetcher.writing = n /\ n # NoPart /\ n[1] = PostOf[current]
          BY SingleParts DEF WritesAt, SinglesInv, SingleTypes, FetchIsOfPost
    <2> QED BY <1>1, <2>1 DEF TornVideo
  <1>7. WholeBesideParts' /\ CopyBesideWhole'
        BY <1>1, <1>6, FilesAlone
  <1>8. NamedAreHeld' /\ FetchedAreHeld' /\ WithinReach'
        BY <1>1 DEF SinglesInv, NamedAreHeld, FetchedAreHeld, WithinReach, Has, NoFetch
  <1> QED BY <1>2, <1>3, <1>5, <1>7, <1>8 DEF SinglesInv, SingleTypes

\* A step of a move that touches one file.
LEMMA MoveStep ==
    ASSUME SinglesInv, move # NoMove, NEW n \in Part, NEW to \in Place, NEW rt \in Place,
           to = move.to, rt = root, SingleFiles',
           UNCHANGED <<links, queued, current, fetcher, catalogue, root, removal, trouble, halfway>>,
           move' \in [to : {to}, todo : SUBSET move.todo, copy : {n, NoPart}, copied : BOOLEAN],
           move'.copy = NoPart => ~move'.copied,
           UNCHANGED doubtful \/ Touched(n),
           \A m \in Part \ {n}, d \in Place :
              /\ Has(d, m)' <=> Has(d, m)
              /\ Has(d, m) => folders'[d][m] = folders[d][m],
           \A d \in Place : Has(d, n)' => Has(d, n) \/ d = to,
           \A m \in Part : Has(rt, m)' /\ m \in move.todo => m \in move'.todo,
           n[1] \notin doubtful' =>
              /\ Intact(n)' # {}
              /\ \A d \in Place : WritesAt(d, n) /\ Has(d, n) => Has(d, n)'
              /\ move'.copy = n /\ Has(rt, n)' => Intact(n)' \ {to} # {}
              /\ move'.copied => Intact(n)' \ {rt} # {}
    PROVE  SinglesInv'
  <1>1. doubtful \subseteq doubtful' /\ doubtful' \subseteq Single
    <2>1. n[1] \in Single /\ doubtful \subseteq Single
          BY SingleParts DEF SinglesInv, SingleTypes, SingleMove
    <2> QED BY <2>1 DEF Touched
  <1>2. SingleQueue' /\ SingleFetch' /\ FetchIsOfPost' /\ SingleRows'
        BY DEF SinglesInv, SingleTypes, SingleQueue, SingleFetch, FetchIsOfPost, SingleRows
  <1>3. SingleMove'
    <2>1. move \in [to : Place, todo : SUBSET Part, copy : Part \cup {NoPart}, copied : BOOLEAN]
          /\ move.to # root /\ move.to \in halfway
          BY DEF SinglesInv, SingleTypes, SingleMove
    <2>2. move' \in [to : Place, todo : SUBSET Part, copy : Part \cup {NoPart}, copied : BOOLEAN]
          /\ move'.to = move.to
          BY <2>1
    <2> QED BY <1>1, <2>1, <2>2 DEF SinglesInv, SingleTypes, SingleMove
  <1>4. \A m \in Part \ {n} : Intact(m)' = Intact(m)
        BY DEF Intact, WritesAt
  <1>5. WholeBesideParts'
    <2> SUFFICES ASSUME NEW m \in Part, NEW d \in Place, m[1] \notin doubtful', Has(d, m)'
                 PROVE  Intact(m)' # {}
        BY DEF WholeBesideParts
    <2>1. CASE m = n
          BY <2>1
    <2>2. CASE m # n
          BY <1>1, <1>4, <2>2 DEF SinglesInv, WholeBesideParts
    <2> QED BY <2>1, <2>2
  <1>6. CopyBesideWhole'
    <2> SUFFICES ASSUME NEW m \in Part, move' # NoMove, move'.copy = m, m[1] \notin doubtful'
                 PROVE  /\ Has(root, m)' => Intact(m)' \ {move'.to} # {}
                        /\ move'.copied => Intact(m)' \ {root} # {}
        BY DEF CopyBesideWhole, NoMove
    <2>1. m = n /\ move'.to = move.to
          BY SingleParts
    <2> QED BY <2>1
  <1>7. \A m \in Part : m[1] \notin doubtful' /\ (\E d \in Place : Has(d, m))
                        => \E d \in Place : Has(d, m)'
    <2>1. n[1] \notin doubtful' => \E d \in Place : Has(d, n)'
          BY DEF Intact
    <2> QED BY <2>1
  <1>8. NamedAreHeld'
    <2> SUFFICES ASSUME NEW p \in Single, p \notin (doubtful \cup {removal})',
                        (catalogue[p] # NoPart)'
                 PROVE  (\E d \in Place : Has(d, catalogue[p]))'
        BY DEF NamedAreHeld
    <2>1. /\ catalogue[p] \in Part /\ \E d \in Place : Has(d, catalogue[p])
          /\ catalogue[p][1] = p
          BY <1>1 DEF SinglesInv, SingleTypes, SingleRows, NamedAreHeld
    <2>2. catalogue[p][1] \notin doubtful'
          BY <2>1
    <2>3. \E d \in Place : folders' = folders' /\ Has(d, catalogue[p])'
          BY <1>7, <2>1, <2>2 DEF Has
    <2> QED BY <2>3 DEF Has
  <1>9. FetchedAreHeld'
    <2> SUFFICES ASSUME fetcher.step = "fetch", PostOf[current] \notin doubtful'
                 PROVE  /\ \A m \in fetcher.got : \E d \in Place : Has(d, m)'
                        /\ fetcher.writing # NoPart => Has(fetcher.root, fetcher.writing)'
        BY DEF FetchedAreHeld, Has
    <2>1. fetcher \in [step : {"fetch"}, root : Place, got : SUBSET Part,
                       writing : Part \cup {NoPart}]
          BY DEF SinglesInv, SingleTypes, SingleFetch, NoFetch
    <2>2. \A m \in fetcher.got : /\ m \in Part /\ m[1] \notin doubtful'
                                 /\ \E d \in Place : Has(d, m)
          BY <1>1, <2>1 DEF SinglesInv, SingleTypes, FetchIsOfPost, FetchedAreHeld
    <2>3. CASE fetcher.writing = n
      <3>1. n[1] = PostOf[current] /\ WritesAt(fetcher.root, n) /\ Has(fetcher.root, n)
            BY <1>1, <2>3, SingleParts DEF SinglesInv, SingleTypes, FetchIsOfPost, FetchedAreHeld,
                                           WritesAt
      <3>2. Has(fetcher.root, n)'
            BY <2>1, <3>1
      <3> QED BY <1>7, <2>2, <2>3, <3>2 DEF Has
    <2>4. CASE fetcher.writing # n
      <3>1. fetcher.writing # NoPart => Has(fetcher.root, fetcher.writing) /\ fetcher.writing \in Part
            BY <1>1, <2>1 DEF SinglesInv, FetchedAreHeld
      <3> QED BY <1>7, <2>1, <2>2, <2>4, <3>1 DEF Has
    <2> QED BY <2>3, <2>4
  <1>10. WithinReach'
    <2>1. move'.to = move.to /\ move.to \in halfway
          BY DEF SinglesInv, SingleTypes, SingleMove
    <2>2. ASSUME trouble = {}, NEW d \in Place, NEW m \in Part, Has(d, m)'
          PROVE  d \in {root} \cup halfway
          BY <2>1, <2>2 DEF SinglesInv, WithinReach
    <2>3. ASSUME trouble = {}, NEW m \in Part, Has(root, m)'
          PROVE  m \in move'.todo
      <3>1. Has(root, m)
            BY <2>3, SingleParts DEF SinglesInv, SingleTypes, SingleMove
      <3> QED BY <2>3, <3>1 DEF SinglesInv, WithinReach
    <2> QED BY <2>2, <2>3 DEF SinglesInv, WithinReach, Has
  <1> QED BY <1>2, <1>3, <1>5, <1>6, <1>8, <1>9, <1>10 DEF SinglesInv, SingleTypes

\* A file that the worker is writing makes its post doubtful when a move touches it.
LEMMA TouchedIsNotWritten ==
    ASSUME SinglesInv, NEW n \in Part, Touched(n), n[1] \notin doubtful'
    PROVE  n[1] \notin doubtful /\ \A d \in Place : ~WritesAt(d, n)
  <1>1. ASSUME NEW d \in Place, WritesAt(d, n) PROVE n[1] \in TornVideo
        BY <1>1, SingleParts DEF WritesAt, TornVideo, SinglesInv, SingleTypes, FetchIsOfPost
  <1> QED BY <1>1 DEF Touched

LEMMA MoveActionStep ==
    ASSUME SinglesInv, NEW n \in Part,
           DropCopied(n) \/ RenameInto(n) \/ BeginCopy(n)
           \/ (move.copy = n /\ (EndCopy \/ DropOriginal))
    PROVE  SinglesInv'
  <1>0. /\ move # NoMove
        /\ UNCHANGED <<links, queued, current, fetcher, catalogue, root, removal, trouble, halfway>>
        /\ Has(root, n)
        BY SingleParts DEF DropCopied, RenameInto, BeginCopy, EndCopy, DropOriginal
  <1>1. /\ move \in [to : Place, todo : SUBSET Part, copy : Part \cup {NoPart}, copied : BOOLEAN]
        /\ move.to \in Place /\ move.to # root /\ root \in Place
        /\ move.copy = NoPart => ~move.copied
        BY <1>0 DEF SinglesInv, SingleTypes, SingleMove
  <1>c. PICK to \in Place, rt \in Place : to = move.to /\ rt = root /\ rt = root' /\ to # rt /\ Has(rt, n)
        BY <1>0, <1>1 DEF Has
  <1>2. SingleFiles /\ folders[root][n] \in {"whole", "part"}
        BY <1>0, <1>1 DEF SinglesInv, SingleTypes, SingleFiles
  <1>3. n[1] \notin doubtful => Intact(n) # {}
        BY <1>0, <1>1 DEF SinglesInv, WholeBesideParts
  <1>4. /\ NoMove \notin [to : {move.to}, todo : SUBSET move.todo, copy : {n, NoPart},
                          copied : BOOLEAN]
        /\ n # NoPart
        BY SingleParts DEF NoMove
  <1>v. ASSUME Visited(n)
        PROVE  /\ move' = [to |-> move.to, todo |-> move.todo \ {n}, copy |-> NoPart,
                           copied |-> FALSE]
               /\ Touched(n)
        BY <1>1, <1>v DEF Visited
  <1>5. CASE DropCopied(n)
    <2>1. /\ Has(to, n) /\ folders[rt][n] = folders[to][n]
          /\ folders' = [folders EXCEPT ![rt] = Less(@, {n})]
          /\ Visited(n)
          BY <1>c, <1>5 DEF DropCopied, SameSize
    <2>2. /\ SingleFiles'
          /\ \A e \in Place, m \in Part : Has(e, m)' <=> Has(e, m) /\ ~(e = rt /\ m \in {n})
          /\ \A e \in Place, m \in Part : Has(e, m)' => folders'[e][m] = folders[e][m]
          BY <1>1, <1>c, <1>2, <2>1, DropFiles
    <2>3. ASSUME n[1] \notin doubtful'
          PROVE  Intact(n)' # {} /\ \A d \in Place : ~WritesAt(d, n)
      <3>1. n[1] \notin doubtful /\ \A d \in Place : ~WritesAt(d, n) /\ ~WritesAt(d, n)'
            BY <1>0, <1>v, <2>1, <2>3, TouchedIsNotWritten DEF WritesAt
      <3>2. PICK d \in Place : Has(d, n) /\ folders[d][n] = "whole"
            BY <1>3, <3>1 DEF Intact
      <3>3. CASE d = rt
            BY <1>c, <2>1, <2>2, <3>1, <3>2, <3>3 DEF Intact
      <3>4. CASE d # rt
            BY <1>c, <2>2, <3>1, <3>2, <3>4 DEF Intact
      <3> QED BY <3>1, <3>3, <3>4
    <2>4. \A m \in Part : Has(rt, m)' /\ m \in move.todo => m \in move'.todo
          BY <1>1, <1>c, <1>v, <2>1, <2>2
    <2>6. /\ move' \in [to : {to}, todo : SUBSET move.todo, copy : {n, NoPart},
                        copied : BOOLEAN]
          /\ move'.copy = NoPart /\ ~move'.copied
      <3>1. move' = [to |-> to, todo |-> move.todo \ {n}, copy |-> NoPart, copied |-> FALSE]
            BY <1>c, <1>v, <2>1
      <3>2. move.todo \ {n} \in SUBSET move.todo
            OBVIOUS
      <3> QED BY <3>1, <3>2
    <2>8. /\ \A m \in Part \ {n}, d \in Place :
                /\ Has(d, m)' <=> Has(d, m)
                /\ Has(d, m) => folders'[d][m] = folders[d][m]
          /\ \A d \in Place : Has(d, n)' => Has(d, n) \/ d = to
          BY <2>2
    <2>9. /\ SingleFiles' /\ (UNCHANGED doubtful \/ Touched(n))
          /\ move'.copy = NoPart => ~move'.copied
          BY <1>v, <2>1, <2>2, <2>6
    <2>10. n[1] \notin doubtful' =>
              /\ Intact(n)' # {}
              /\ \A d \in Place : WritesAt(d, n) /\ Has(d, n) => Has(d, n)'
              /\ move'.copy = n /\ Has(rt, n)' => Intact(n)' \ {to} # {}
              /\ move'.copied => Intact(n)' \ {rt} # {}
           BY <1>4, <2>3, <2>6
    <2> QED BY <1>0, <1>c, <2>4, <2>6, <2>8, <2>9, <2>10, MoveStep
  <1>6. CASE RenameInto(n)
    <2>1. /\ ~Has(to, n)
          /\ folders' = [folders EXCEPT ![rt] = Less(@, {n}),
                                        ![to] = With(@, n, folders[rt][n])]
          /\ Visited(n)
          BY <1>c, <1>6 DEF RenameInto
    <2>m. FileMoved(rt, to, n)
          BY <1>c, <1>2, <2>1, MoveFile
    <2>2. /\ SingleFiles'
          /\ \A f \in Place, m \in Part :
                Has(f, m)' <=> (Has(f, m) /\ ~(f = rt /\ m = n)) \/ (f = to /\ m = n)
          /\ Has(to, n)' => folders'[to][n] = folders[rt][n]
          /\ \A f \in Place, m \in Part :
                Has(f, m)' /\ ~(f = to /\ m = n) => folders'[f][m] = folders[f][m]
          BY <2>m DEF FileMoved
    <2>3. ASSUME n[1] \notin doubtful'
          PROVE  Intact(n)' # {} /\ \A d \in Place : ~WritesAt(d, n)
      <3>1. n[1] \notin doubtful /\ \A d \in Place : ~WritesAt(d, n) /\ ~WritesAt(d, n)'
            BY <1>0, <1>v, <2>1, <2>3, TouchedIsNotWritten DEF WritesAt
      <3>2. PICK d \in Place : Has(d, n) /\ folders[d][n] = "whole"
            BY <1>3, <3>1 DEF Intact
      <3>3. CASE d = rt
        <4>1. Has(to, n)' /\ folders'[to][n] = "whole"
              BY <2>2, <3>2, <3>3
        <4> QED BY <3>1, <4>1 DEF Intact
      <3>4. CASE d # rt
        <4>1. Has(d, n)' /\ folders'[d][n] = "whole"
              BY <2>1, <2>2, <3>2, <3>4
        <4> QED BY <3>1, <4>1 DEF Intact
      <3> QED BY <3>1, <3>3, <3>4
    <2>4. \A m \in Part : Has(rt, m)' /\ m \in move.todo => m \in move'.todo
          BY <1>1, <1>c, <1>v, <2>1, <2>2
    <2>6. /\ move' \in [to : {to}, todo : SUBSET move.todo, copy : {n, NoPart},
                        copied : BOOLEAN]
          /\ move'.copy = NoPart /\ ~move'.copied
      <3>1. move' = [to |-> to, todo |-> move.todo \ {n}, copy |-> NoPart, copied |-> FALSE]
            BY <1>c, <1>v, <2>1
      <3>2. move.todo \ {n} \in SUBSET move.todo
            OBVIOUS
      <3> QED BY <3>1, <3>2
    <2>8. /\ \A m \in Part \ {n}, d \in Place :
                /\ Has(d, m)' <=> Has(d, m)
                /\ Has(d, m) => folders'[d][m] = folders[d][m]
          /\ \A d \in Place : Has(d, n)' => Has(d, n) \/ d = to
          BY <2>2
    <2>9. /\ SingleFiles' /\ (UNCHANGED doubtful \/ Touched(n))
          /\ move'.copy = NoPart => ~move'.copied
          BY <1>v, <2>1, <2>2, <2>6
    <2>10. n[1] \notin doubtful' =>
              /\ Intact(n)' # {}
              /\ \A d \in Place : WritesAt(d, n) /\ Has(d, n) => Has(d, n)'
              /\ move'.copy = n /\ Has(rt, n)' => Intact(n)' \ {to} # {}
              /\ move'.copied => Intact(n)' \ {rt} # {}
           BY <1>4, <2>3, <2>6
    <2> QED BY <1>0, <1>c, <2>4, <2>6, <2>8, <2>9, <2>10, MoveStep
  <1>7. CASE BeginCopy(n)
    <2>1. /\ ~Has(to, n) /\ move.copy = NoPart
          /\ folders' = [folders EXCEPT ![to] = With(@, n, "part")]
          /\ move' = [to |-> move.to, todo |-> move.todo, copy |-> n, copied |-> FALSE]
          /\ UNCHANGED doubtful
          BY <1>1, <1>c, <1>7 DEF BeginCopy
    <2>a. FilePut(to, n, "part")
          BY <1>c, <1>2, <2>1, PutFile
    <2>2. /\ SingleFiles'
          /\ \A e \in Place, m \in Part : Has(e, m)' <=> Has(e, m) \/ (e = to /\ m = n)
          /\ \A e \in Place, m \in Part :
                Has(e, m)' /\ ~(e = to /\ m = n) => folders'[e][m] = folders[e][m]
          BY <2>a DEF FilePut
    <2>3. \A m \in Part \ {n}, d \in Place :
                /\ Has(d, m)' <=> Has(d, m)
                /\ Has(d, m) => folders'[d][m] = folders[d][m]
          BY <2>2
    <2>4. \A d \in Place : Has(d, n) => Has(d, n)'
          BY <2>2
    <2>5. ASSUME n[1] \notin doubtful'
          PROVE  Intact(n)' \ {to} # {}
      <3>1. PICK d \in Place : Has(d, n) /\ (folders[d][n] = "whole" \/ WritesAt(d, n))
            BY <1>3, <2>1, <2>5 DEF Intact
      <3>2. d # to
            BY <2>1, <3>1
      <3>3. WritesAt(d, n)' <=> WritesAt(d, n)
            BY <1>0 DEF WritesAt
      <3> QED BY <2>2, <3>1, <3>2, <3>3 DEF Intact
    <2>6. /\ move' \in [to : {to}, todo : SUBSET move.todo, copy : {n, NoPart},
                        copied : BOOLEAN]
          /\ move'.copy = n /\ ~move'.copied /\ move'.todo = move.todo
          BY <1>1, <1>c, <2>1
    <2>8. \A d \in Place : Has(d, n)' => Has(d, n) \/ d = to
          BY <2>2
    <2> QED BY <1>0, <1>c, <1>4, <2>1, <2>2, <2>3, <2>4, <2>5, <2>6, <2>8, MoveStep
  <1>8. CASE move.copy = n /\ EndCopy
    <2>a. CASE move' = NoMove /\ UNCHANGED <<folders, doubtful>>
          BY <1>0, <2>a, MoveEndStep
    <2>b. CASE ~(move' = NoMove /\ UNCHANGED <<folders, doubtful>>)
      <3>1. /\ ~move.copied /\ Touched(n)
            /\ folders' = [folders EXCEPT ![to] = With(@, n, folders[rt][n])]
            /\ move' = [to |-> to, todo |-> move.todo, copy |-> n, copied |-> TRUE]
            BY <1>1, <1>c, <1>8, <2>b DEF EndCopy
      <3>2. FilePut(to, n, folders[rt][n])
        <4>1. PICK st \in {"whole", "part"} : st = folders[rt][n]
              BY <1>c, <1>2
        <4>2. folders' = [folders EXCEPT ![to] = With(@, n, st)]
              BY <3>1, <4>1
        <4>3. FilePut(to, n, st)
              BY <1>2, <4>2, PutFile
        <4> QED BY <4>1, <4>3
      <3>5. /\ SingleFiles'
            /\ \A e \in Place, m \in Part : Has(e, m)' <=> Has(e, m) \/ (e = to /\ m = n)
            /\ folders'[to][n] = folders[rt][n]
            /\ \A e \in Place, m \in Part :
                  Has(e, m)' /\ ~(e = to /\ m = n) => folders'[e][m] = folders[e][m]
            BY <3>2 DEF FilePut
      <3>3. ASSUME n[1] \notin doubtful'
            PROVE  Intact(n)' \ {to} # {} /\ Intact(n)' \ {rt} # {}
        <4>1. n[1] \notin doubtful /\ \A d \in Place : ~WritesAt(d, n) /\ ~WritesAt(d, n)'
              BY <1>0, <3>1, <3>3, TouchedIsNotWritten DEF WritesAt
        <4>2. PICK d \in Place : d # to /\ Has(d, n) /\ folders[d][n] = "whole"
          <5>1. Intact(n) \ {to} # {}
                BY <1>0, <1>8, <1>c, <4>1 DEF SinglesInv, CopyBesideWhole
          <5> QED BY <4>1, <5>1 DEF Intact
        <4>3. d \in Intact(n)'
              BY <3>5, <4>2 DEF Intact
        <4>4. CASE d = rt
          <5>1. Has(to, n)' /\ folders'[to][n] = "whole"
                BY <3>5, <4>2, <4>4
          <5>2. to \in Intact(n)'
                BY <5>1 DEF Intact
          <5> QED BY <1>c, <4>2, <4>3, <5>2
        <4>5. CASE d # rt
              BY <4>2, <4>3, <4>5
        <4> QED BY <4>4, <4>5
      <3>4. \A m \in Part : Has(rt, m)' /\ m \in move.todo => m \in move'.todo
            BY <3>1
      <3>6. /\ move' \in [to : {to}, todo : SUBSET move.todo, copy : {n, NoPart},
                          copied : BOOLEAN]
            /\ move'.copy = n
            BY <3>1
      <3>8. /\ \A m \in Part \ {n}, d \in Place :
                  /\ Has(d, m)' <=> Has(d, m)
                  /\ Has(d, m) => folders'[d][m] = folders[d][m]
            /\ \A d \in Place : Has(d, n)' => Has(d, n) \/ d = to
            /\ \A d \in Place : Has(d, n) => Has(d, n)'
            BY <3>5
      <3>9. /\ SingleFiles' /\ (UNCHANGED doubtful \/ Touched(n))
            /\ move'.copy = NoPart => ~move'.copied
            BY <1>4, <3>1, <3>5, <3>6
      <3>10. n[1] \notin doubtful' =>
                /\ Intact(n)' # {}
                /\ \A d \in Place : WritesAt(d, n) /\ Has(d, n) => Has(d, n)'
                /\ move'.copy = n /\ Has(rt, n)' => Intact(n)' \ {to} # {}
                /\ move'.copied => Intact(n)' \ {rt} # {}
             BY <3>3, <3>8
      <3> QED BY <1>0, <1>c, <3>4, <3>6, <3>8, <3>9, <3>10, MoveStep
    <2> QED BY <2>a, <2>b
  <1>9. CASE move.copy = n /\ DropOriginal
    <2>1. /\ move.copied /\ Visited(n)
          /\ folders' = [folders EXCEPT ![rt] = Less(@, {n})]
          BY <1>c, <1>9 DEF DropOriginal
    <2>2. /\ SingleFiles'
          /\ \A e \in Place, m \in Part : Has(e, m)' <=> Has(e, m) /\ ~(e = rt /\ m \in {n})
          /\ \A e \in Place, m \in Part : Has(e, m)' => folders'[e][m] = folders[e][m]
          BY <1>c, <1>2, <2>1, DropFiles
    <2>3. ASSUME n[1] \notin doubtful'
          PROVE  Intact(n)' # {} /\ \A d \in Place : ~WritesAt(d, n)
      <3>1. n[1] \notin doubtful /\ \A d \in Place : ~WritesAt(d, n) /\ ~WritesAt(d, n)'
            BY <1>0, <1>v, <2>1, <2>3, TouchedIsNotWritten DEF WritesAt
      <3>2. PICK d \in Place : d # rt /\ Has(d, n) /\ folders[d][n] = "whole"
        <4>1. Intact(n) \ {rt} # {}
              BY <1>0, <1>9, <1>c, <2>1, <3>1 DEF SinglesInv, CopyBesideWhole
        <4> QED BY <3>1, <4>1 DEF Intact
      <3>3. Has(d, n)' /\ folders'[d][n] = "whole"
            BY <2>2, <3>2
      <3> QED BY <3>1, <3>3 DEF Intact
    <2>4. \A m \in Part : Has(rt, m)' /\ m \in move.todo => m \in move'.todo
          BY <1>1, <1>c, <1>v, <2>1, <2>2
    <2>6. /\ move' \in [to : {to}, todo : SUBSET move.todo, copy : {n, NoPart},
                        copied : BOOLEAN]
          /\ move'.copy = NoPart /\ ~move'.copied
      <3>1. move' = [to |-> to, todo |-> move.todo \ {n}, copy |-> NoPart, copied |-> FALSE]
            BY <1>c, <1>v, <2>1
      <3>2. move.todo \ {n} \in SUBSET move.todo
            OBVIOUS
      <3> QED BY <3>1, <3>2
    <2>8. /\ \A m \in Part \ {n}, d \in Place :
                /\ Has(d, m)' <=> Has(d, m)
                /\ Has(d, m) => folders'[d][m] = folders[d][m]
          /\ \A d \in Place : Has(d, n)' => Has(d, n) \/ d = to
          BY <2>2
    <2>9. /\ SingleFiles' /\ (UNCHANGED doubtful \/ Touched(n))
          /\ move'.copy = NoPart => ~move'.copied
          BY <1>v, <2>1, <2>2, <2>6
    <2>10. n[1] \notin doubtful' =>
              /\ Intact(n)' # {}
              /\ \A d \in Place : WritesAt(d, n) /\ Has(d, n) => Has(d, n)'
              /\ move'.copy = n /\ Has(rt, n)' => Intact(n)' \ {to} # {}
              /\ move'.copied => Intact(n)' \ {rt} # {}
           BY <1>4, <2>3, <2>6
    <2> QED BY <1>0, <1>c, <2>4, <2>6, <2>8, <2>9, <2>10, MoveStep
  <1> QED BY <1>5, <1>6, <1>7, <1>8, <1>9

LEMMA RemoveFilesStep ==
    ASSUME SinglesInv, NEW s \in Single, RemoveFiles(s)
    PROVE  SinglesInv'
  <1>1. /\ catalogue[s] \in Part /\ catalogue[s][1] = s /\ removal = "none" /\ removal' = s
        /\ UNCHANGED <<links, queued, current, fetcher, catalogue, root, move, trouble, halfway>>
        /\ doubtful' = IF (current # NoLink /\ PostOf[current] = s) \/ CutOffElsewhere(s)
                       THEN doubtful \cup {s} ELSE doubtful
        BY DEF RemoveFiles, SinglesInv, SingleTypes, SingleRows
  <1>2. PICK gone \in SUBSET FilesOf(s) :
           folders' = [folders EXCEPT ![root] = Less(@, gone)]
    <2>1. PICK spared \in SUBSET FilesOf(s) :
             folders' = [folders EXCEPT ![root] = Less(@, FilesOf(s) \ spared)]
          BY DEF RemoveFiles
    <2>2. FilesOf(s) \ spared \in SUBSET FilesOf(s)
          OBVIOUS
    <2> QED BY <2>1, <2>2
  <1>3. \A n \in Part : n[1] = s <=> n \in FilesOf(s)
    <2>1. FilesOf(s) \subseteq Parts(s)
      <3>1. ASSUME s \notin Slideshow PROVE catalogue[s] \in Parts(s)
            BY <1>1, SingleParts DEF Part
      <3> QED BY <3>1 DEF FilesOf
    <2>2. \A n \in Part : n[1] = s => n \in Parts(s)
          BY SingleParts DEF Part
    <2>3. s \notin Slideshow => Parts(s) = {<<s, 1>>}
          BY DEF Parts
    <2>4. \A n \in Parts(s) : n \in FilesOf(s)
          BY <2>1, <2>3 DEF FilesOf
    <2> QED BY <2>1, <2>2, <2>4, SingleParts
  <1>4. PICK rt \in Place : rt = root /\ folders' = [folders EXCEPT ![rt] = Less(@, gone)]
        BY <1>2 DEF SinglesInv, SingleTypes, SingleMove
  <1>5. /\ SingleFiles'
        /\ \A d \in Place, n \in Part : Has(d, n)' <=> Has(d, n) /\ ~(d = rt /\ n \in gone)
        /\ \A d \in Place, n \in Part : Has(d, n)' => folders'[d][n] = folders[d][n]
        BY <1>4, DropFiles DEF SinglesInv, SingleTypes
  <1>6. \A n \in Part : n[1] # s => \A d \in Place : Has(d, n)' <=> Has(d, n)
        BY <1>3, <1>5
  <1>7. \A n \in Part : Intact(n) \ {rt} \subseteq Intact(n)'
        BY <1>1, <1>5 DEF Intact, WritesAt
  <1>8. \A n \in Part : Has(rt, n)' => Intact(n) \subseteq Intact(n)'
        BY <1>1, <1>5 DEF Intact, WritesAt
  <1>9. \A n \in Part : n[1] # s => Intact(n) \subseteq Intact(n)'
        BY <1>1, <1>5, <1>6 DEF Intact, WritesAt
  <1>10. /\ doubtful \subseteq doubtful' /\ doubtful' \subseteq Single
         /\ s \notin doubtful' => /\ ~CutOffElsewhere(s)
                                  /\ ~(current # NoLink /\ PostOf[current] = s)
         BY <1>1 DEF SinglesInv, SingleTypes, SingleMove
  <1>11. SingleQueue' /\ SingleFetch' /\ FetchIsOfPost' /\ SingleRows' /\ SingleMove'
         BY <1>1, <1>10 DEF SinglesInv, SingleTypes, SingleQueue, SingleFetch, FetchIsOfPost,
                            SingleRows, SingleMove
  <1>12. WholeBesideParts'
    <2> SUFFICES ASSUME NEW n \in Part, NEW d \in Place, n[1] \notin doubtful', Has(d, n)'
                 PROVE  Intact(n)' # {}
        BY DEF WholeBesideParts
    <2>1. Has(d, n) /\ Intact(n) # {}
          BY <1>5, <1>10 DEF SinglesInv, WholeBesideParts
    <2>2. CASE n[1] # s
          BY <1>9, <2>1, <2>2
    <2>3. CASE n[1] = s /\ d = rt
          BY <1>8, <2>1, <2>3
    <2>4. CASE n[1] = s /\ d # rt
      <3>1. folders[d][n] = "whole"
            BY <1>3, <1>4, <1>10, <2>1, <2>4 DEF CutOffElsewhere, SinglesInv, SingleTypes, SingleFiles
      <3>2. d \in Intact(n) \ {rt}
            BY <2>1, <2>4, <3>1 DEF Intact
      <3> QED BY <1>7, <3>2
    <2> QED BY <2>2, <2>3, <2>4
  <1>13. CopyBesideWhole'
    <2> SUFFICES ASSUME NEW n \in Part, move # NoMove, move.copy = n, n[1] \notin doubtful'
                 PROVE  /\ Has(root, n)' => Intact(n)' \ {move.to} # {}
                        /\ move.copied => Intact(n)' \ {root} # {}
        BY <1>1 DEF CopyBesideWhole
    <2>1. n[1] \notin doubtful
          BY <1>10
    <2>2. ASSUME Has(root, n)' PROVE Intact(n)' \ {move.to} # {}
      <3>1. Has(rt, n)' /\ Has(root, n)
            BY <1>1, <1>4, <1>5, <2>2 DEF Has
      <3> QED BY <1>8, <2>1, <3>1 DEF SinglesInv, CopyBesideWhole
    <2>3. ASSUME move.copied PROVE Intact(n)' \ {root} # {}
          BY <1>4, <1>7, <2>1, <2>3 DEF SinglesInv, CopyBesideWhole
    <2> QED BY <2>2, <2>3
  <1>14. NamedAreHeld'
    <2> SUFFICES ASSUME NEW p \in Single, p \notin doubtful', p # s, catalogue[p] # NoPart
                 PROVE  \E d \in Place : Has(d, catalogue[p])'
        BY <1>1 DEF NamedAreHeld, Has
    <2>1. catalogue[p] \in Part /\ catalogue[p][1] = p
          BY DEF SinglesInv, SingleTypes, SingleRows
    <2>2. PICK d \in Place : Has(d, catalogue[p])
          BY <1>1, <1>10, SingleParts DEF SinglesInv, NamedAreHeld
    <2>3. \A n \in Part : n = catalogue[p] => Has(d, n)'
          BY <1>6, <2>1, <2>2
    <2> QED BY <1>1, <2>1, <2>3 DEF Has
  <1>15. FetchedAreHeld'
    <2> SUFFICES ASSUME fetcher.step = "fetch", PostOf[current] \notin doubtful'
                 PROVE  /\ \A n \in fetcher.got : \E d \in Place : Has(d, n)'
                        /\ fetcher.writing # NoPart => Has(fetcher.root, fetcher.writing)'
        BY <1>1 DEF FetchedAreHeld, Has
    <2>1. fetcher \in [step : {"fetch"}, root : Place, got : SUBSET Part,
                       writing : Part \cup {NoPart}]
          BY DEF SinglesInv, SingleTypes, SingleFetch, NoFetch
    <2>2. PostOf[current] # s
      <3>1. current # NoLink /\ current \in Link
            BY DEF SinglesInv, SingleTypes, SingleQueue
      <3>2. CASE PostOf[current] = s
            BY <1>1, <3>1, <3>2
      <3> QED BY <3>2
    <2>3. /\ \A n \in fetcher.got : n[1] # s /\ \E d \in Place : Has(d, n)
          /\ fetcher.writing # NoPart => /\ fetcher.writing \in Part /\ fetcher.writing[1] # s
                                         /\ Has(fetcher.root, fetcher.writing)
          BY <1>10, <2>1, <2>2 DEF SinglesInv, SingleTypes, FetchIsOfPost, FetchedAreHeld
    <2>4. \A n \in fetcher.got : \E d \in Place : Has(d, n)'
          BY <1>6, <2>1, <2>3
    <2>5. \A d \in Place, n \in Part : d = fetcher.root /\ n = fetcher.writing /\ n[1] # s
                                       => (Has(d, n)' <=> Has(d, n))
          BY <1>6
    <2> QED BY <1>1, <2>1, <2>3, <2>4, <2>5 DEF Has
  <1>16. WithinReach'
    <2>1. \A d \in Place, n \in Part : Has(d, n)' => Has(d, n)
          BY <1>5
    <2>2. \A n \in Part : Has(root, n)' => Has(root, n)
          BY <1>1, <1>4, <2>1 DEF Has
    <2> QED BY <1>1, <2>1, <2>2 DEF SinglesInv, WithinReach
  <1> QED BY <1>5, <1>11, <1>12, <1>13, <1>14, <1>15, <1>16 DEF SinglesInv, SingleTypes

LEMMA SinglesNextStep == SinglesInv /\ [SinglesNext]_single_vars => SinglesInv'
  <1> SUFFICES ASSUME SinglesInv, [SinglesNext]_single_vars PROVE SinglesInv'
      OBVIOUS
  <1>1. CASE (\E u \in Link : EnqueueSingle(u)) \/ TakeSingle \/ StartFetch
        BY <1>1, SingleQueueStep
  <1>2. CASE (\E s \in Single : FetchVideo(s) \/ FetchSound(s))
             \/ (\E n \in Part : BeginImage(n)) \/ EndImage
        BY <1>2, DownloadStep
  <1>3. CASE FetchFails \/ Catalogue
        BY <1>3, EndOfDownloadStep
  <1>4. CASE \E d \in Place, b \in BOOLEAN : SetRoot(d, b)
        BY <1>4, SetRootStep
  <1>5. CASE (\E n \in Part : StopMove(n)) \/ CopyGone \/ EndMove
    <2>1. /\ move' = NoMove
          /\ UNCHANGED <<links, queued, current, fetcher, catalogue, folders, removal, doubtful>>
          /\ UNCHANGED <<root, halfway, trouble>> \/ EndMove
          BY <1>5 DEF StopMove, CopyGone, EndMove
    <2> QED BY <2>1, MoveEndStep
  <1>6. CASE \E n \in Part : DropCopied(n) \/ RenameInto(n) \/ BeginCopy(n)
        BY <1>6, MoveActionStep
  <1>7. CASE EndCopy \/ DropOriginal
    <2>1. move.copy \in Part
      <3>1. move # NoMove /\ move.copy # NoPart
            BY <1>7 DEF EndCopy, DropOriginal
      <3> QED BY <3>1 DEF SinglesInv, SingleTypes, SingleMove
    <2>2. PICK n \in Part : move.copy = n
          BY <2>1
    <2> QED BY <1>7, <2>2, MoveActionStep
  <1>8. CASE \E s \in Single : RemoveFiles(s)
        BY <1>8, RemoveFilesStep
  <1>9. CASE RemoveRow
        BY <1>9, RemoveRowStep
  <1>10. CASE StopProcess
         BY <1>10, StopProcessStep
  <1>11. CASE UNCHANGED single_vars
    <2> USE <1>11 DEF single_vars
    <2>1. SingleTypes'
          BY DEF SinglesInv, SingleTypes, SingleQueue, SingleFetch, FetchIsOfPost, SingleFiles,
                 SingleRows, SingleMove, Has
    <2>2. WholeBesideParts' /\ CopyBesideWhole'
          BY FilesAlone DEF WritesAt
    <2>3. NamedAreHeld' /\ FetchedAreHeld' /\ WithinReach'
          BY DEF SinglesInv, NamedAreHeld, FetchedAreHeld, WithinReach, Has
    <2> QED BY <2>1, <2>2, <2>3 DEF SinglesInv
  <1> QED BY <1>1, <1>2, <1>3, <1>4, <1>5, <1>6, <1>7, <1>8, <1>9, <1>10, <1>11 DEF SinglesNext

LEMMA SinglesTyped == SinglesInv => SinglesTypeOK
  <1> SUFFICES ASSUME SinglesInv PROVE SinglesTypeOK
      OBVIOUS
  <1>1. fetcher.step \in {"none", "take", "start", "fetch"}
        BY DEF SinglesInv, SingleTypes, SingleFetch, NoFetch
  <1> QED BY <1>1 DEF SinglesInv, SingleTypes, SingleQueue, SingleFiles, SingleRows, SingleMove,
                      SinglesTypeOK

LEMMA SinglesWhereLooked == SinglesInv => SinglesAreThere
  <1> SUFFICES ASSUME SinglesInv, NEW s \in Listed
               PROVE  LET whole == {d \in Place : /\ Has(d, catalogue[s])
                                                  /\ folders[d][catalogue[s]] = "whole"}
                      IN whole # {} /\ (trouble = {} /\ halfway = {} => LooksIn \in whole)
      BY DEF SinglesAreThere
  <1>1. /\ s \in Single /\ catalogue[s] \in Part /\ catalogue[s][1] = s
        /\ s \notin doubtful /\ s # removal /\ s \notin TornVideo
        BY DEF Listed, SinglesInv, SingleTypes, SingleRows
  <1>2. PICK n \in Part : n = catalogue[s]
        BY <1>1
  <1>3. \A d \in Place : ~WritesAt(d, n)
        BY <1>1, <1>2, SingleParts DEF WritesAt, TornVideo, SinglesInv, SingleTypes, FetchIsOfPost
  <1>4. Intact(n) # {}
    <2>1. \E d \in Place : Has(d, catalogue[s])
          BY <1>1, SingleParts DEF SinglesInv, NamedAreHeld
    <2>2. PICK d \in Place : Has(d, n)
          BY <1>2, <2>1
    <2>3. n[1] \notin doubtful
          BY <1>1, <1>2
    <2> QED BY <2>2, <2>3 DEF SinglesInv, WholeBesideParts
  <1>5. PICK d \in Place : Has(d, n) /\ folders[d][n] = "whole"
        BY <1>3, <1>4 DEF Intact
  <1>6. trouble = {} /\ halfway = {} => d = root
        BY <1>5 DEF SinglesInv, WithinReach
  <1> QED BY <1>2, <1>5, <1>6 DEF LooksIn

\* The queue of single videos, its worker, the rows, the folders and the move stay typed.
THEOREM SinglesTypeCorrect == SinglesSpec => []SinglesTypeOK
  <1>1. SinglesInv /\ [SinglesNext]_single_vars => SinglesInv'
        BY SinglesNextStep
  <1> QED BY SinglesStart, SinglesTyped, <1>1, PTL DEF SinglesSpec

\* Whatever moves were stopped or repeated and whatever was downloaded meanwhile, the file
\* that list_single_videos' row names is whole in some folder, and in the root once every
\* move begun has ended and none was overtaken.
THEOREM SinglesAlwaysThere == SinglesSpec => []SinglesAreThere
  <1>1. SinglesInv /\ [SinglesNext]_single_vars => SinglesInv'
        BY SinglesNextStep
  <1> QED BY SinglesStart, SinglesWhereLooked, <1>1, PTL DEF SinglesSpec
=============================================================================
