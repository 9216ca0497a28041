------------------------- MODULE RoomPassingProofs --------------------------
(***************************************************************************)
(* What edits of settings may cost a room: NotPassedTwice of RoomSchedule  *)
(* pair by pair and from any moment on, with every edit allowed that does  *)
(* not help the room that waits, and the bound on all rooms together.      *)
(***************************************************************************)
EXTENDS RoomOrderProofs

\* From plan P to plan Q room r gains nothing on room q: its interval is not
\* shortened, and its priority does not come up to that of q.
GainsNothing(P, Q, r, q) ==
    /\ Q[r].interval >= P[r].interval
    /\ Q[q].priority <= Q[r].priority => P[q].priority <= P[r].priority

\* A step after which the published plan treats r no better against q: skips,
\* postponements, longer intervals and the edits of all other rooms are such.
KeepsPlace(r, q) == GainsNothing(mem.plan, mem'.plan, r, q)

\* Room r was cleaned before and q has no higher priority.
MayWait(r, q) ==
    /\ r # q /\ mem.plan[r].vacuumed # Never
    /\ mem.plan[q].priority <= mem.plan[r].priority

\* The jobs, planned at "from" or later, by which q passed r.
Passes(r, q, from) == {i \in PassedOver(r, q) : mem.jobs[i].planned >= from}
PassedOnce(r, q, from) == MayWait(r, q) => Cardinality(Passes(r, q, from)) <= 1

\* Inductive invariant of a pair: what is published has it, and the file and the
\* save under way have it unless they hold an edit by which r gains.
PlaceInv(r, q, from) ==
    /\ OvertakesOnce(mem, now, r, q, from)
    /\ GainsNothing(mem.plan, disk.plan, r, q) => OvertakesOnce(disk, now, r, q, from)
    /\ saving # Nothing /\ GainsNothing(mem.plan, saving.plan, r, q)
         => OvertakesOnce(saving, now, r, q, from)

-----------------------------------------------------------------------------
(* Edits of settings.                                                      *)

\* A longer interval makes a room due later, if at all.
LEMMA LongerIsLater ==
    ASSUME NEW a \in Plan, NEW b \in Plan, NEW clock \in Nat,
           b.mode = a.mode, b.vacuumed = a.vacuumed, b.mopped = a.mopped,
           b.interval >= a.interval
    PROVE  DueAt(b, clock) >= DueAt(a, clock)
<1>1. /\ a.interval \in Nat /\ b.interval \in Nat /\ Day \in Nat
      /\ a.vacuumed \in Nat /\ a.mopped \in Nat
  BY IntervalsAssumption, DayAssumption DEF Plan
<1> DEFINE short == a.interval * Day
           long == b.interval * Day
<1>2. short \in Nat /\ long \in Nat /\ long >= short
  <2>1. PICK d \in Nat : b.interval = a.interval + d
    <3>1. b.interval - a.interval \in Nat /\ b.interval = a.interval + (b.interval - a.interval)
      BY <1>1
    <3> QED BY <3>1
  <2>2. long = short + d * Day BY <1>1, <2>1
  <2>3. short \in Nat /\ d * Day \in Nat BY <1>1, <2>1
  <2> QED BY <2>2, <2>3
<1> DEFINE last == IF a.mode = "vacuum" THEN Later(a.vacuumed, a.mopped) ELSE a.mopped
<1>3. /\ DueAt(a, clock) = IF last = Never THEN clock ELSE last + short
      /\ DueAt(b, clock) = IF last = Never THEN clock ELSE last + long
  BY DEF DueAt
<1>4. last \in Nat BY <1>1 DEF Later
<1> HIDE DEF short, long, last
<1> QED BY <1>2, <1>3, <1>4

\* S and T differ in intervals and priorities only.
SameButSettings(S, T) ==
    /\ T.jobs = S.jobs
    /\ \A x \in Room :
         /\ T.plan[x] \in Plan /\ T.plan[x].mode = S.plan[x].mode
         /\ T.plan[x].skip = S.plan[x].skip
         /\ T.plan[x].vacuumed = S.plan[x].vacuumed /\ T.plan[x].mopped = S.plan[x].mopped

\* An edit of a setting by which r gains nothing on q leaves r its place.
LEMMA SettingKeepsPlace ==
    ASSUME NEW S \in Sched, NEW T, SameButSettings(S, T), NEW clock \in Nat,
           NEW r \in Room, NEW q \in Room, NEW from,
           GainsNothing(S.plan, T.plan, r, q), OvertakesOnce(S, clock, r, q, from)
    PROVE  OvertakesOnce(T, clock, r, q, from)
<1>1. S.plan[r] \in Plan /\ T.plan[r] \in Plan BY DEF Sched, SameButSettings
<1>2. DueAt(T.plan[r], clock) >= DueAt(S.plan[r], clock)
  BY <1>1, LongerIsLater DEF SameButSettings, GainsNothing
<1>3. /\ DueAt(S.plan[r], clock) \in Nat /\ DueAt(T.plan[r], clock) \in Nat
      /\ S.plan[r].skip \in Nat /\ T.plan[r].skip = S.plan[r].skip
  BY <1>1, DueAtIsMoment DEF Plan, SameButSettings
<1>4. /\ Claims(S.plan[r], clock) \in Nat /\ Claims(T.plan[r], clock) \in Nat
      /\ Claims(T.plan[r], clock) >= Claims(S.plan[r], clock)
  BY <1>2, <1>3 DEF Claims, Later
<1>5. \A i \in DOMAIN S.jobs : S.jobs[i].planned \in Nat
  <2>1. \A i \in DOMAIN S.jobs : S.jobs[i] \in Job BY JobsAreJobs DEF Sched
  <2> QED BY <2>1 DEF Job
<1>6. ASSUME r # q, T.plan[r].vacuumed # Never,
             T.plan[q].priority <= T.plan[r].priority,
             NEW i \in DOMAIN T.jobs, NEW k \in DOMAIN T.jobs,
             i < k, T.jobs[i].room = q, T.jobs[k].room = q, T.jobs[i].state = "completed",
             T.jobs[i].planned >= from,
             T.jobs[k].planned >= Claims(T.plan[r], clock)
      PROVE  T.jobs[i].planned < Claims(T.plan[r], clock)
  <2>1. T.jobs = S.jobs /\ S.plan[r].vacuumed # Never BY <1>6 DEF SameButSettings
  <2>2. S.plan[q].priority <= S.plan[r].priority BY <1>6 DEF GainsNothing
  <2>3. S.jobs[k].planned >= Claims(S.plan[r], clock) BY <1>4, <1>5, <1>6, <2>1
  <2>4. S.jobs[i].planned < Claims(S.plan[r], clock)
    BY <1>6, <2>1, <2>2, <2>3 DEF OvertakesOnce
  <2> QED BY <1>4, <1>5, <1>6, <2>1, <2>4
<1> QED BY <1>6 DEF OvertakesOnce

\* A command by whose effect r gains nothing on q leaves r its place.
LEMMA EffectsKeepPlace ==
    ASSUME NEW S, SoundSchedule(S), ValidJobs(S), NEW c, Asked(c), now \in Nat,
           NEW T \in Effects(c, S), \A i \in DOMAIN S.jobs : S.jobs[i].planned <= c.at,
           NEW r \in Room, NEW q \in Room, NEW from, OvertakesOnce(S, now, r, q, from),
           GainsNothing(S.plan, T.plan, r, q)
    PROVE  OvertakesOnce(T, now, r, q, from)
<1>1. S \in Sched BY DEF SoundSchedule, Sched
<1>2. CASE c.op \notin {"interval", "priority"} BY <1>2, EffectsKeepOrder
<1>3. CASE T = S BY <1>3
<1>4. CASE c.op \in {"interval", "priority"} /\ T # S
  <2>1. /\ c.room \in Room
        /\ c.op = "interval" => c.value \in Intervals
        /\ c.op = "priority" => c.value \in Priorities
    BY <1>4 DEF Asked, Command
  <2>2. \/ c.op = "interval" /\ T = [S EXCEPT !.plan[c.room].interval = c.value]
        \/ c.op = "priority" /\ T = [S EXCEPT !.plan[c.room].priority = c.value]
    BY <1>4 DEF Effects
  <2>3. T.jobs = S.jobs BY <1>1, <2>2 DEF Sched
  <2>4. \A x \in Room :
          /\ S.plan[x] \in Plan
          /\ \/ T.plan[x] = S.plan[x]
             \/ c.op = "interval" /\ T.plan[x] = [S.plan[x] EXCEPT !.interval = c.value]
             \/ c.op = "priority" /\ T.plan[x] = [S.plan[x] EXCEPT !.priority = c.value]
    BY <1>1, <2>1, <2>2 DEF Sched
  <2>5. ASSUME NEW x \in Room
        PROVE  /\ T.plan[x] \in Plan /\ T.plan[x].mode = S.plan[x].mode
               /\ T.plan[x].skip = S.plan[x].skip
               /\ T.plan[x].vacuumed = S.plan[x].vacuumed
               /\ T.plan[x].mopped = S.plan[x].mopped
    <3>1. S.plan[x] \in Plan BY <2>4
    <3>2. CASE T.plan[x] = S.plan[x] BY <3>1, <3>2
    <3>3. CASE c.op = "interval" /\ T.plan[x] = [S.plan[x] EXCEPT !.interval = c.value]
      BY <2>1, <3>1, <3>3 DEF Plan
    <3>4. CASE c.op = "priority" /\ T.plan[x] = [S.plan[x] EXCEPT !.priority = c.value]
      BY <2>1, <3>1, <3>4 DEF Plan
    <3> QED BY <2>4, <3>2, <3>3, <3>4
  <2>6. SameButSettings(S, T) BY <2>3, <2>5 DEF SameButSettings
  <2> QED BY <1>1, <2>6, SettingKeepsPlace
<1> QED BY <1>2, <1>3, <1>4

-----------------------------------------------------------------------------
(* The invariant of a pair.                                                *)

LEMMA StepKeepsPlace ==
    ASSUME NEW r \in Room, NEW q \in Room, NEW from,
           ScheduleInv, TurnInv, PlaceInv(r, q, from), [Next]_vars, [KeepsPlace(r, q)]_vars
    PROVE  PlaceInv(r, q, from)'
<1>0. /\ now \in Nat /\ waiting \in Seq(Command) /\ disk \in Sched
      /\ SoundSchedule(mem) /\ SoundSchedule(disk) /\ ValidJobs(mem)
      /\ saving # Nothing => SoundSchedule(saving)
  BY DEF ScheduleInv, TurnInv, TypeOK, Planner, ValidJobs, SoundSchedule, Sched
<1>1. CASE UNCHANGED <<now, mem, disk, saving>> BY <1>1 DEF PlaceInv
<1>2. CASE Execute
  <2>1. waiting # <<>> /\ UNCHANGED <<now, mem, disk>> BY <1>2 DEF Execute
  <2>2. PICK T \in Effects(Head(waiting), mem) : saving' = IF T = mem THEN Nothing ELSE T
    BY <1>2 DEF Execute, Base
  <2>3. 1 \in DOMAIN waiting /\ Head(waiting) = waiting[1] BY <1>0, <2>1, TakeFirst
  <2>4. /\ Asked(Head(waiting))
        /\ \A i \in DOMAIN mem.jobs : mem.jobs[i].planned <= Head(waiting).at
    BY <2>3 DEF ScheduleInv, TurnInv, AskedLater
  <2>5. OvertakesOnce(mem, now, r, q, from) BY DEF PlaceInv
  <2>6. GainsNothing(mem.plan, T.plan, r, q) => OvertakesOnce(T, now, r, q, from)
    BY <1>0, <2>2, <2>4, <2>5, EffectsKeepPlace
  <2> QED BY <2>1, <2>2, <2>6 DEF PlaceInv
<1>3. CASE WriteLands BY <1>3 DEF WriteLands, PlaceInv
<1>4. CASE UNCHANGED vars BY <1>1, <1>4 DEF vars
<1>5. CASE Publish
  <2>1. /\ mem' = disk /\ disk' = disk /\ saving' = Nothing /\ now' = now
    BY <1>5 DEF Publish
  <2>2. CASE KeepsPlace(r, q) BY <2>1, <2>2 DEF PlaceInv, KeepsPlace
  <2> QED BY <1>4, <2>2
<1>6. CASE SaveFails BY <1>6 DEF SaveFails, PlaceInv
<1>7. CASE Restart
  <2>1. /\ mem' = Recover(disk) /\ disk' = Recover(disk) /\ saving' = Nothing /\ now' = now
    BY <1>7 DEF Restart
  <2>2. JobsMove(disk, Recover(disk)) BY <1>0, CommandsMoveJobs
  <2>3. Recover(disk).plan = disk.plan BY <2>2 DEF JobsMove
  <2>4. CASE KeepsPlace(r, q)
    <3>1. GainsNothing(mem.plan, disk.plan, r, q) BY <2>1, <2>3, <2>4 DEF KeepsPlace
    <3>2. OvertakesOnce(disk, now, r, q, from) BY <3>1 DEF PlaceInv
    <3>3. OvertakesOnce(Recover(disk), now, r, q, from) BY <2>2, <3>2, JobsMoveKeepOrder
    <3> QED BY <2>1, <3>3 DEF PlaceInv
  <2> QED BY <1>4, <2>4
<1>8. CASE Tick
  <2>1. now' = now + 1 /\ UNCHANGED <<mem, disk, saving>> BY <1>8 DEF Tick
  <2>2. ASSUME NEW S, SoundSchedule(S), OvertakesOnce(S, now, r, q, from)
        PROVE  OvertakesOnce(S, now + 1, r, q, from)
    <3>1. now + 1 \in Nat BY <1>0
    <3>2. S.plan[r].vacuumed # Never => DueAt(S.plan[r], now + 1) = DueAt(S.plan[r], now)
      BY <1>0, <2>2, <3>1, DueIsFixed
    <3>3. S.plan[r].vacuumed # Never => Claims(S.plan[r], now + 1) = Claims(S.plan[r], now)
      BY <3>2 DEF Claims
    <3> QED BY <2>2, <3>3 DEF OvertakesOnce
  <2> QED BY <1>0, <2>1, <2>2 DEF PlaceInv
<1>9. ASSUME NEW c, Ask(c) PROVE PlaceInv(r, q, from)'
  BY <1>1, <1>9 DEF Ask
<1>10. CASE \/ Start \/ JobCommand("cancel", {"pending"}) \/ JobCommand("dispatch", {"pending"})
            \/ JobCommand("accept", {"dispatching"})
            \/ \E op \in {"running", "failed", "uncertain", "completed"} :
                 JobCommand(op, {"pending", "dispatching", "accepted", "running"})
            \/ JobCommand("resolve", {"uncertain"})
  BY <1>9, <1>10 DEF Start, JobCommand
<1>11. CASE \E x \in Room : \/ Edit("skip", x, 1)
                            \/ \E v \in Postpones : Edit("postpone", x, v)
                            \/ \E v \in Intervals : Edit("interval", x, v)
                            \/ \E v \in Priorities : Edit("priority", x, v)
  BY <1>9, <1>11 DEF Edit
<1> QED BY <1>2, <1>3, <1>4, <1>5, <1>6, <1>7, <1>8, <1>10, <1>11 DEF Next

\* The initial state has no job, and no job is planned after this moment.
LEMMA InitKeepsPlace ==
    ASSUME Init, NEW r, NEW q, NEW from
    PROVE  PlaceInv(r, q, from)
<1>1. mem.jobs = <<>> /\ disk = mem /\ saving = Nothing /\ DOMAIN <<>> = {}
  BY EmptySeq DEF Init
<1> QED BY <1>1 DEF PlaceInv, OvertakesOnce

LEMMA NowKeepsPlace ==
    ASSUME ScheduleInv, TurnInv, NEW r, NEW q
    PROVE  PlaceInv(r, q, now + 1)
<1>1. ASSUME NEW S, S \in Sched, Past(S, now)
      PROVE  OvertakesOnce(S, now, r, q, now + 1)
  <2>1. \A i \in DOMAIN S.jobs : S.jobs[i] \in Job BY <1>1, JobsAreJobs DEF Sched
  <2>2. \A i \in DOMAIN S.jobs : S.jobs[i].planned \in Nat /\ S.jobs[i].planned <= now
    BY <1>1, <2>1 DEF Past, Job
  <2>3. now \in Nat BY DEF ScheduleInv
  <2>4. \A i \in DOMAIN S.jobs : ~(S.jobs[i].planned >= now + 1) BY <2>2, <2>3
  <2> QED BY <2>4 DEF OvertakesOnce
<1>2. /\ mem \in Sched /\ disk \in Sched /\ Past(mem, now) /\ Past(disk, now)
      /\ saving # Nothing => saving \in Sched /\ Past(saving, now)
  BY DEF ScheduleInv, TurnInv, SoundSchedule, Sched
<1> QED BY <1>1, <1>2 DEF PlaceInv

\* What the invariant of a pair says of the completed jobs.
LEMMA PlaceIsPassedOnce ==
    ASSUME ScheduleInv, NEW r \in Room, NEW q \in Room, NEW from, PlaceInv(r, q, from),
           MayWait(r, q)
    PROVE  \A i, k \in Passes(r, q, from) : i = k
<1>1. /\ mem.plan[r] \in Plan /\ now \in Nat /\ DOMAIN mem.jobs \subseteq Nat
      /\ \A i \in DOMAIN mem.jobs : mem.jobs[i] \in Job
  BY JobsAreJobs DEF ScheduleInv, SoundSchedule
<1> DEFINE due == Claims(mem.plan[r], now)
<1>2. due \in Nat BY <1>1, ClaimsIsMoment
<1>3. ASSUME NEW i \in Passes(r, q, from), NEW k \in Passes(r, q, from), i < k
      PROVE  FALSE
  <2>1. /\ i \in DOMAIN mem.jobs /\ k \in DOMAIN mem.jobs
        /\ mem.jobs[i].room = q /\ mem.jobs[k].room = q
        /\ mem.jobs[i].state = "completed" /\ mem.jobs[i].planned >= from
        /\ mem.jobs[i].planned >= due /\ mem.jobs[k].planned >= due
    BY <1>3 DEF Passes, PassedOver, CompletedJobs
  <2>2. mem.jobs[i].planned < due
    BY <1>3, <2>1 DEF PlaceInv, OvertakesOnce, MayWait
  <2>3. mem.jobs[i].planned \in Nat BY <1>1, <2>1 DEF Job
  <2> QED BY <1>2, <2>1, <2>2, <2>3
<1>4. Passes(r, q, from) \subseteq Nat BY <1>1 DEF Passes, PassedOver, CompletedJobs
<1> QED BY <1>3, <1>4

-----------------------------------------------------------------------------
(* Theorems.                                                               *)

\* A room that was cleaned before and is due is passed over once at most by a room
\* of no higher priority, whatever is edited, as long as no edit helps the first
\* against the second (build_due_snapshot sorts by the settings of now).
THEOREM OnceUnlessItGains ==
    ASSUME NEW r \in Room, NEW q \in Room
    PROVE  Spec /\ [][KeepsPlace(r, q)]_vars => []PassedOnce(r, q, 0)
<1>1. Init => PlaceInv(r, q, 0) BY InitKeepsPlace
<1>2. ScheduleInv /\ TurnInv /\ PlaceInv(r, q, 0) /\ [Next]_vars /\ [KeepsPlace(r, q)]_vars
      => PlaceInv(r, q, 0)'
  BY StepKeepsPlace
<1>3. ScheduleInv /\ PlaceInv(r, q, 0) => PassedOnce(r, q, 0)
  BY PlaceIsPassedOnce, OneElement DEF PassedOnce
<1> QED BY <1>1, <1>2, <1>3, ScheduleInvariant, TurnInvariant, PTL DEF Spec

\* An edit that does help a room costs no more than what it changes at once: from
\* any moment on, whatever was edited before it and whatever a crash brings back,
\* the room is passed over once at most by jobs that are planned after it.
THEOREM OnceFromNowOn ==
    ASSUME NEW r \in Room, NEW q \in Room, NEW t \in Nat
    PROVE  Spec => []((now = t) /\ [][KeepsPlace(r, q)]_vars => []PassedOnce(r, q, t + 1))
<1>1. ScheduleInv /\ TurnInv /\ (now = t) => PlaceInv(r, q, t + 1) BY NowKeepsPlace
<1>2. /\ ScheduleInv /\ TurnInv /\ PlaceInv(r, q, t + 1)
      /\ [Next]_vars /\ [KeepsPlace(r, q)]_vars
      => PlaceInv(r, q, t + 1)'
  BY StepKeepsPlace
<1>3. ScheduleInv /\ PlaceInv(r, q, t + 1) => PassedOnce(r, q, t + 1)
  BY PlaceIsPassedOnce, OneElement DEF PassedOnce
<1> QED BY <1>1, <1>2, <1>3, ScheduleInvariant, TurnInvariant, PTL DEF Spec

\* The same for all rooms at once.
KeepsPlaces(r) == \A q \in Room : KeepsPlace(r, q)
PlacesInv(r, from) == \A q \in Room : PlaceInv(r, q, from)

LEMMA StepKeepsPlaces ==
    ASSUME NEW r \in Room, NEW from,
           ScheduleInv, TurnInv, PlacesInv(r, from), [Next]_vars, [KeepsPlaces(r)]_vars
    PROVE  PlacesInv(r, from)'
<1>1. ASSUME NEW q \in Room PROVE PlaceInv(r, q, from)'
  <2>1. PlaceInv(r, q, from) BY DEF PlacesInv
  <2>2. [KeepsPlace(r, q)]_vars BY DEF KeepsPlaces
  <2> QED BY <2>1, <2>2, StepKeepsPlace
<1> QED BY <1>1 DEF PlacesInv

\* The completed jobs by which rooms of no higher priority passed r, which was
\* cleaned before, and the rooms that may pass it.
MayPass(r) == {q \in Room : MayWait(r, q)}
AllPasses(r, from) == UNION {Passes(r, q, from) : q \in MayPass(r)}
WaitIsShort(r, from) == Cardinality(AllPasses(r, from)) <= Cardinality(MayPass(r))

\* Each pass belongs to a room of its own.
LEMMA PlacesMakeWaitShort ==
    ASSUME ScheduleInv, NEW r \in Room, NEW from, PlacesInv(r, from)
    PROVE  WaitIsShort(r, from)
<1> DEFINE passed == AllPasses(r, from)
           others == MayPass(r)
           roomOf == [i \in passed |-> mem.jobs[i].room]
<1>1. \A i \in passed : \E q \in others : i \in Passes(r, q, from) BY DEF AllPasses
<1>2. \A q \in others : \A i \in Passes(r, q, from) : mem.jobs[i].room = q
  BY DEF Passes, PassedOver, CompletedJobs
<1>3. \A q \in others : \A i, k \in Passes(r, q, from) : i = k
  BY PlaceIsPassedOnce DEF PlacesInv, MayPass
<1> HIDE DEF passed, others
<1>4. roomOf \in [passed -> others] BY <1>1, <1>2
<1>5. \A i, k \in passed : roomOf[i] = roomOf[k] => i = k
  <2> SUFFICES ASSUME NEW i \in passed, NEW k \in passed, roomOf[i] = roomOf[k]
               PROVE  i = k
    OBVIOUS
  <2>1. PICK p \in others : i \in Passes(r, p, from) BY <1>1
  <2>2. PICK q \in others : k \in Passes(r, q, from) BY <1>1
  <2>3. p = q BY <1>2, <2>1, <2>2
  <2> QED BY <1>3, <2>1, <2>2, <2>3
<1>6. roomOf \in Injection(passed, others) BY <1>4, <1>5 DEF Injection, IsInjective
<1>7. IsFiniteSet(others)
  <2>1. others \in SUBSET Room BY DEF others, MayPass
  <2> QED BY <2>1, RoomAssumption, FS_Subset
<1>8. Cardinality(passed) <= Cardinality(others) BY <1>6, <1>7, FS_Injection
<1> QED BY <1>8 DEF WaitIsShort, passed, others

\* From any moment on, as long as no edit helps a room that was cleaned before, the
\* jobs that are planned while it is due and completed are bounded by the number of
\* rooms of no higher priority: one completed job of each of them at most comes before
\* it.
THEOREM WaitIsBounded ==
    ASSUME NEW r \in Room, NEW t \in Nat
    PROVE  Spec => []((now = t) /\ [][KeepsPlaces(r)]_vars => []WaitIsShort(r, t + 1))
<1>1. ScheduleInv /\ TurnInv /\ (now = t) => PlacesInv(r, t + 1)
  BY NowKeepsPlace DEF PlacesInv
<1>2. /\ ScheduleInv /\ TurnInv /\ PlacesInv(r, t + 1)
      /\ [Next]_vars /\ [KeepsPlaces(r)]_vars
      => PlacesInv(r, t + 1)'
  BY StepKeepsPlaces
<1>3. ScheduleInv /\ PlacesInv(r, t + 1) => WaitIsShort(r, t + 1)
  BY PlacesMakeWaitShort
<1> QED BY <1>1, <1>2, <1>3, ScheduleInvariant, TurnInvariant, PTL DEF Spec

\* No edit helps any room against any other.
NobodyGains == \A r \in Room : KeepsPlaces(r)
AllPlacesInv == \A r \in Room : PlacesInv(r, 0)

\* NotPassedTwice holds with every edit that helps no room: not only with skips and
\* postponements, but with longer intervals and with priorities that are moved
\* without reaching those of another room (due selection).
THEOREM NobodyIsPassedTwiceByEdits ==
    Spec /\ [][NobodyGains]_vars => []NotPassedTwice
<1>1. Init => AllPlacesInv BY InitKeepsPlace DEF AllPlacesInv, PlacesInv
<1>2. ScheduleInv /\ TurnInv /\ AllPlacesInv /\ [Next]_vars /\ [NobodyGains]_vars
      => AllPlacesInv'
  <2> SUFFICES ASSUME ScheduleInv, TurnInv, AllPlacesInv, [Next]_vars, [NobodyGains]_vars,
                      NEW r \in Room
               PROVE  PlacesInv(r, 0)'
    BY DEF AllPlacesInv
  <2>1. PlacesInv(r, 0) /\ [KeepsPlaces(r)]_vars BY DEF AllPlacesInv, NobodyGains
  <2> QED BY <2>1, StepKeepsPlaces
<1>3. ScheduleInv /\ AllPlacesInv => NotPassedTwice
  <2> SUFFICES ASSUME ScheduleInv, AllPlacesInv, NEW r \in Room, NEW q \in Room, MayWait(r, q)
               PROVE  Cardinality(PassedOver(r, q)) <= 1
    BY DEF NotPassedTwice, MayWait
  <2>1. PlaceInv(r, q, 0) BY DEF AllPlacesInv, PlacesInv
  <2>2. \A i, k \in Passes(r, q, 0) : i = k BY <2>1, PlaceIsPassedOnce
  <2>3. \A i \in DOMAIN mem.jobs : mem.jobs[i].planned >= 0
    <3>1. \A i \in DOMAIN mem.jobs : mem.jobs[i] \in Job
      BY JobsAreJobs DEF ScheduleInv, SoundSchedule
    <3> QED BY <3>1 DEF Job
  <2>4. Passes(r, q, 0) = PassedOver(r, q)
    BY <2>3 DEF Passes, PassedOver, CompletedJobs
  <2> QED BY <2>2, <2>4, OneElement
<1> QED BY <1>1, <1>2, <1>3, ScheduleInvariant, TurnInvariant, PTL DEF Spec
=============================================================================
