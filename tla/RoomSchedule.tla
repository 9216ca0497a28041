---------------------------- MODULE RoomSchedule ----------------------------
(***************************************************************************)
(* The plan of one lane and the jobs made from it: which room start_next   *)
(* takes, how a completed job is credited to its room, and how the edits   *)
(* of the user (skip, postpone, interval, priority) meet both.             *)
(*                                                                         *)
(* A command takes its time when it is asked for, waits for the lock, then *)
(* computes plan and ledger together from the published state, saves them  *)
(* as one value and publishes them.  LaneDispatch models that lock and the *)
(* calls to the vacuum in detail; here one command waits behind the one    *)
(* that saves, which is all that the plan can tell apart.                  *)
(***************************************************************************)
EXTENDS Naturals, Sequences, FiniteSets

CONSTANTS
    Room,        \* the configured areas, numbered in the order of area_id
    Modes,       \* preferred modes the lane may have been configured with
    Day,         \* length of a day in ticks
    MaxTime,     \* bound: the last tick
    Intervals,   \* intervals in days that are configured or set
    Priorities,  \* priorities that are configured or set
    Postpones,   \* numbers of days that a room is postponed by
    Edits,       \* which edits the user makes
    MaxJobs,     \* bound: blocks in the ledger
    Faults,      \* which faults happen: "save", "restart"
    MaxWaiting,  \* bound: commands waiting for the lock
    Nothing      \* the lock is free

ASSUME RoomAssumption == Room \subseteq Nat /\ IsFiniteSet(Room) /\ Room # {}
ASSUME ModesAssumption == Modes \subseteq {"vacuum", "vacuum_and_mop"}
ASSUME DayAssumption == Day \in Nat \ {0}
ASSUME MaxTimeAssumption == MaxTime \in Nat
ASSUME IntervalsAssumption == Intervals \subseteq Nat \ {0}
ASSUME PrioritiesAssumption == Priorities \subseteq Nat
ASSUME PostponesAssumption == Postpones \subseteq Nat \ {0}
ASSUME EditsAssumption == Edits \subseteq {"skip", "postpone", "interval", "priority"}
ASSUME FaultsAssumption == Faults \subseteq {"save", "restart"}
ASSUME BoundsAssumption == MaxJobs \in Nat /\ MaxWaiting \in Nat \ {0}

VARIABLES
    now,      \* the clock, in ticks from 1
    mem,      \* coordinator._state: plan and jobs
    disk,     \* the same in the store file
    waiting,  \* commands that wait for the lock, first come first served
    saving    \* the state that the holder of the lock saves, or Nothing

vars == <<now, mem, disk, waiting, saving>>

-----------------------------------------------------------------------------
(* RoomPlan.  Time starts at 1, so that Never comes before every moment.   *)

Never == 0
Later(s, t) == IF s > t THEN s ELSE t

\* The interval of the preferred mode; the other one is never read, because
\* no command changes the mode.
Plan == [mode : Modes, interval : Intervals, priority : Priorities,
         skip : Nat, vacuumed : Nat, mopped : Nat]

\* _select_due: the moment from which the room is due.  (Mutant: no interval.)
DueAt_AtOnce(p, at) ==
    LET last == Later(p.vacuumed, p.mopped) IN IF last = Never THEN at ELSE last
DueAt(p, at) ==
    LET last == IF p.mode = "vacuum" THEN Later(p.vacuumed, p.mopped) ELSE p.mopped
    IN IF last = Never THEN at ELSE last + p.interval * Day

\* build_due_snapshot.  Every configured room is enabled.
Candidate(p, at) == p.skip <= at /\ DueAt(p, at) <= at
Candidates(plan, at) == {r \in Room : Candidate(plan[r], at)}

\* The order of the snapshot: priority, then due time, then area_id.
\* (Mutant: area_id before due time.)
Precedes_ByArea(plan, at, r, q) ==
    \/ plan[r].priority > plan[q].priority
    \/ plan[r].priority = plan[q].priority /\ r < q
Precedes(plan, at, r, q) ==
    LET dr == DueAt(plan[r], at)
        dq == DueAt(plan[q], at)
    IN \/ plan[r].priority > plan[q].priority
       \/ /\ plan[r].priority = plan[q].priority
          /\ dr < dq \/ (dr = dq /\ r < q)
IsFirst(plan, at, r) ==
    /\ r \in Candidates(plan, at)
    /\ \A q \in Candidates(plan, at) \ {r} : Precedes(plan, at, r, q)

-----------------------------------------------------------------------------
(* The ledger: one job per block, in the order of creation.  "stuck" is a  *)
(* failed job whose block was resumed when it was resolved.                *)

State == {"pending", "dispatching", "accepted", "running", "uncertain",
          "completed", "failed", "cancelled", "stuck"}
Job == [room : Room, state : State, planned : Nat, sent : Nat, started : Nat,
        finished : Nat]
Closed == {"completed", "failed", "cancelled"}
LaneIsFree(jobs) == \A i \in DOMAIN jobs : jobs[i].state \in Closed

-----------------------------------------------------------------------------
(* The commands, as functions of the state S under the lock.  A command    *)
(* that raises or finds nothing to do returns the state unchanged.         *)

\* Every job that satisfies Is becomes To(job).
Replace(S, Is(_), To(_)) ==
    [S EXCEPT !.jobs = [i \in DOMAIN @ |-> IF Is(@[i]) THEN To(@[i]) ELSE @[i]]]

\* start_next: the first due room becomes a sealed block.
NewJob(r, at) == [room |-> r, state |-> "pending", planned |-> at, sent |-> Never,
                  started |-> Never, finished |-> Never]
StartNext(S, at) ==
    IF LaneIsFree(S.jobs) /\ Candidates(S.plan, at) # {}
    THEN LET r == CHOOSE r \in Room : IsFirst(S.plan, at, r)
         IN [S EXCEPT !.jobs = Append(@, NewJob(r, at))]
    ELSE S

CancelBlock(S, at) ==
    Replace(S, LAMBDA j : j.state = "pending",
               LAMBDA j : [j EXCEPT !.state = "cancelled", !.finished = at])

\* The claim reads the clock under the lock.
Dispatch(S, clock) ==
    Replace(S, LAMBDA j : j.state = "pending",
               LAMBDA j : [j EXCEPT !.state = "dispatching", !.sent = clock])
Accept(S) ==
    Replace(S, LAMBDA j : j.state = "dispatching",
               LAMBDA j : [j EXCEPT !.state = "accepted"])

\* An event fired before the claim says nothing about this job.
\* (Mutant: its age does not matter.)
Sent_AnyTime(j, at) == j.state \in {"dispatching", "accepted"}
Sent(j, at) == j.state \in {"dispatching", "accepted"} /\ at >= j.sent
Runs(j, at) == j.state = "running" /\ at >= j.started

ReportRunning(S, at) ==
    Replace(S, LAMBDA j : Sent(j, at),
               LAMBDA j : [j EXCEPT !.state = "running", !.started = at])
ReportFailed(S, at) ==
    Replace(S, LAMBDA j : Sent(j, at) \/ Runs(j, at),
               LAMBDA j : [j EXCEPT !.state = "failed", !.finished = at])
ReportUncertain(S, at) ==
    Replace(S, LAMBDA j : Sent(j, at) \/ j.state \in {"accepted", "running"},
               LAMBDA j : [j EXCEPT !.state = "uncertain"])

\* complete_job_and_advance_plan: each completed job is credited to its room.
\* (Mutant: with the moment it was planned.)
CreditedAt_Planned(j, at) == j.planned
CreditedAt(j, at) == at
Credit(p, t) ==
    [p EXCEPT !.vacuumed = Later(@, t),
              !.mopped = IF p.mode = "vacuum_and_mop" THEN Later(@, t) ELSE @]
ReportCompleted(S, at) ==
    LET done == {i \in DOMAIN S.jobs : Runs(S.jobs[i], at)}
        CreditOf(r) == {CreditedAt(S.jobs[i], at) : i \in {k \in done : S.jobs[k].room = r}}
    IN [Replace(S, LAMBDA j : Runs(j, at),
                   LAMBDA j : [j EXCEPT !.state = "completed", !.finished = at])
        EXCEPT !.plan = [r \in Room |-> IF CreditOf(r) = {} THEN @[r]
                                        ELSE Credit(@[r], CHOOSE t \in CreditOf(r) : TRUE)]]

\* resolve_uncertain_run: the job failed; a block that was committed stays open.
ResolveUncertainRun(S, at, outcome) ==
    Replace(S, LAMBDA j : j.state = "uncertain",
               LAMBDA j : [j EXCEPT !.state = outcome, !.finished = at])

\* skip_area_today: until the next midnight.
NextMidnight(at) == (at \div Day + 1) * Day
Rests(S, r, until) == [S EXCEPT !.plan[r].skip = until]

\* quarantine_ambiguous_dispatches.
Recover(S) ==
    Replace(S, LAMBDA j : j.state \in {"dispatching", "accepted", "running"},
               LAMBDA j : [j EXCEPT !.state = "uncertain"])

-----------------------------------------------------------------------------
(* Commands and their effects.                                             *)

Command == [op : {"start", "cancel", "dispatch", "accept", "running", "failed",
                  "uncertain", "completed", "resolve"}, at : Nat]
           \cup [op : Edits, at : Nat, room : Room, value : Nat]

\* What the command c may make of S: it may also be refused, by a guard, a
\* missing area binding or the paused planner.
Effects(c, S) ==
    {S} \cup
    CASE c.op = "start" -> {StartNext(S, c.at)}
      [] c.op = "cancel" -> {CancelBlock(S, c.at)}
      [] c.op = "dispatch" -> {Dispatch(S, now)}
      [] c.op = "accept" -> {Accept(S)}
      [] c.op = "running" -> {ReportRunning(S, c.at)}
      [] c.op = "failed" -> {ReportFailed(S, c.at)}
      [] c.op = "uncertain" -> {ReportUncertain(S, c.at)}
      [] c.op = "completed" -> {ReportCompleted(S, c.at)}
      [] c.op = "resolve" -> {ResolveUncertainRun(S, c.at, o) : o \in {"failed", "stuck"}}
      [] c.op = "skip" -> {Rests(S, c.room, NextMidnight(c.at))}
      [] c.op = "postpone" -> {Rests(S, c.room, c.at + c.value * Day)}
      [] c.op = "interval" -> {[S EXCEPT !.plan[c.room].interval = c.value]}
      [] c.op = "priority" -> {[S EXCEPT !.plan[c.room].priority = c.value]}

Ask(c) ==
    /\ Len(waiting) < MaxWaiting
    /\ waiting' = Append(waiting, c)
    /\ UNCHANGED <<now, mem, disk, saving>>

\* A handler, the observer or the user asks, at a moment that fits what is
\* published; what is still true under the lock shows later.
Start == Len(mem.jobs) < MaxJobs /\ Ask([op |-> "start", at |-> now])
JobCommand(op, states) ==
    /\ \E i \in DOMAIN mem.jobs : mem.jobs[i].state \in states
    /\ Ask([op |-> op, at |-> now])
Edit(op, r, v) == op \in Edits /\ Ask([op |-> op, at |-> now, room |-> r, value |-> v])

\* async_command: the command runs on the published state.
\* (Mutant: on the state of the file.)
Base_File == disk
Base == mem
Execute ==
    /\ saving = Nothing /\ waiting # <<>>
    /\ waiting' = Tail(waiting)
    /\ \E S \in Effects(Head(waiting), Base) :
          /\ Len(S.jobs) <= MaxJobs
          /\ saving' = IF S = mem THEN Nothing ELSE S
    /\ UNCHANGED <<now, mem, disk>>

WriteLands ==
    /\ saving # Nothing /\ disk # saving
    /\ disk' = saving
    /\ UNCHANGED <<now, mem, waiting, saving>>

Publish ==
    /\ saving # Nothing /\ disk = saving
    /\ mem' = saving /\ saving' = Nothing
    /\ UNCHANGED <<now, disk, waiting>>

\* The save raises before or after the file is replaced, or a guard refuses
\* to publish what was saved.
SaveFails ==
    /\ "save" \in Faults /\ saving # Nothing
    /\ saving' = Nothing
    /\ UNCHANGED <<now, mem, disk, waiting>>

\* Home Assistant dies, or reloads with nothing in flight: the store file is
\* loaded, recovered and saved.
Restart ==
    /\ "restart" \in Faults
    /\ mem' = Recover(disk) /\ disk' = Recover(disk)
    /\ waiting' = <<>> /\ saving' = Nothing
    /\ UNCHANGED now

Tick ==
    /\ now < MaxTime
    /\ now' = now + 1
    /\ UNCHANGED <<mem, disk, waiting, saving>>

-----------------------------------------------------------------------------
\* _initial_planner_state: settings from the config entry, nothing cleaned.
NewPlan(m, i, p) == [mode |-> m, interval |-> i, priority |-> p,
                     skip |-> Never, vacuumed |-> Never, mopped |-> Never]
Init ==
    /\ now = 1
    /\ \E m \in Modes, i \in [Room -> Intervals], p \in [Room -> Priorities] :
          mem = [plan |-> [r \in Room |-> NewPlan(m, i[r], p[r])], jobs |-> <<>>]
    /\ disk = mem
    /\ waiting = <<>> /\ saving = Nothing

Next ==
    \/ Start
    \/ JobCommand("cancel", {"pending"}) \/ JobCommand("dispatch", {"pending"})
    \/ JobCommand("accept", {"dispatching"})
    \/ \E op \in {"running", "failed", "uncertain", "completed"} :
          JobCommand(op, {"pending", "dispatching", "accepted", "running"})
    \/ JobCommand("resolve", {"uncertain"})
    \/ \E r \in Room :
          \/ Edit("skip", r, 1)
          \/ \E v \in Postpones : Edit("postpone", r, v)
          \/ \E v \in Intervals : Edit("interval", r, v)
          \/ \E v \in Priorities : Edit("priority", r, v)
    \/ Execute \/ WriteLands \/ Publish \/ SaveFails \/ Restart \/ Tick

Spec == Init /\ [][Next]_vars

-----------------------------------------------------------------------------
(* Properties.                                                             *)

\* Times of a job in the order _validate_job_lifecycle demands, each present
\* exactly in the states that need it.
JobOK(j) ==
    /\ j \in Job
    /\ j.state \in {"dispatching", "accepted", "running", "uncertain", "completed", "stuck"}
          => j.planned <= j.sent
    /\ j.state \in {"running", "completed"} => j.sent <= j.started
    /\ j.state \in Closed \cup {"stuck"} =>
          j.finished >= Later(j.planned, Later(j.sent, j.started))
    /\ j.state \notin Closed \cup {"stuck"} => j.finished = Never
Planner(S) ==
    /\ S.plan \in [Room -> Plan]
    /\ S.jobs \in Seq(Job) /\ \A i \in DOMAIN S.jobs : JobOK(S.jobs[i])

\* Type invariant: plan and jobs pass the validation of the domain model, so
\* that no command raises after it started to compute (QueueJob, RoomPlan).
TypeOK ==
    /\ now \in Nat
    /\ Planner(mem) /\ Planner(disk) /\ (saving # Nothing => Planner(saving))
    /\ waiting \in Seq(Command)

CompletedJobs(S, r) ==
    {i \in DOMAIN S.jobs : S.jobs[i].room = r /\ S.jobs[i].state = "completed"}
IsLatest(t, times) == IF times = {} THEN t = Never
                      ELSE t \in times /\ \A u \in times : u <= t
Credited(S) ==
    \A r \in Room :
        LET times == {S.jobs[i].finished : i \in CompletedJobs(S, r)}
        IN /\ IsLatest(S.plan[r].vacuumed, times)
           /\ S.plan[r].mode = "vacuum_and_mop" => IsLatest(S.plan[r].mopped, times)

\* A room's last cleaning is the latest completed job of that room in the same
\* ledger: no failed, cancelled or uncertain job is credited, and no crash or
\* failed save separates a completion from its credit (queue semantics 3 to 6).
CreditMatchesLedger == Credited(mem) /\ Credited(disk)

\* A room that was completed is not started again within a day, whatever was
\* edited, lost or asked for before the completion (due selection).
SpacedDaily(S) ==
    \A i, j \in DOMAIN S.jobs :
        /\ i < j /\ S.jobs[i].room = S.jobs[j].room
        /\ S.jobs[i].state = "completed"
        => S.jobs[j].planned >= S.jobs[i].finished + Day
CleanedAtMostDaily == SpacedDaily(mem)

\* The moment from which a room is due and does not rest.
Claims(p, clock) == Later(DueAt(p, clock), p.skip)
\* While a room that was cleaned before is due, another room of no higher
\* priority completes at most one job that start_next planned meanwhile
\* (order of the snapshot: no room is passed again and again).
PassedOver(r, q) ==
    {i \in CompletedJobs(mem, q) : mem.jobs[i].planned >= Claims(mem.plan[r], now)}
NotPassedTwice ==
    \A r, q \in Room :
        /\ r # q /\ mem.plan[r].vacuumed # Never
        /\ mem.plan[q].priority <= mem.plan[r].priority
        => Cardinality(PassedOver(r, q)) <= 1

Settings(p) == <<p.mode, p.interval, p.priority>>
Cleanings(p) == <<p.vacuumed, p.mopped>>
\* One room at most differs between the plans P and Q, and that in its
\* settings, its rest or its cleanings only.
OneAspect(P, Q) ==
    \E r \in Room :
        /\ \A q \in Room \ {r} : Q[q] = P[q]
        /\ \/ Settings(P[r]) = Settings(Q[r]) /\ P[r].skip = Q[r].skip
           \/ Settings(P[r]) = Settings(Q[r]) /\ Cleanings(P[r]) = Cleanings(Q[r])
           \/ P[r].skip = Q[r].skip /\ Cleanings(P[r]) = Cleanings(Q[r])

\* Each step changes the plan of one room at most, and of it either the
\* settings, or the rest, or the credit: concurrent edits and completions do
\* not overwrite each other, nor does a restart bring back an older plan.
EditsDoNotCollide == [][OneAspect(mem.plan, mem'.plan)]_vars

-----------------------------------------------------------------------------
(* What the user sees of it: a book in which each step is one operation.   *)

\* A run that was claimed is tried until its outcome is known.
Phase(j) ==
    CASE j.state = "pending" -> "planned"
      [] j.state \in {"dispatching", "accepted", "running", "uncertain"} -> "tried"
      [] j.state \in {"failed", "cancelled"} -> "dropped"
      [] j.state \in {"completed", "stuck"} -> j.state
RunOf(j) == [room |-> j.room, planned |-> j.planned, phase |-> Phase(j), ended |-> j.finished]
Book(S) == [plan |-> S.plan, runs |-> [i \in DOMAIN S.jobs |-> RunOf(S.jobs[i])]]

Contract == INSTANCE CleaningContract WITH clock <- now, book <- Book(mem)

\* The planner implements the contract: every step, a restart that finds an
\* unpublished command in the file included, is one operation of the user's
\* book or leaves it alone.
ImplementsContract == Contract!ContractSpec

\* At most one operation separates T from S.
OneAhead(S, T) == Book(T) = Book(S) \/ Contract!Operation(Book(S), Book(T), now)

\* The file and the save under way are one operation ahead of what is published
\* at most, whatever saves failed: a crash can bring back no more than that.
FileOneAhead == OneAhead(mem, disk) /\ (saving # Nothing => OneAhead(mem, saving))

-----------------------------------------------------------------------------
(* The inductive invariant of the proofs.                                  *)

\* Only the latest job may be open, because start_next needs a free lane.
OnlyLastOpen(S) ==
    \A i \in DOMAIN S.jobs : i < Len(S.jobs) => S.jobs[i].state \in Closed
\* A completion is no moment before all moments.
CompletionsDated(S) ==
    \A i \in DOMAIN S.jobs : S.jobs[i].state = "completed" => S.jobs[i].finished >= 1
SoundSchedule(S) ==
    /\ S \in [plan : [Room -> Plan], jobs : Seq(Job)]
    /\ Credited(S) /\ SpacedDaily(S) /\ OnlyLastOpen(S) /\ CompletionsDated(S)

\* A command that waits carries a value its field may have.
Asked(c) ==
    /\ c \in Command /\ c.at >= 1
    /\ c.op = "postpone" => c.value \in Postpones
    /\ c.op = "interval" => c.value \in Intervals
    /\ c.op = "priority" => c.value \in Priorities

\* Inductive invariant: what is published, in the file or being saved is sound,
\* and file and save are one edit or one completion away from the memory.
ScheduleInv ==
    /\ now \in Nat /\ now >= 1
    /\ SoundSchedule(mem)
    /\ SoundSchedule(disk) /\ OneAspect(mem.plan, disk.plan)
    /\ saving # Nothing => SoundSchedule(saving) /\ OneAspect(mem.plan, saving.plan)
    /\ waiting \in Seq(Command) /\ \A i \in DOMAIN waiting : Asked(waiting[i])

-----------------------------------------------------------------------------
(* Why no command raises and no room is overtaken twice: the commands that *)
(* wait were asked for in the order of time, and their order is bound to   *)
(* what the jobs are.                                                      *)

Has(S, states) == \E i \in DOMAIN S.jobs : S.jobs[i].state \in states
Busy == {"dispatching", "accepted", "running"}
Waits(queue, op) == \E k \in DOMAIN queue : queue[k].op = op
Behind(queue, first, second) ==
    \E i, k \in DOMAIN queue : i < k /\ queue[i].op = first /\ queue[k].op = second

Sorted(queue, clock) ==
    /\ \A i, k \in DOMAIN queue : i < k => queue[i].at <= queue[k].at
    /\ \A k \in DOMAIN queue : queue[k].at <= clock

\* Nothing in S lies in the future; a job that was not claimed has no times.
Past(S, clock) ==
    \A i \in DOMAIN S.jobs :
        LET j == S.jobs[i]
        IN /\ j.planned <= clock /\ j.sent <= clock /\ j.started <= clock
           /\ j.state = "pending" => j.sent = Never /\ j.started = Never

\* What waits was asked for after the jobs of S were planned and started, and
\* a resolution after the job it resolves was sent.
AskedLater(S, queue) ==
    \A i \in DOMAIN S.jobs, k \in DOMAIN queue :
        LET j == S.jobs[i]
        IN /\ j.planned <= queue[k].at /\ j.started <= queue[k].at
           /\ j.state = "uncertain" /\ queue[k].op = "resolve" => j.sent <= queue[k].at

\* A claim and the resolution of an older job never wait in an order in which
\* both would act, the resolution on a job that was sent after it was asked for.
InTurn(S, queue) ==
    /\ Has(S, Busy) => ~Waits(queue, "resolve")
    /\ Has(S, {"uncertain"}) => ~Behind(queue, "resolve", "dispatch")
    /\ ~Has(S, Busy \cup {"uncertain", "stuck"}) => ~Behind(queue, "dispatch", "resolve")

\* The save T in flight is one move of the lane ahead of S at most.
NextInTurn(S, T, queue) ==
    /\ Has(S, {"pending"}) => ~Has(T, {"uncertain"})
    /\ Has(S, {"uncertain"}) =>
         ~Has(T, Busy) /\ (Has(T, {"uncertain"}) \/ ~Waits(queue, "dispatch"))

\* Inductive invariant behind TypeOK.
TurnInv ==
    /\ TypeOK /\ Sorted(waiting, now)
    /\ Past(mem, now) /\ Past(disk, now) /\ AskedLater(mem, waiting) /\ InTurn(mem, waiting)
    /\ saving # Nothing => /\ Past(saving, now) /\ AskedLater(saving, waiting)
                           /\ InTurn(saving, waiting) /\ NextInTurn(mem, saving, waiting)

\* Of two jobs of q, planned at "from" or later, the second was planned before
\* room r claims its turn, or the first, if it is completed; r was cleaned before
\* and has no lower priority.
OvertakesOnce(S, clock, r, q, from) ==
    LET due == Claims(S.plan[r], clock)
    IN /\ r # q /\ S.plan[r].vacuumed # Never
       /\ S.plan[q].priority <= S.plan[r].priority
       => \A i, k \in DOMAIN S.jobs :
            /\ i < k /\ S.jobs[i].room = q /\ S.jobs[k].room = q
            /\ S.jobs[i].state = "completed" /\ S.jobs[i].planned >= from
            /\ S.jobs[k].planned >= due
            => S.jobs[i].planned < due
OvertakenOnce(S, clock) == \A r, q \in Room : OvertakesOnce(S, clock, r, q, 0)

\* Inductive invariant behind NotPassedTwice, as long as no setting is edited.
OrderInv ==
    /\ OvertakenOnce(mem, now) /\ OvertakenOnce(disk, now)
    /\ saving # Nothing => OvertakenOnce(saving, now)
=============================================================================
