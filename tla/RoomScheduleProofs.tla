------------------------- MODULE RoomScheduleProofs -------------------------
(***************************************************************************)
(* Theorems about RoomSchedule, for every value of its constants.          *)
(***************************************************************************)
EXTENDS RoomSchedule, FiniteSetTheorems, SequenceTheorems, WellFoundedInduction, TLAPS

-----------------------------------------------------------------------------
(* The order of the snapshot has a first room.                             *)

\* An interval lasts a day at least.
LEMMA IntervalLength ==
    ASSUME NEW i \in Nat \ {0}
    PROVE  i * Day \in Nat /\ i * Day >= Day
<1>1. Day \in Nat /\ Day >= 1 BY DayAssumption
<1>2. i \in Nat /\ i >= 1 OBVIOUS
<1> QED BY <1>1, <1>2

\* A room is due at a moment, and a cleaned one a day after it was cleaned.
LEMMA DueAtIsMoment ==
    ASSUME NEW p \in Plan, NEW at \in Nat
    PROVE  /\ DueAt(p, at) \in Nat
           /\ p.mode = "vacuum" /\ Later(p.vacuumed, p.mopped) # Never
                => DueAt(p, at) >= Later(p.vacuumed, p.mopped) + Day
           /\ p.mode # "vacuum" /\ p.mopped # Never => DueAt(p, at) >= p.mopped + Day
<1>1. p.interval \in Nat \ {0} /\ p.vacuumed \in Nat /\ p.mopped \in Nat /\ Day \in Nat
  BY IntervalsAssumption, DayAssumption DEF Plan
<1> DEFINE length == p.interval * Day
<1>2. length \in Nat /\ length >= Day BY <1>1, IntervalLength
<1>3. Later(p.vacuumed, p.mopped) \in Nat BY <1>1 DEF Later
<1>4. DueAt(p, at) =
        LET last == IF p.mode = "vacuum" THEN Later(p.vacuumed, p.mopped) ELSE p.mopped
        IN IF last = Never THEN at ELSE last + length
  BY DEF DueAt
<1> HIDE DEF length
<1> QED BY <1>1, <1>2, <1>3, <1>4 DEF Never

\* Precedes is a strict order: no room precedes itself, two rooms are ordered.
LEMMA PrecedesIsOrder ==
    ASSUME NEW plan \in [Room -> Plan], NEW at \in Nat
    PROVE  /\ \A r, q, s \in Room :
                Precedes(plan, at, r, q) /\ Precedes(plan, at, q, s)
                => Precedes(plan, at, r, s)
           /\ \A r \in Room : ~Precedes(plan, at, r, r)
           /\ \A r, q \in Room :
                r # q => Precedes(plan, at, r, q) \/ Precedes(plan, at, q, r)
<1> DEFINE due(r) == DueAt(plan[r], at)
<1>1. \A r \in Room : r \in Nat /\ due(r) \in Nat /\ plan[r].priority \in Nat
  BY RoomAssumption, PrioritiesAssumption, DueAtIsMoment DEF Plan
<1>2. \A r, q \in Room : Precedes(plan, at, r, q) <=>
        \/ plan[r].priority > plan[q].priority
        \/ /\ plan[r].priority = plan[q].priority
           /\ due(r) < due(q) \/ (due(r) = due(q) /\ r < q)
  BY DEF Precedes
<1> HIDE DEF due
<1> QED BY <1>1, <1>2

\* Of rooms that are due one comes first: the choice of start_next is never void.
LEMMA FirstExists ==
    ASSUME NEW plan \in [Room -> Plan], NEW at \in Nat, Candidates(plan, at) # {}
    PROVE  \E r \in Room : IsFirst(plan, at, r)
<1> DEFINE C == Candidates(plan, at)
           before(r) == {q \in C : Precedes(plan, at, q, r)}
           N == {Cardinality(before(r)) : r \in C}
<1>1. C \subseteq Room BY DEF Candidates
<1>2. \A r \in C : IsFiniteSet(before(r))
  BY <1>1, RoomAssumption, FS_Subset
<1>3. \A r \in C : Cardinality(before(r)) \in Nat BY <1>2, FS_CardinalityType
<1>4. PICK n \in N : \A m \in N : ~(<<m, n>> \in OpToRel(<, Nat))
  <2>1. N \subseteq Nat /\ N # {} BY <1>3
  <2> QED BY <2>1, NatLessThanWellFounded, WFMin
<1>5. PICK r \in C : n = Cardinality(before(r)) BY <1>4
<1>6. \A q \in C : ~(Cardinality(before(q)) < Cardinality(before(r)))
  <2>1. \A m \in N : m \in Nat => ~(m < n)
    BY <1>3, <1>4, <1>5 DEF OpToRel
  <2> QED BY <1>3, <1>5, <2>1
<1>7. \A q \in C : ~Precedes(plan, at, q, r)
  <2> SUFFICES ASSUME NEW q \in C, Precedes(plan, at, q, r) PROVE FALSE OBVIOUS
  <2>1. before(q) \subseteq before(r) BY <1>1, PrecedesIsOrder
  <2>2. q \in before(r) /\ q \notin before(q) BY <1>1, PrecedesIsOrder
  <2>3. Cardinality(before(q)) <= Cardinality(before(r))
        /\ Cardinality(before(q)) # Cardinality(before(r))
    BY <1>2, <2>1, <2>2, FS_Subset
  <2> QED BY <1>3, <1>6, <2>3
<1>8. \A q \in C \ {r} : Precedes(plan, at, r, q) BY <1>1, <1>7, PrecedesIsOrder
<1> QED BY <1>1, <1>8 DEF IsFirst

-----------------------------------------------------------------------------
(* Commands that move jobs and credit nothing.                             *)

Sched == [plan : [Room -> Plan], jobs : Seq(Job)]

\* Job k is job j later on: a closed job never changes, and none is completed.
Moves(j, k) ==
    /\ k \in Job /\ k.room = j.room /\ k.planned = j.planned
    /\ j.state \in Closed \/ k.state = "completed" => k = j

\* The jobs of T are those of S later on, the plan is the same.
JobsMove(S, T) ==
    /\ T \in Sched /\ T.plan = S.plan /\ DOMAIN T.jobs = DOMAIN S.jobs
    /\ Len(T.jobs) = Len(S.jobs)
    /\ \A i \in DOMAIN S.jobs : Moves(S.jobs[i], T.jobs[i])

\* Jobs are numbered from 1.
LEMMA JobsAreJobs ==
    ASSUME NEW jobs \in Seq(Job)
    PROVE  /\ DOMAIN jobs = 1..Len(jobs) /\ Len(jobs) \in Nat
           /\ \A i \in DOMAIN jobs : jobs[i] \in Job
BY LenProperties, ElementOfSeq

\* Moving each job on its own moves the schedule.
LEMMA PointwiseMoves ==
    ASSUME NEW S \in Sched, NEW f, f = [i \in DOMAIN S.jobs |-> f[i]],
           \A i \in DOMAIN S.jobs : Moves(S.jobs[i], f[i])
    PROVE  JobsMove(S, [S EXCEPT !.jobs = f])
<1> DEFINE T == [S EXCEPT !.jobs = f]
<1>1. S.jobs \in Seq(Job) /\ S.plan \in [Room -> Plan] BY DEF Sched
<1>2. DOMAIN S.jobs = 1..Len(S.jobs) /\ Len(S.jobs) \in Nat BY <1>1, JobsAreJobs
<1>3. \A i \in 1..Len(S.jobs) : f[i] \in Job BY <1>2 DEF Moves
<1>4. f = [i \in 1..Len(S.jobs) |-> f[i]] BY <1>2
<1>5. f \in [1..Len(S.jobs) -> Job] BY <1>3, <1>4
<1>6. f \in Seq(Job) /\ Len(f) = Len(S.jobs) BY <1>2, <1>5
<1>7. T.jobs = f /\ T.plan = S.plan /\ T \in Sched BY <1>1, <1>6 DEF Sched
<1> QED BY <1>1, <1>2, <1>4, <1>6, <1>7 DEF JobsMove

\* Jobs that move on leave credits, distances and the single open job alone.
LEMMA JobsMoveKeepSound ==
    ASSUME NEW S, NEW T, SoundSchedule(S), JobsMove(S, T)
    PROVE  SoundSchedule(T)
<1>1. S \in Sched /\ T \in Sched /\ T.plan = S.plan /\ DOMAIN T.jobs = DOMAIN S.jobs
  BY DEF SoundSchedule, JobsMove, Sched
<1>2. \A i \in DOMAIN S.jobs :
        /\ T.jobs[i].room = S.jobs[i].room /\ T.jobs[i].planned = S.jobs[i].planned
        /\ T.jobs[i].state = "completed" <=> S.jobs[i].state = "completed"
        /\ S.jobs[i].state \in Closed => T.jobs[i] = S.jobs[i]
  BY DEF JobsMove, Moves, Closed
<1>3. Credited(T)
  <2>1. \A r \in Room : CompletedJobs(T, r) = CompletedJobs(S, r)
    BY <1>1, <1>2 DEF CompletedJobs
  <2>2. \A r \in Room : \A i \in CompletedJobs(S, r) : T.jobs[i] = S.jobs[i]
    BY <1>2 DEF CompletedJobs, Closed
  <2>3. \A r \in Room : {T.jobs[i].finished : i \in CompletedJobs(T, r)}
                        = {S.jobs[i].finished : i \in CompletedJobs(S, r)}
    BY <2>1, <2>2
  <2> QED BY <1>1, <2>3 DEF Credited, SoundSchedule
<1>4. SpacedDaily(T)
  BY <1>1, <1>2 DEF SpacedDaily, SoundSchedule, Closed
<1>5. OnlyLastOpen(T) /\ CompletionsDated(T)
  BY <1>1, <1>2 DEF OnlyLastOpen, CompletionsDated, SoundSchedule, Closed, JobsMove
<1> QED BY <1>1, <1>3, <1>4, <1>5 DEF SoundSchedule, Sched

\* Recovery, cancellation, the claim, its acceptance, every report but a
\* completion, and the resolution only move jobs.
LEMMA CommandsMoveJobs ==
    ASSUME NEW S \in Sched, NEW at \in Nat, NEW clock \in Nat
    PROVE  /\ JobsMove(S, CancelBlock(S, at)) /\ JobsMove(S, Dispatch(S, clock))
           /\ JobsMove(S, Accept(S)) /\ JobsMove(S, ReportRunning(S, at))
           /\ JobsMove(S, ReportFailed(S, at)) /\ JobsMove(S, ReportUncertain(S, at))
           /\ \A o \in {"failed", "stuck"} : JobsMove(S, ResolveUncertainRun(S, at, o))
           /\ JobsMove(S, Recover(S))
<1>0. \A i \in DOMAIN S.jobs : S.jobs[i] \in Job BY JobsAreJobs DEF Sched
<1> USE DEF Moves, Job, State, Closed, Replace
<1>1. JobsMove(S, CancelBlock(S, at))
  BY <1>0, PointwiseMoves DEF CancelBlock
<1>2. JobsMove(S, Dispatch(S, clock)) BY <1>0, PointwiseMoves DEF Dispatch
<1>3. JobsMove(S, Accept(S)) BY <1>0, PointwiseMoves DEF Accept
<1>4. JobsMove(S, ReportRunning(S, at)) BY <1>0, PointwiseMoves DEF ReportRunning, Sent
<1>5. JobsMove(S, ReportFailed(S, at)) BY <1>0, PointwiseMoves DEF ReportFailed, Sent, Runs
<1>6. JobsMove(S, ReportUncertain(S, at)) BY <1>0, PointwiseMoves DEF ReportUncertain, Sent
<1>7. ASSUME NEW o \in {"failed", "stuck"} PROVE JobsMove(S, ResolveUncertainRun(S, at, o))
  BY <1>0, PointwiseMoves DEF ResolveUncertainRun
<1>8. JobsMove(S, Recover(S)) BY <1>0, PointwiseMoves DEF Recover
<1> QED BY <1>1, <1>2, <1>3, <1>4, <1>5, <1>6, <1>7, <1>8

-----------------------------------------------------------------------------
(* Edits, new jobs and completions.                                        *)

\* An edit of settings or rest leaves modes, cleanings and jobs alone.
LEMMA EditKeepsSound ==
    ASSUME NEW S, NEW r \in Room, NEW p \in Plan, SoundSchedule(S),
           p.mode = S.plan[r].mode, Cleanings(p) = Cleanings(S.plan[r])
    PROVE  SoundSchedule([S EXCEPT !.plan[r] = p])
<1> DEFINE T == [S EXCEPT !.plan[r] = p]
<1>1. S \in Sched BY DEF SoundSchedule, Sched
<1>2. T \in Sched /\ T.jobs = S.jobs BY <1>1 DEF Sched
<1>3. \A q \in Room : /\ T.plan[q].mode = S.plan[q].mode
                      /\ T.plan[q].vacuumed = S.plan[q].vacuumed
                      /\ T.plan[q].mopped = S.plan[q].mopped
  BY <1>1 DEF Sched, Cleanings
<1> HIDE DEF T
<1>4. Credited(T)
  <2>1. \A q \in Room : CompletedJobs(T, q) = CompletedJobs(S, q)
    BY <1>2 DEF CompletedJobs
  <2>2. \A q \in Room : {T.jobs[i].finished : i \in CompletedJobs(T, q)}
                        = {S.jobs[i].finished : i \in CompletedJobs(S, q)}
    BY <1>2, <2>1
  <2>3. Credited(S) BY DEF SoundSchedule
  <2> QED BY <1>3, <2>2, <2>3 DEF Credited
<1>5. SpacedDaily(T) /\ OnlyLastOpen(T) /\ CompletionsDated(T)
  BY <1>2 DEF SpacedDaily, OnlyLastOpen, CompletionsDated, SoundSchedule
<1> QED BY <1>2, <1>4, <1>5 DEF SoundSchedule, Sched, T

\* A room is due a day after each of its completions at least.
LEMMA DueAfterCompletion ==
    ASSUME NEW S, SoundSchedule(S), NEW at \in Nat, NEW r \in Room,
           NEW i \in CompletedJobs(S, r)
    PROVE  DueAt(S.plan[r], at) >= S.jobs[i].finished + Day
<1>1. S.plan[r] \in Plan /\ S.jobs \in Seq(Job) /\ i \in DOMAIN S.jobs
  BY DEF SoundSchedule, CompletedJobs
<1> DEFINE p == S.plan[r]
           times == {S.jobs[k].finished : k \in CompletedJobs(S, r)}
           t == S.jobs[i].finished
<1>2. t \in Nat /\ t >= 1 /\ times # {} /\ t \in times
  <2>1. S.jobs[i] \in Job /\ S.jobs[i].state = "completed"
    BY <1>1, JobsAreJobs DEF CompletedJobs
  <2>2. t \in Nat BY <2>1 DEF Job
  <2>3. t >= 1 BY <1>1, <2>1 DEF SoundSchedule, CompletionsDated
  <2> QED BY <2>2, <2>3
<1>3. /\ p.vacuumed \in times /\ p.vacuumed >= t
      /\ p.mode = "vacuum_and_mop" => p.mopped \in times /\ p.mopped >= t
  BY <1>1, <1>2 DEF SoundSchedule, Credited, IsLatest
<1>5. p \in Plan /\ p.mode \in {"vacuum", "vacuum_and_mop"} /\ p.vacuumed \in Nat
      /\ p.mopped \in Nat /\ Day \in Nat
  BY <1>1, ModesAssumption, DayAssumption DEF Plan
<1> HIDE DEF p, times, t
<1>6. CASE p.mode = "vacuum"
  <2>1. Later(p.vacuumed, p.mopped) >= t /\ Later(p.vacuumed, p.mopped) \in Nat
    BY <1>2, <1>3, <1>5 DEF Later
  <2>2. DueAt(p, at) >= Later(p.vacuumed, p.mopped) + Day
    BY <1>2, <1>5, <1>6, <2>1, DueAtIsMoment DEF Never
  <2>3. DueAt(p, at) \in Nat BY <1>5, DueAtIsMoment
  <2> QED BY <1>2, <1>5, <2>1, <2>2, <2>3 DEF p, t
<1>7. CASE p.mode = "vacuum_and_mop"
  <2>1. DueAt(p, at) >= p.mopped + Day /\ DueAt(p, at) \in Nat
    BY <1>2, <1>3, <1>5, <1>7, DueAtIsMoment DEF Never
  <2> QED BY <1>2, <1>3, <1>5, <1>7, <2>1 DEF p, t
<1> QED BY <1>5, <1>6, <1>7

\* A room that is due was completed a day ago at least.
LEMMA DueIsSpaced ==
    ASSUME NEW S, SoundSchedule(S), NEW at \in Nat, NEW r \in Candidates(S.plan, at),
           NEW i \in CompletedJobs(S, r)
    PROVE  at >= S.jobs[i].finished + Day
<1>1. r \in Room /\ DueAt(S.plan[r], at) <= at /\ S.plan[r] \in Plan
  BY DEF Candidates, Candidate, SoundSchedule
<1>2. DueAt(S.plan[r], at) >= S.jobs[i].finished + Day BY <1>1, DueAfterCompletion
<1>3. DueAt(S.plan[r], at) \in Nat BY <1>1, DueAtIsMoment
<1>4. S.jobs[i].finished \in Nat
  <2>1. S.jobs[i] \in Job BY JobsAreJobs DEF CompletedJobs, SoundSchedule
  <2> QED BY <2>1 DEF Job
<1> QED BY <1>1, <1>2, <1>3, <1>4, DayAssumption

\* The job start_next adds is one that may be added now.
LEMMA StartKeepsSound ==
    ASSUME NEW S, SoundSchedule(S), NEW at \in Nat
    PROVE  SoundSchedule(StartNext(S, at)) /\ StartNext(S, at).plan = S.plan
<1>1. CASE ~(LaneIsFree(S.jobs) /\ Candidates(S.plan, at) # {})
  BY <1>1 DEF StartNext
<1>2. CASE LaneIsFree(S.jobs) /\ Candidates(S.plan, at) # {}
  <2>0. S \in Sched /\ S.plan \in [Room -> Plan] /\ S.jobs \in Seq(Job)
    BY DEF SoundSchedule, Sched
  <2> DEFINE r == CHOOSE q \in Room : IsFirst(S.plan, at, q)
             j == NewJob(r, at)
             T == [S EXCEPT !.jobs = Append(@, j)]
             n == Len(S.jobs)
  <2>1. r \in Room /\ r \in Candidates(S.plan, at)
    BY <1>2, <2>0, FirstExists DEF IsFirst
  <2> HIDE DEF r
  <2>2. j \in Job /\ j.room = r /\ j.planned = at /\ j.state = "pending"
    BY <2>1 DEF NewJob, Job, State, Never
  <2>3. DOMAIN S.jobs = 1..n /\ n \in Nat BY <2>0, JobsAreJobs
  <2> HIDE DEF j
  <2>4. /\ Append(S.jobs, j) \in Seq(Job) /\ Len(Append(S.jobs, j)) = n + 1
        /\ \A i \in 1..n : Append(S.jobs, j)[i] = S.jobs[i]
        /\ Append(S.jobs, j)[n + 1] = j
    BY <2>0, <2>2, AppendProperties
  <2>5. /\ T.plan = S.plan /\ T \in Sched /\ Len(T.jobs) = n + 1
        /\ T.jobs \in Seq(Job) /\ T.jobs[n + 1] = j
        /\ \A i \in 1..n : T.jobs[i] = S.jobs[i]
    BY <2>0, <2>4 DEF Sched
  <2>6. DOMAIN T.jobs = 1..(n + 1) BY <2>5, JobsAreJobs
  <2> HIDE DEF T, n
  <2>7. \A q \in Room : CompletedJobs(T, q) = CompletedJobs(S, q)
    BY <2>2, <2>3, <2>5, <2>6 DEF CompletedJobs
  <2>8. Credited(T)
    <3>1. \A q \in Room : {T.jobs[i].finished : i \in CompletedJobs(T, q)}
                          = {S.jobs[i].finished : i \in CompletedJobs(S, q)}
      BY <2>3, <2>5, <2>7 DEF CompletedJobs
    <3> QED BY <2>5, <3>1 DEF Credited, SoundSchedule
  <2>9. SpacedDaily(T)
    <3> SUFFICES ASSUME NEW i \in DOMAIN T.jobs, NEW k \in DOMAIN T.jobs, i < k,
                        T.jobs[i].room = T.jobs[k].room, T.jobs[i].state = "completed"
                 PROVE  T.jobs[k].planned >= T.jobs[i].finished + Day
      BY DEF SpacedDaily
    <3>1. i \in 1..n /\ T.jobs[i] = S.jobs[i] BY <2>3, <2>5, <2>6
    <3>2. CASE k \in 1..n
      BY <2>3, <2>5, <3>1, <3>2 DEF SoundSchedule, SpacedDaily
    <3>3. CASE k = n + 1
      <4>1. i \in CompletedJobs(S, r) BY <2>2, <2>3, <2>5, <3>1, <3>3 DEF CompletedJobs
      <4>2. at >= S.jobs[i].finished + Day BY <2>1, <4>1, DueIsSpaced
      <4> QED BY <2>2, <2>5, <3>1, <3>3, <4>2
    <3> QED BY <2>3, <2>6, <3>2, <3>3
  <2>10. OnlyLastOpen(T) BY <1>2, <2>3, <2>5, <2>6 DEF OnlyLastOpen, LaneIsFree
  <2>11. CompletionsDated(T)
    BY <2>2, <2>3, <2>5, <2>6 DEF CompletionsDated, SoundSchedule
  <2>12. StartNext(S, at) = T BY <1>2 DEF StartNext, T, j, r
  <2> QED BY <2>5, <2>8, <2>9, <2>10, <2>11, <2>12 DEF SoundSchedule, Sched
<1> QED BY <1>1, <1>2

\* The latest completion of a room stays the latest when a later one is added.
LEMMA LatestIsCredited ==
    ASSUME NEW t \in Nat, NEW at \in Nat, NEW times, \A u \in times : u \in Nat,
           IsLatest(t, times)
    PROVE  IsLatest(Later(t, at), times \cup {at})
<1>1. CASE times = {} BY <1>1 DEF IsLatest, Later, Never
<1>2. CASE times # {} BY <1>2 DEF IsLatest, Later
<1> QED BY <1>1, <1>2

\* Whether a job of room r ends with a completion reported at this moment.
Ends(S, at, r) == \E i \in DOMAIN S.jobs : Runs(S.jobs[i], at) /\ S.jobs[i].room = r

\* What a reported completion makes of jobs and plan, without the choice of a
\* credit among those of several jobs.
LEMMA CompletionEffect ==
    ASSUME NEW S \in Sched, NEW at
    PROVE  LET T == ReportCompleted(S, at)
           IN /\ T = [plan |-> T.plan, jobs |-> T.jobs]
              /\ T.jobs = [i \in DOMAIN S.jobs |->
                            IF Runs(S.jobs[i], at)
                            THEN [S.jobs[i] EXCEPT !.state = "completed", !.finished = at]
                            ELSE S.jobs[i]]
              /\ T.plan = [r \in Room |-> IF Ends(S, at, r) THEN Credit(S.plan[r], at)
                                                            ELSE S.plan[r]]
<1> DEFINE done == {i \in DOMAIN S.jobs : Runs(S.jobs[i], at)}
           CreditOf(r) == {CreditedAt(S.jobs[i], at) : i \in {k \in done : S.jobs[k].room = r}}
           R == Replace(S, LAMBDA j : Runs(j, at),
                           LAMBDA j : [j EXCEPT !.state = "completed", !.finished = at])
           P == [r \in Room |-> IF CreditOf(r) = {} THEN R.plan[r]
                                ELSE Credit(R.plan[r], CHOOSE t \in CreditOf(r) : TRUE)]
           J == [i \in DOMAIN S.jobs |->
                    IF Runs(S.jobs[i], at)
                    THEN [S.jobs[i] EXCEPT !.state = "completed", !.finished = at]
                    ELSE S.jobs[i]]
<1>1. ReportCompleted(S, at) = [R EXCEPT !.plan = P] BY DEF ReportCompleted
<1>2. R = [S EXCEPT !.jobs = J] BY DEF Replace
<1>3. \A r \in Room : CreditOf(r) = IF Ends(S, at, r) THEN {at} ELSE {}
  BY DEF CreditedAt, Ends
<1> HIDE DEF CreditOf, J, R
<1>4. R.plan = S.plan /\ R.jobs = J /\ R = [plan |-> S.plan, jobs |-> J]
  BY <1>2 DEF Sched
<1>5. P = [r \in Room |-> IF Ends(S, at, r) THEN Credit(S.plan[r], at) ELSE S.plan[r]]
  <2>1. ASSUME NEW r \in Room
        PROVE  P[r] = IF Ends(S, at, r) THEN Credit(S.plan[r], at) ELSE S.plan[r]
    <3>1. CASE Ends(S, at, r)
      <4>1. CreditOf(r) = {at} BY <1>3, <3>1
      <4>2. (CHOOSE t \in CreditOf(r) : TRUE) = at BY <4>1
      <4> QED BY <1>4, <3>1, <4>1, <4>2
    <3>2. CASE ~Ends(S, at, r) BY <1>3, <1>4, <3>2
    <3> QED BY <3>1, <3>2
  <2> QED BY <2>1
<1> HIDE DEF P
<1> QED BY <1>1, <1>4, <1>5 DEF J

\* A completion is credited to its room: it becomes the latest one there.
LEMMA CompletionIsCredited ==
    ASSUME NEW S, SoundSchedule(S), NEW at \in Nat, NEW T, T = ReportCompleted(S, at),
           NEW r \in Room,
           NEW before, before = {S.jobs[i].finished : i \in CompletedJobs(S, r)},
           NEW after, after = {T.jobs[i].finished : i \in CompletedJobs(T, r)}
    PROVE  /\ IsLatest(T.plan[r].vacuumed, after)
           /\ T.plan[r].mode = "vacuum_and_mop" => IsLatest(T.plan[r].mopped, after)
<1>1. S \in Sched /\ S.plan[r] \in Plan /\ S.jobs \in Seq(Job)
  BY DEF SoundSchedule, Sched
<1>2. \A i \in DOMAIN S.jobs : S.jobs[i] \in Job BY <1>1, JobsAreJobs
<1>3. /\ IsLatest(S.plan[r].vacuumed, before)
      /\ S.plan[r].mode = "vacuum_and_mop" => IsLatest(S.plan[r].mopped, before)
  BY DEF SoundSchedule, Credited
<1>4. \A u \in before : u \in Nat BY <1>2 DEF CompletedJobs, Job
<1>5. S.plan[r].vacuumed \in Nat /\ S.plan[r].mopped \in Nat BY <1>1 DEF Plan
<1>6. /\ DOMAIN T.jobs = DOMAIN S.jobs
      /\ \A i \in DOMAIN S.jobs :
            T.jobs[i] = IF Runs(S.jobs[i], at)
                        THEN [S.jobs[i] EXCEPT !.state = "completed", !.finished = at]
                        ELSE S.jobs[i]
      /\ T.plan[r] = IF Ends(S, at, r) THEN Credit(S.plan[r], at) ELSE S.plan[r]
  <2>1. /\ T.jobs = [i \in DOMAIN S.jobs |->
                       IF Runs(S.jobs[i], at)
                       THEN [S.jobs[i] EXCEPT !.state = "completed", !.finished = at]
                       ELSE S.jobs[i]]
        /\ T.plan = [q \in Room |-> IF Ends(S, at, q) THEN Credit(S.plan[q], at)
                                                      ELSE S.plan[q]]
    BY <1>1, CompletionEffect
  <2> QED BY <2>1
<1>7. \A i \in DOMAIN S.jobs :
        IF Runs(S.jobs[i], at)
        THEN /\ T.jobs[i].state = "completed" /\ T.jobs[i].finished = at
             /\ T.jobs[i].room = S.jobs[i].room /\ S.jobs[i].state # "completed"
        ELSE T.jobs[i] = S.jobs[i]
  BY <1>2, <1>6 DEF Job, Runs
<1>8. CASE Ends(S, at, r)
  <2>0. PICK k \in DOMAIN S.jobs : Runs(S.jobs[k], at) /\ S.jobs[k].room = r
    BY <1>8 DEF Ends
  <2>1. after = before \cup {at}
    <3>1. \A i \in CompletedJobs(S, r) :
            i \in CompletedJobs(T, r) /\ T.jobs[i].finished = S.jobs[i].finished
      BY <1>6, <1>7 DEF CompletedJobs
    <3>2. k \in CompletedJobs(T, r) /\ T.jobs[k].finished = at
      BY <1>6, <1>7, <2>0 DEF CompletedJobs
    <3>3. \A i \in CompletedJobs(T, r) :
            \/ T.jobs[i].finished = at
            \/ i \in CompletedJobs(S, r) /\ T.jobs[i].finished = S.jobs[i].finished
      BY <1>6, <1>7 DEF CompletedJobs
    <3> QED BY <3>1, <3>2, <3>3
  <2>2. /\ T.plan[r].vacuumed = Later(S.plan[r].vacuumed, at)
        /\ T.plan[r].mode = S.plan[r].mode
        /\ T.plan[r].mode = "vacuum_and_mop"
              => T.plan[r].mopped = Later(S.plan[r].mopped, at)
    BY <1>1, <1>6, <1>8 DEF Credit, Plan
  <2> QED BY <1>3, <1>4, <1>5, <2>1, <2>2, LatestIsCredited
<1>9. CASE ~Ends(S, at, r)
  <2>1. after = before
    <3>1. CompletedJobs(T, r) = CompletedJobs(S, r)
      BY <1>6, <1>7, <1>9 DEF CompletedJobs, Ends
    <3>2. \A i \in CompletedJobs(S, r) : T.jobs[i] = S.jobs[i]
      BY <1>7, <1>9 DEF CompletedJobs, Ends
    <3> QED BY <3>1, <3>2
  <2> QED BY <1>3, <1>6, <1>9, <2>1
<1> QED BY <1>8, <1>9

\* A completion is sound: only the latest job can end, and it is credited.
LEMMA CompletionKeepsSound ==
    ASSUME NEW S, SoundSchedule(S), NEW at \in Nat, at >= 1
    PROVE  SoundSchedule(ReportCompleted(S, at))
<1> DEFINE T == ReportCompleted(S, at)
<1>1. /\ S \in Sched /\ S.plan \in [Room -> Plan] /\ S.jobs \in Seq(Job)
      /\ DOMAIN S.jobs = 1..Len(S.jobs) /\ Len(S.jobs) \in Nat
      /\ \A i \in DOMAIN S.jobs : S.jobs[i] \in Job
  BY JobsAreJobs DEF SoundSchedule, Sched
<1>2. /\ T = [plan |-> T.plan, jobs |-> T.jobs]
      /\ T.jobs = [i \in DOMAIN S.jobs |->
                     IF Runs(S.jobs[i], at)
                     THEN [S.jobs[i] EXCEPT !.state = "completed", !.finished = at]
                     ELSE S.jobs[i]]
      /\ T.plan = [r \in Room |-> IF Ends(S, at, r) THEN Credit(S.plan[r], at)
                                                    ELSE S.plan[r]]
  BY <1>1, CompletionEffect
<1> HIDE DEF T
<1>3. \A i \in DOMAIN S.jobs :
        /\ T.jobs[i] \in Job /\ T.jobs[i].room = S.jobs[i].room
        /\ T.jobs[i].planned = S.jobs[i].planned
        /\ IF Runs(S.jobs[i], at)
           THEN /\ T.jobs[i].state = "completed" /\ T.jobs[i].finished = at
                /\ S.jobs[i].state = "running"
           ELSE T.jobs[i] = S.jobs[i]
  <2> SUFFICES ASSUME NEW i \in DOMAIN S.jobs
               PROVE  /\ T.jobs[i] \in Job /\ T.jobs[i].room = S.jobs[i].room
                      /\ T.jobs[i].planned = S.jobs[i].planned
                      /\ IF Runs(S.jobs[i], at)
                         THEN /\ T.jobs[i].state = "completed" /\ T.jobs[i].finished = at
                              /\ S.jobs[i].state = "running"
                         ELSE T.jobs[i] = S.jobs[i]
    OBVIOUS
  <2>1. S.jobs[i] \in Job BY <1>1
  <2>2. T.jobs[i] = IF Runs(S.jobs[i], at)
                    THEN [S.jobs[i] EXCEPT !.state = "completed", !.finished = at]
                    ELSE S.jobs[i]
    BY <1>2
  <2>3. CASE Runs(S.jobs[i], at) BY <2>1, <2>2, <2>3 DEF Job, State, Runs
  <2>4. CASE ~Runs(S.jobs[i], at) BY <2>1, <2>2, <2>4
  <2> QED BY <2>3, <2>4
<1>4. T \in Sched /\ DOMAIN T.jobs = DOMAIN S.jobs /\ Len(T.jobs) = Len(S.jobs)
  <2>1. T.jobs \in [1..Len(S.jobs) -> Job] BY <1>1, <1>2, <1>3
  <2>2. T.jobs \in Seq(Job) /\ Len(T.jobs) = Len(S.jobs) BY <1>1, <2>1
  <2>3. \A p \in Plan : Credit(p, at) \in Plan BY DEF Credit, Plan, Later
  <2>4. \A q \in Room : S.plan[q] \in Plan BY <1>1
  <2>5. \A q \in Room : T.plan[q] \in Plan BY <1>2, <2>3, <2>4
  <2>6. T.plan \in [Room -> Plan] BY <1>2, <2>5
  <2> QED BY <1>1, <1>2, <2>1, <2>2, <2>6 DEF Sched
<1>5. Credited(T) BY CompletionIsCredited DEF Credited, T
<1>6. \A i \in DOMAIN S.jobs : Runs(S.jobs[i], at) => i = Len(S.jobs)
  BY <1>1 DEF SoundSchedule, OnlyLastOpen, Runs, Closed
<1>7. SpacedDaily(T)
  BY <1>1, <1>3, <1>4, <1>6 DEF SpacedDaily, SoundSchedule
<1>8. OnlyLastOpen(T)
  BY <1>1, <1>3, <1>4, <1>6 DEF OnlyLastOpen, SoundSchedule
<1>9. CompletionsDated(T)
  BY <1>3, <1>4 DEF CompletionsDated, SoundSchedule
<1> QED BY <1>4, <1>5, <1>7, <1>8, <1>9 DEF SoundSchedule, Sched, T

-----------------------------------------------------------------------------
(* What a command changes in the plan.                                     *)

LEMMA NoAspect ==
    ASSUME NEW P
    PROVE  OneAspect(P, P)
BY RoomAssumption DEF OneAspect

\* An edit of one aspect of one room is one.
LEMMA EditIsOneAspect ==
    ASSUME NEW P \in [Room -> Plan], NEW r \in Room, NEW p,
           \/ Settings(P[r]) = Settings(p) /\ Cleanings(P[r]) = Cleanings(p)
           \/ P[r].skip = p.skip /\ Cleanings(P[r]) = Cleanings(p)
    PROVE  OneAspect(P, [P EXCEPT ![r] = p])
<1> DEFINE Q == [P EXCEPT ![r] = p]
<1>1. Q[r] = p /\ \A q \in Room \ {r} : Q[q] = P[q] OBVIOUS
<1> HIDE DEF Q
<1>2. OneAspect(P, Q) BY <1>1 DEF OneAspect
<1> QED BY <1>2 DEF Q

\* A completion credits the room of the latest job and no other.
LEMMA CompletionIsOneAspect ==
    ASSUME NEW S, SoundSchedule(S), NEW at
    PROVE  OneAspect(S.plan, ReportCompleted(S, at).plan)
<1> DEFINE Q == ReportCompleted(S, at).plan
<1>1. /\ S \in Sched /\ S.plan \in [Room -> Plan]
      /\ DOMAIN S.jobs = 1..Len(S.jobs) /\ Len(S.jobs) \in Nat
      /\ \A i \in DOMAIN S.jobs : S.jobs[i] \in Job
  BY JobsAreJobs DEF SoundSchedule, Sched
<1>2. Q = [r \in Room |-> IF Ends(S, at, r) THEN Credit(S.plan[r], at) ELSE S.plan[r]]
  BY <1>1, CompletionEffect
<1> HIDE DEF Q
<1>3. CASE \A r \in Room : ~Ends(S, at, r)
  <2>1. \A r \in Room : Q[r] = S.plan[r] BY <1>2, <1>3
  <2> QED BY <2>1, RoomAssumption DEF OneAspect, Q
<1>4. CASE \E r \in Room : Ends(S, at, r)
  <2>1. PICK r \in Room : Ends(S, at, r) BY <1>4
  <2>2. \A i \in DOMAIN S.jobs : Runs(S.jobs[i], at) => i = Len(S.jobs)
    BY <1>1 DEF SoundSchedule, OnlyLastOpen, Runs, Closed
  <2>3. \A q \in Room \ {r} : Q[q] = S.plan[q] BY <1>2, <2>1, <2>2 DEF Ends
  <2>4. Q[r] = Credit(S.plan[r], at) /\ S.plan[r] \in Plan BY <1>1, <1>2, <2>1
  <2>5. Settings(S.plan[r]) = Settings(Q[r]) /\ S.plan[r].skip = Q[r].skip
    BY <2>4 DEF Credit, Settings, Plan
  <2> QED BY <2>3, <2>5 DEF OneAspect, Q
<1> QED BY <1>3, <1>4

-----------------------------------------------------------------------------
(* Every command, and every step, keeps a sound schedule.                  *)

LEMMA EffectsKeepSound ==
    ASSUME NEW S, SoundSchedule(S), NEW c, Asked(c), now \in Nat, NEW T \in Effects(c, S)
    PROVE  SoundSchedule(T) /\ OneAspect(S.plan, T.plan)
<1>1. S \in Sched /\ S.plan \in [Room -> Plan] BY DEF SoundSchedule, Sched
<1>2. c.at \in Nat /\ c.at >= 1 BY DEF Asked, Command
<1>3. CASE JobsMove(S, T)
  BY <1>3, JobsMoveKeepSound, NoAspect DEF JobsMove
<1>4. CASE T = S BY <1>4, NoAspect
<1>5. CASE T = StartNext(S, c.at) BY <1>2, <1>5, StartKeepsSound, NoAspect
<1>6. CASE T = ReportCompleted(S, c.at)
  BY <1>2, <1>6, CompletionKeepsSound, CompletionIsOneAspect
<1>7. ASSUME NEW r \in Room, NEW p \in Plan, T = [S EXCEPT !.plan[r] = p],
             \/ /\ Settings(S.plan[r]) = Settings(p)
                /\ Cleanings(S.plan[r]) = Cleanings(p)
             \/ /\ S.plan[r].skip = p.skip /\ S.plan[r].mode = p.mode
                /\ Cleanings(S.plan[r]) = Cleanings(p)
      PROVE  SoundSchedule(T) /\ OneAspect(S.plan, T.plan)
  <2>1. p.mode = S.plan[r].mode BY <1>7 DEF Settings
  <2>2. SoundSchedule(T) BY <1>7, <2>1, EditKeepsSound
  <2>3. T.plan = [S.plan EXCEPT ![r] = p] BY <1>1, <1>7 DEF Sched
  <2> QED BY <1>1, <1>7, <2>2, <2>3, EditIsOneAspect
<1>8. ASSUME NEW until \in Nat, c.room \in Room, T = Rests(S, c.room, until)
      PROVE  SoundSchedule(T) /\ OneAspect(S.plan, T.plan)
  <2> DEFINE p == [S.plan[c.room] EXCEPT !.skip = until]
  <2>1. S.plan[c.room] \in Plan BY <1>1, <1>8
  <2>2. p \in Plan /\ Settings(S.plan[c.room]) = Settings(p)
        /\ Cleanings(S.plan[c.room]) = Cleanings(p)
    BY <2>1 DEF Plan, Settings, Cleanings
  <2>3. T = [S EXCEPT !.plan[c.room] = p] BY <1>1, <1>8 DEF Rests, Sched
  <2> QED BY <1>7, <1>8, <2>2, <2>3
<1>9. CASE c.op \in {"interval", "priority"}
  <2>1. c.room \in Room /\ S.plan[c.room] \in Plan BY <1>1, <1>9 DEF Asked, Command
  <2> DEFINE p == IF c.op = "interval" THEN [S.plan[c.room] EXCEPT !.interval = c.value]
                                       ELSE [S.plan[c.room] EXCEPT !.priority = c.value]
  <2>2. p \in Plan /\ S.plan[c.room].skip = p.skip /\ S.plan[c.room].mode = p.mode
        /\ Cleanings(S.plan[c.room]) = Cleanings(p)
    BY <1>9, <2>1 DEF Plan, Asked, Cleanings
  <2>3. T = S \/ T = [S EXCEPT !.plan[c.room] = p]
    BY <1>1, <1>9 DEF Effects, Sched
  <2> QED BY <1>4, <1>7, <2>1, <2>2, <2>3
<1>10. CASE c.op \in {"skip", "postpone"}
  <2>1. c.room \in Room /\ c.value \in Nat BY <1>10 DEF Asked, Command
  <2>2. NextMidnight(c.at) \in Nat /\ c.at + c.value * Day \in Nat
    BY <1>2, <2>1, DayAssumption DEF NextMidnight
  <2>3. \/ T = S \/ T = Rests(S, c.room, NextMidnight(c.at))
        \/ T = Rests(S, c.room, c.at + c.value * Day)
    BY <1>10 DEF Effects
  <2> QED BY <1>4, <1>8, <2>1, <2>2, <2>3
<1>11. CASE c.op \in {"start", "completed"}
  BY <1>4, <1>5, <1>6, <1>11 DEF Effects
<1>12. CASE c.op \in {"cancel", "dispatch", "accept", "running", "failed", "uncertain",
                      "resolve"}
  <2>1. T = S \/ JobsMove(S, T)
    BY <1>1, <1>2, <1>12, CommandsMoveJobs DEF Effects
  <2> QED BY <1>3, <1>4, <2>1
<1> QED BY <1>9, <1>10, <1>11, <1>12, EditsAssumption DEF Asked, Command

\* A command that is asked for waits behind the others.
LEMMA AskKeepsInv ==
    ASSUME ScheduleInv, NEW c, Asked(c), Ask(c)
    PROVE  ScheduleInv' /\ UNCHANGED mem
<1>1. c \in Command /\ waiting \in Seq(Command) BY DEF Asked, ScheduleInv
<1>2. /\ waiting' = Append(waiting, c) /\ UNCHANGED <<now, mem, disk, saving>>
  BY DEF Ask
<1>3. /\ waiting' \in Seq(Command) /\ Len(waiting') = Len(waiting) + 1
      /\ \A i \in 1..Len(waiting) : waiting'[i] = waiting[i]
      /\ waiting'[Len(waiting) + 1] = c
  BY <1>1, <1>2, AppendProperties
<1>4. /\ DOMAIN waiting = 1..Len(waiting) /\ DOMAIN waiting' = 1..Len(waiting')
      /\ Len(waiting) \in Nat
  BY <1>1, <1>3, LenProperties
<1>5. \A i \in DOMAIN waiting' : i \in DOMAIN waiting \/ i = Len(waiting) + 1
  BY <1>3, <1>4
<1>6. \A i \in DOMAIN waiting' : Asked(waiting'[i])
  BY <1>3, <1>4, <1>5 DEF ScheduleInv
<1> QED BY <1>2, <1>3, <1>6 DEF ScheduleInv

LEMMA RequestsKeepInv ==
    ASSUME ScheduleInv,
           \/ Start
           \/ \E op \in {"cancel", "dispatch", "accept", "running", "failed", "uncertain",
                         "completed", "resolve"}, states \in SUBSET State :
                JobCommand(op, states)
           \/ \E r \in Room : \/ Edit("skip", r, 1)
                              \/ \E v \in Postpones : Edit("postpone", r, v)
                              \/ \E v \in Intervals : Edit("interval", r, v)
                              \/ \E v \in Priorities : Edit("priority", r, v)
    PROVE  ScheduleInv' /\ UNCHANGED mem
<1>0. now \in Nat /\ now >= 1 BY DEF ScheduleInv
<1>1. ASSUME NEW op \in {"start", "cancel", "dispatch", "accept", "running", "failed",
                         "uncertain", "completed", "resolve"}
      PROVE  Asked([op |-> op, at |-> now])
  BY <1>0 DEF Asked, Command
<1>2. ASSUME NEW op \in Edits, NEW r \in Room, NEW v \in Nat,
             op = "postpone" => v \in Postpones,
             op = "interval" => v \in Intervals, op = "priority" => v \in Priorities
      PROVE  Asked([op |-> op, at |-> now, room |-> r, value |-> v])
  BY <1>0, <1>2 DEF Asked, Command
<1>3. CASE Start BY <1>1, <1>3, AskKeepsInv DEF Start
<1>4. CASE \E op \in {"cancel", "dispatch", "accept", "running", "failed", "uncertain",
                      "completed", "resolve"}, states \in SUBSET State :
             JobCommand(op, states)
  BY <1>1, <1>4, AskKeepsInv DEF JobCommand
<1>5. CASE \E r \in Room : \/ Edit("skip", r, 1)
                           \/ \E v \in Postpones : Edit("postpone", r, v)
                           \/ \E v \in Intervals : Edit("interval", r, v)
                           \/ \E v \in Priorities : Edit("priority", r, v)
  BY <1>2, <1>5, AskKeepsInv, PostponesAssumption, IntervalsAssumption, PrioritiesAssumption
     DEF Edit
<1> QED BY <1>3, <1>4, <1>5

\* A step keeps the invariant and changes the published plan in one aspect.
LEMMA StepKeepsInv ==
    ASSUME ScheduleInv, [Next]_vars
    PROVE  ScheduleInv' /\ OneAspect(mem.plan, mem'.plan)
<1> USE NoAspect
<1>1. CASE \/ Start \/ JobCommand("cancel", {"pending"}) \/ JobCommand("dispatch", {"pending"})
           \/ JobCommand("accept", {"dispatching"})
           \/ \E op \in {"running", "failed", "uncertain", "completed"} :
                JobCommand(op, {"pending", "dispatching", "accepted", "running"})
           \/ JobCommand("resolve", {"uncertain"})
           \/ \E r \in Room : \/ Edit("skip", r, 1)
                              \/ \E v \in Postpones : Edit("postpone", r, v)
                              \/ \E v \in Intervals : Edit("interval", r, v)
                              \/ \E v \in Priorities : Edit("priority", r, v)
  <2>1. /\ {"pending"} \in SUBSET State /\ {"dispatching"} \in SUBSET State
        /\ {"uncertain"} \in SUBSET State
        /\ {"pending", "dispatching", "accepted", "running"} \in SUBSET State
    BY DEF State
  <2>2. ScheduleInv' /\ UNCHANGED mem BY <1>1, <2>1, RequestsKeepInv
  <2> QED BY <2>2
<1>2. CASE Execute
  <2>1. /\ waiting # <<>> /\ waiting \in Seq(Command)
        /\ waiting' = Tail(waiting) /\ UNCHANGED <<now, mem, disk>>
    BY <1>2 DEF Execute, ScheduleInv
  <2>2. PICK S \in Effects(Head(waiting), mem) : saving' = IF S = mem THEN Nothing ELSE S
    BY <1>2 DEF Execute, Base
  <2>3. Asked(Head(waiting))
    <3>1. 1 \in DOMAIN waiting /\ Head(waiting) = waiting[1]
      BY <2>1, LenProperties, EmptySeq
    <3> QED BY <3>1 DEF ScheduleInv
  <2>4. SoundSchedule(S) /\ OneAspect(mem.plan, S.plan)
    BY <2>2, <2>3, EffectsKeepSound DEF ScheduleInv
  <2>5. waiting' \in Seq(Command) /\ \A i \in DOMAIN waiting' : Asked(waiting'[i])
    <3>1. /\ Tail(waiting) \in Seq(Command) /\ Len(Tail(waiting)) = Len(waiting) - 1
          /\ \A i \in 1..Len(Tail(waiting)) : Tail(waiting)[i] = waiting[i + 1]
      BY <2>1, HeadTailProperties
    <3>2. DOMAIN waiting = 1..Len(waiting) /\ Len(waiting) \in Nat
          /\ DOMAIN Tail(waiting) = 1..Len(Tail(waiting))
      BY <2>1, <3>1, LenProperties
    <3>3. \A i \in DOMAIN Tail(waiting) : i + 1 \in DOMAIN waiting BY <3>1, <3>2
    <3> QED BY <2>1, <3>1, <3>2, <3>3 DEF ScheduleInv
  <2> QED BY <2>1, <2>2, <2>4, <2>5 DEF ScheduleInv
<1>3. CASE WriteLands BY <1>3 DEF WriteLands, ScheduleInv
<1>4. CASE Publish BY <1>4 DEF Publish, ScheduleInv
<1>5. CASE SaveFails BY <1>5 DEF SaveFails, ScheduleInv
<1>6. CASE Restart
  <2>1. SoundSchedule(disk) /\ disk \in Sched BY DEF ScheduleInv, SoundSchedule, Sched
  <2>2. JobsMove(disk, Recover(disk)) BY <2>1, CommandsMoveJobs
  <2>3. SoundSchedule(Recover(disk)) /\ Recover(disk).plan = disk.plan
    BY <2>1, <2>2, JobsMoveKeepSound DEF JobsMove
  <2>4. <<>> \in Seq(Command) /\ DOMAIN <<>> = {} BY EmptySeq
  <2> QED BY <1>6, <2>3, <2>4 DEF Restart, ScheduleInv
<1>7. CASE Tick BY <1>7 DEF Tick, ScheduleInv
<1>8. CASE UNCHANGED vars BY <1>8 DEF vars, ScheduleInv
<1> QED BY <1>1, <1>2, <1>3, <1>4, <1>5, <1>6, <1>7, <1>8 DEF Next

LEMMA InitKeepsInv ==
    ASSUME Init
    PROVE  ScheduleInv
<1>1. PICK m \in Modes, i \in [Room -> Intervals], p \in [Room -> Priorities] :
        mem = [plan |-> [r \in Room |-> NewPlan(m, i[r], p[r])], jobs |-> <<>>]
  BY DEF Init
<1>2. /\ <<>> \in Seq(Job) /\ <<>> \in Seq(Command) /\ Len(<<>>) = 0 /\ DOMAIN <<>> = {}
  BY EmptySeq
<1>3. \A r \in Room : NewPlan(m, i[r], p[r]) \in Plan
  BY PrioritiesAssumption DEF NewPlan, Plan, Never
<1>4. mem \in Sched /\ mem.jobs = <<>> /\ \A r \in Room : mem.plan[r] = NewPlan(m, i[r], p[r])
  BY <1>1, <1>2, <1>3 DEF Sched
<1>5. Credited(mem)
  <2>1. \A r \in Room : {mem.jobs[k].finished : k \in CompletedJobs(mem, r)} = {}
    BY <1>2, <1>4 DEF CompletedJobs
  <2>2. ASSUME NEW r \in Room
        PROVE  mem.plan[r].vacuumed = Never /\ mem.plan[r].mopped = Never
    <3>1. mem.plan[r] = NewPlan(m, i[r], p[r]) BY <1>4
    <3> QED BY <3>1 DEF NewPlan
  <2> QED BY <2>1, <2>2 DEF Credited, IsLatest
<1>6. SpacedDaily(mem) /\ OnlyLastOpen(mem) /\ CompletionsDated(mem)
  BY <1>2, <1>4 DEF SpacedDaily, OnlyLastOpen, CompletionsDated
<1>7. SoundSchedule(mem) BY <1>4, <1>5, <1>6 DEF SoundSchedule, Sched
<1> QED BY <1>2, <1>7, NoAspect DEF Init, ScheduleInv

\* ScheduleInv is invariant for every set of rooms and edits and every clock.
THEOREM ScheduleInvariant == Spec => []ScheduleInv
<1>1. Init => ScheduleInv BY InitKeepsInv
<1>2. ScheduleInv /\ [Next]_vars => ScheduleInv' BY StepKeepsInv
<1> QED BY <1>1, <1>2, PTL DEF Spec

\* A room's last cleaning is the latest completed job of that room, in memory
\* and in the file: completion and credit are one write.
THEOREM CreditsMatch == Spec => []CreditMatchesLedger
<1>1. ScheduleInv => CreditMatchesLedger
  BY DEF ScheduleInv, SoundSchedule, CreditMatchesLedger
<1> QED BY <1>1, ScheduleInvariant, PTL

\* start_next never plans a room within a day of its last completion.
THEOREM RoomsAreSpaced == Spec => []CleanedAtMostDaily
<1>1. ScheduleInv => CleanedAtMostDaily
  BY DEF ScheduleInv, SoundSchedule, CleanedAtMostDaily
<1> QED BY <1>1, ScheduleInvariant, PTL

\* No step changes more than one aspect of one room's plan: edits do not
\* overwrite each other or a credit, and no restart brings back an older plan.
THEOREM EditsKeepApart == Spec => EditsDoNotCollide
<1>1. ScheduleInv /\ [Next]_vars => [OneAspect(mem.plan, mem'.plan)]_vars
  BY StepKeepsInv
<1> QED BY <1>1, ScheduleInvariant, PTL DEF Spec, EditsDoNotCollide
=============================================================================
