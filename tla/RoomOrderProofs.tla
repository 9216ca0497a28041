-------------------------- MODULE RoomOrderProofs --------------------------
(***************************************************************************)
(* More theorems about RoomSchedule: times are in order (TypeOK), and no   *)
(* room is overtaken twice (NotPassedTwice).                               *)
(***************************************************************************)
EXTENDS RoomScheduleProofs

-----------------------------------------------------------------------------
(* The queue of commands.                                                  *)

\* Taking the first command leaves the others in their order.
LEMMA TakeFirst ==
    ASSUME NEW queue \in Seq(Command), queue # <<>>
    PROVE  /\ 1 \in DOMAIN queue /\ Head(queue) = queue[1] /\ Tail(queue) \in Seq(Command)
           /\ \A k \in DOMAIN Tail(queue) : /\ k \in Nat /\ k >= 1 /\ k + 1 \in DOMAIN queue
                                            /\ Tail(queue)[k] = queue[k + 1]
<1>1. /\ Tail(queue) \in Seq(Command) /\ Len(Tail(queue)) = Len(queue) - 1
      /\ \A i \in 1..Len(Tail(queue)) : Tail(queue)[i] = queue[i + 1]
  BY HeadTailProperties
<1>2. DOMAIN queue = 1..Len(queue) /\ Len(queue) \in Nat
      /\ DOMAIN Tail(queue) = 1..Len(Tail(queue))
  BY <1>1, LenProperties
<1>3. 1 \in DOMAIN queue /\ Head(queue) = queue[1]
  BY LenProperties, EmptySeq
<1>4. \A k \in DOMAIN Tail(queue) : k \in Nat /\ k >= 1 /\ k + 1 \in DOMAIN queue
  BY <1>1, <1>2
<1> QED BY <1>1, <1>2, <1>3, <1>4

LEMMA TakeFirstKeeps ==
    ASSUME NEW queue \in Seq(Command), queue # <<>>, NEW clock
    PROVE  /\ Sorted(queue, clock) =>
                /\ Sorted(Tail(queue), clock) /\ Head(queue).at <= clock
                /\ \A k \in DOMAIN Tail(queue) : Head(queue).at <= Tail(queue)[k].at
           /\ \A S : AskedLater(S, queue) => AskedLater(S, Tail(queue))
           /\ \A op : ~Waits(queue, op) => ~Waits(Tail(queue), op)
           /\ \A a, b : ~Behind(queue, a, b) =>
                /\ ~Behind(Tail(queue), a, b)
                /\ Head(queue).op = a => ~Waits(Tail(queue), b)
<1> DEFINE w == Tail(queue)
<1>1. /\ 1 \in DOMAIN queue /\ Head(queue) = queue[1]
      /\ \A k \in DOMAIN w : /\ k \in Nat /\ k >= 1 /\ k + 1 \in DOMAIN queue
                             /\ w[k] = queue[k + 1]
  BY TakeFirst
<1>2. \A k \in DOMAIN w : 1 < k + 1 BY <1>1
<1>3. \A i, k \in DOMAIN w : i < k => i + 1 < k + 1 BY <1>1
<1> HIDE DEF w
<1>4. Sorted(queue, clock) => /\ Sorted(w, clock) /\ Head(queue).at <= clock
                              /\ \A k \in DOMAIN w : Head(queue).at <= w[k].at
  BY <1>1, <1>2, <1>3 DEF Sorted
<1>5. \A S : AskedLater(S, queue) => AskedLater(S, w) BY <1>1 DEF AskedLater
<1>6. \A op : ~Waits(queue, op) => ~Waits(w, op) BY <1>1 DEF Waits
<1>7. \A a, b : ~Behind(queue, a, b) =>
        ~Behind(w, a, b) /\ (Head(queue).op = a => ~Waits(w, b))
  BY <1>1, <1>2, <1>3 DEF Behind, Waits
<1> QED BY <1>4, <1>5, <1>6, <1>7 DEF w

\* A command that is asked for now comes last, and later than all others.
LEMMA AskLast ==
    ASSUME NEW queue \in Seq(Command), NEW c \in Command
    PROVE  /\ Append(queue, c) \in Seq(Command)
           /\ \A k \in DOMAIN Append(queue, c) :
                \/ /\ k \in DOMAIN queue /\ Append(queue, c)[k] = queue[k]
                \/ Append(queue, c)[k] = c /\ \A i \in DOMAIN queue : i < k
           /\ \A i, k \in DOMAIN Append(queue, c) :
                i < k => i \in DOMAIN queue /\ Append(queue, c)[i] = queue[i]
<1> DEFINE w == Append(queue, c)
<1>1. /\ w \in Seq(Command) /\ Len(w) = Len(queue) + 1
      /\ \A i \in 1..Len(queue) : w[i] = queue[i]
      /\ w[Len(queue) + 1] = c
  BY AppendProperties
<1>2. /\ DOMAIN queue = 1..Len(queue) /\ DOMAIN w = 1..Len(w) /\ Len(queue) \in Nat
  BY <1>1, LenProperties
<1> HIDE DEF w
<1>3. \A k \in DOMAIN w : \/ k \in DOMAIN queue /\ w[k] = queue[k]
                          \/ w[k] = c /\ \A i \in DOMAIN queue : i < k
  BY <1>1, <1>2
<1>4. \A i, k \in DOMAIN w : i < k => i \in DOMAIN queue /\ w[i] = queue[i]
  BY <1>1, <1>2
<1> QED BY <1>1, <1>3, <1>4 DEF w

LEMMA AskLastKeeps ==
    ASSUME NEW queue \in Seq(Command), NEW c \in Command, NEW clock, c.at = clock,
           clock \in Nat
    PROVE  /\ Sorted(queue, clock) => Sorted(Append(queue, c), clock)
           /\ \A S : AskedLater(S, queue) /\ Past(S, clock)
                     => AskedLater(S, Append(queue, c))
           /\ \A op : Waits(Append(queue, c), op) => Waits(queue, op) \/ c.op = op
           /\ \A a, b : Behind(Append(queue, c), a, b) =>
                Behind(queue, a, b) \/ (Waits(queue, a) /\ c.op = b)
<1> DEFINE w == Append(queue, c)
<1>1. /\ \A k \in DOMAIN w : \/ k \in DOMAIN queue /\ w[k] = queue[k]
                             \/ w[k] = c /\ \A i \in DOMAIN queue : i < k
      /\ \A i, k \in DOMAIN w : i < k => i \in DOMAIN queue /\ w[i] = queue[i]
  BY AskLast
<1> HIDE DEF w
<1>2. Sorted(queue, clock) => Sorted(w, clock) BY <1>1 DEF Sorted
<1>3. \A S : AskedLater(S, queue) /\ Past(S, clock) => AskedLater(S, w)
  BY <1>1 DEF AskedLater, Past
<1>4. \A op : Waits(w, op) => Waits(queue, op) \/ c.op = op BY <1>1 DEF Waits
<1>5. \A a, b : Behind(w, a, b) => Behind(queue, a, b) \/ (Waits(queue, a) /\ c.op = b)
  BY <1>1 DEF Behind, Waits
<1> QED BY <1>2, <1>3, <1>4, <1>5 DEF w

-----------------------------------------------------------------------------
(* What a command makes of the jobs.                                       *)

\* What the command c makes of the job j, at this moment of the clock.
Becomes(c, j, k, clock) ==
    \/ k = j
    \/ /\ c.op = "cancel" /\ j.state = "pending"
       /\ k = [j EXCEPT !.state = "cancelled", !.finished = c.at]
    \/ /\ c.op = "dispatch" /\ j.state = "pending"
       /\ k = [j EXCEPT !.state = "dispatching", !.sent = clock]
    \/ j.state = "dispatching" /\ k = [j EXCEPT !.state = "accepted"]
    \/ Sent(j, c.at) /\ k = [j EXCEPT !.state = "running", !.started = c.at]
    \/ /\ Sent(j, c.at) \/ Runs(j, c.at)
       /\ k = [j EXCEPT !.state = "failed", !.finished = c.at]
    \/ j.state \in Busy /\ k = [j EXCEPT !.state = "uncertain"]
    \/ Runs(j, c.at) /\ k = [j EXCEPT !.state = "completed", !.finished = c.at]
    \/ /\ c.op = "resolve" /\ j.state = "uncertain"
       /\ \E o \in {"failed", "stuck"} : k = [j EXCEPT !.state = o, !.finished = c.at]

JobsBecome(c, S, T, clock) ==
    /\ T \in Sched /\ DOMAIN T.jobs = DOMAIN S.jobs
    /\ \A i \in DOMAIN S.jobs : Becomes(c, S.jobs[i], T.jobs[i], clock)

\* A new job of a room that comes first.
JobAdded(c, S, T) ==
    /\ c.op = "start" /\ LaneIsFree(S.jobs)
    /\ \E r \in Room : /\ IsFirst(S.plan, c.at, r)
                       /\ T = [S EXCEPT !.jobs = Append(@, NewJob(r, c.at))]

LEMMA StartAdds ==
    ASSUME NEW S \in Sched, NEW c, c.op = "start", c.at \in Nat, StartNext(S, c.at) # S
    PROVE  JobAdded(c, S, StartNext(S, c.at))
<1>1. LaneIsFree(S.jobs) /\ Candidates(S.plan, c.at) # {} BY DEF StartNext
<1>2. \E r \in Room : IsFirst(S.plan, c.at, r) BY <1>1, FirstExists DEF Sched
<1> DEFINE r == CHOOSE r \in Room : IsFirst(S.plan, c.at, r)
<1>3. r \in Room /\ IsFirst(S.plan, c.at, r) BY <1>2
<1>4. StartNext(S, c.at) = [S EXCEPT !.jobs = Append(@, NewJob(r, c.at))]
  BY <1>1 DEF StartNext
<1> QED BY <1>1, <1>3, <1>4 DEF JobAdded

LEMMA EffectsOnJobs ==
    ASSUME NEW S, SoundSchedule(S), NEW c, Asked(c), now \in Nat, NEW T \in Effects(c, S)
    PROVE  JobsBecome(c, S, T, now) \/ JobAdded(c, S, T)
<1>1. /\ S \in Sched /\ S.jobs \in Seq(Job) /\ c.at \in Nat
      /\ \A i \in DOMAIN S.jobs : S.jobs[i] \in Job
  BY JobsAreJobs DEF SoundSchedule, Sched, Asked, Command
<1>2. T \in Sched BY EffectsKeepSound DEF SoundSchedule, Sched
<1>3. CASE T = S BY <1>1, <1>3 DEF JobsBecome, Becomes
<1>4. CASE c.op = "start"
  <2>1. T = S \/ (T = StartNext(S, c.at) /\ T # S) BY <1>4 DEF Effects
  <2> QED BY <1>1, <1>3, <1>4, <2>1, StartAdds
<1>5. CASE c.op \in Edits \/ c.op \in {"interval", "priority", "skip", "postpone"}
  <2>1. c.op \in {"interval", "priority", "skip", "postpone"} BY <1>5, EditsAssumption
  <2>2. T.jobs = S.jobs
    BY <1>1, <2>1 DEF Effects, Rests, Sched
  <2> QED BY <1>2, <2>2 DEF JobsBecome, Becomes
<1>6. CASE c.op = "completed"
  <2>1. CASE T = ReportCompleted(S, c.at)
    <3>1. T.jobs = [i \in DOMAIN S.jobs |->
                      IF Runs(S.jobs[i], c.at)
                      THEN [S.jobs[i] EXCEPT !.state = "completed", !.finished = c.at]
                      ELSE S.jobs[i]]
      BY <1>1, <2>1, CompletionEffect
    <3> QED BY <1>2, <3>1 DEF JobsBecome, Becomes
  <2> QED BY <1>3, <1>6, <2>1 DEF Effects
<1>7. CASE c.op \in {"cancel", "dispatch", "accept"}
  <2>1. \/ T = S \/ (c.op = "cancel" /\ T = CancelBlock(S, c.at))
        \/ (c.op = "dispatch" /\ T = Dispatch(S, now)) \/ T = Accept(S)
    BY <1>7 DEF Effects
  <2>2. CASE c.op = "cancel" /\ T = CancelBlock(S, c.at)
    BY <1>1, <1>2, <2>2 DEF JobsBecome, Becomes, CancelBlock, Replace, Sched
  <2>3. CASE c.op = "dispatch" /\ T = Dispatch(S, now)
    BY <1>1, <1>2, <2>3 DEF JobsBecome, Becomes, Dispatch, Replace, Sched
  <2>4. CASE T = Accept(S)
    BY <1>1, <1>2, <2>4 DEF JobsBecome, Becomes, Accept, Replace, Sched
  <2> QED BY <1>3, <2>1, <2>2, <2>3, <2>4
<1>8. CASE c.op \in {"running", "failed", "uncertain"}
  <2>1. \/ T = S \/ T = ReportRunning(S, c.at) \/ T = ReportFailed(S, c.at)
        \/ T = ReportUncertain(S, c.at)
    BY <1>8 DEF Effects
  <2>2. CASE T = ReportRunning(S, c.at)
    BY <1>1, <1>2, <2>2 DEF JobsBecome, Becomes, ReportRunning, Replace, Sched
  <2>3. CASE T = ReportFailed(S, c.at)
    BY <1>1, <1>2, <2>3 DEF JobsBecome, Becomes, ReportFailed, Replace, Sched
  <2>4. CASE T = ReportUncertain(S, c.at)
    BY <1>1, <1>2, <2>4 DEF JobsBecome, Becomes, ReportUncertain, Replace, Sched, Sent, Busy
  <2> QED BY <1>3, <2>1, <2>2, <2>3, <2>4
<1>9. CASE c.op = "resolve"
  <2>1. T = S \/ \E o \in {"failed", "stuck"} : T = ResolveUncertainRun(S, c.at, o)
    BY <1>9 DEF Effects
  <2>2. ASSUME NEW o \in {"failed", "stuck"}, T = ResolveUncertainRun(S, c.at, o)
        PROVE  JobsBecome(c, S, T, now)
    <3>1. T.jobs = [i \in DOMAIN S.jobs |->
                      IF S.jobs[i].state = "uncertain"
                      THEN [S.jobs[i] EXCEPT !.state = o, !.finished = c.at]
                      ELSE S.jobs[i]]
      BY <1>1, <2>2 DEF ResolveUncertainRun, Replace, Sched
    <3>2. \A i \in DOMAIN S.jobs : Becomes(c, S.jobs[i], T.jobs[i], now)
      BY <1>9, <3>1 DEF Becomes
    <3> QED BY <1>2, <3>1, <3>2 DEF JobsBecome
  <2> QED BY <1>3, <2>1, <2>2
<1> QED BY <1>4, <1>5, <1>6, <1>7, <1>8, <1>9 DEF Asked, Command

-----------------------------------------------------------------------------
(* Jobs stay valid and nothing lies in the future.                         *)

ValidJobs(S) == \A i \in DOMAIN S.jobs : JobOK(S.jobs[i])

\* A command that finds a valid job and was asked for in time leaves a valid one.
LEMMA BecomesValid ==
    ASSUME NEW c, NEW j \in Job, NEW k, NEW clock \in Nat, Becomes(c, j, k, clock),
           JobOK(j), c.at \in Nat, c.at <= clock, j.planned <= clock, j.sent <= clock,
           j.started <= clock, j.state = "pending" => j.sent = Never /\ j.started = Never,
           j.planned <= c.at, j.started <= c.at,
           j.state = "uncertain" /\ c.op = "resolve" => j.sent <= c.at
    PROVE  /\ JobOK(k) /\ k.planned <= clock /\ k.sent <= clock /\ k.started <= clock
           /\ k.state = "pending" => k.sent = Never /\ k.started = Never
           /\ k.planned = j.planned /\ k.started \in {j.started, c.at}
           /\ k.state = "uncertain" =>
                k.sent = j.sent /\ j.state \in Busy \cup {"uncertain"}
<1> USE DEF JobOK, Job, State, Closed, Later, Never, Busy
<1>0. /\ j.planned \in Nat /\ j.sent \in Nat /\ j.started \in Nat /\ j.finished \in Nat
      /\ j.state \in State /\ j.room \in Room
  OBVIOUS
<1>1. CASE k = j BY <1>1
<1>2. CASE /\ c.op = "cancel" /\ j.state = "pending"
           /\ k = [j EXCEPT !.state = "cancelled", !.finished = c.at]
  BY <1>0, <1>2
<1>3. CASE /\ c.op = "dispatch" /\ j.state = "pending"
           /\ k = [j EXCEPT !.state = "dispatching", !.sent = clock]
  <2>1. k \in Job /\ k.state = "dispatching" /\ k.sent = clock
        /\ k.room = j.room /\ k.planned = j.planned /\ k.started = j.started /\ k.finished = j.finished
    BY <1>0, <1>3
  <2> HIDE DEF Job
  <2> QED BY <1>0, <1>3, <2>1
<1>4. CASE j.state = "dispatching" /\ k = [j EXCEPT !.state = "accepted"] BY <1>0, <1>4
<1>5. CASE Sent(j, c.at) /\ k = [j EXCEPT !.state = "running", !.started = c.at]
  BY <1>0, <1>5 DEF Sent
<1>6. CASE /\ Sent(j, c.at) \/ Runs(j, c.at)
           /\ k = [j EXCEPT !.state = "failed", !.finished = c.at]
  <2>1. k \in Job /\ k.state = "failed" /\ k.finished = c.at
        /\ k.room = j.room /\ k.planned = j.planned /\ k.sent = j.sent /\ k.started = j.started
    BY <1>0, <1>6
  <2> HIDE DEF Job
  <2> QED BY <1>0, <1>6, <2>1 DEF Sent, Runs
<1>7. CASE j.state \in Busy /\ k = [j EXCEPT !.state = "uncertain"] BY <1>0, <1>7
<1>8. CASE Runs(j, c.at) /\ k = [j EXCEPT !.state = "completed", !.finished = c.at]
  <2>1. k \in Job /\ k.state = "completed" /\ k.finished = c.at
        /\ k.room = j.room /\ k.planned = j.planned /\ k.sent = j.sent /\ k.started = j.started
    BY <1>0, <1>8
  <2> HIDE DEF Job
  <2> QED BY <1>0, <1>8, <2>1 DEF Runs
<1>9. CASE /\ c.op = "resolve" /\ j.state = "uncertain"
           /\ \E o \in {"failed", "stuck"} : k = [j EXCEPT !.state = o, !.finished = c.at]
  BY <1>0, <1>9
<1> QED BY <1>1, <1>2, <1>3, <1>4, <1>5, <1>6, <1>7, <1>8, <1>9 DEF Becomes

\* How a command moves the lane on.
LEMMA BecomesInLane ==
    ASSUME NEW c, NEW j \in Job, NEW k, NEW clock, Becomes(c, j, k, clock)
    PROVE  /\ k.state = "pending" => j.state = "pending"
           /\ k.state \in Busy =>
                j.state \in Busy \/ (j.state = "pending" /\ c.op = "dispatch")
           /\ k.state = "uncertain" => j.state \in Busy \cup {"uncertain"}
           /\ j.state = "uncertain" /\ k.state # "uncertain" => c.op = "resolve"
           /\ j.state = "stuck" => k.state = "stuck"
BY DEF Becomes, Busy, Job, State, Sent, Runs

\* At most one job of a sound schedule is open.
LEMMA OneIsOpen ==
    ASSUME NEW S, SoundSchedule(S), NEW i \in DOMAIN S.jobs, NEW k \in DOMAIN S.jobs,
           S.jobs[i].state \notin Closed, S.jobs[k].state \notin Closed
    PROVE  i = k
<1>1. DOMAIN S.jobs = 1..Len(S.jobs) /\ Len(S.jobs) \in Nat
  BY JobsAreJobs DEF SoundSchedule
<1>2. OnlyLastOpen(S) BY DEF SoundSchedule
<1>3. ~(i < Len(S.jobs)) /\ ~(k < Len(S.jobs)) BY <1>2 DEF OnlyLastOpen
<1> QED BY <1>1, <1>3

LEMMA AddedJob ==
    ASSUME NEW S \in Sched, NEW c, c.at \in Nat, NEW T, JobAdded(c, S, T)
    PROVE  /\ T.plan = S.plan /\ LaneIsFree(S.jobs) /\ c.op = "start"
           /\ DOMAIN T.jobs = 1..Len(S.jobs) + 1 /\ DOMAIN S.jobs = 1..Len(S.jobs)
           /\ Len(S.jobs) \in Nat
           /\ \A i \in DOMAIN S.jobs : T.jobs[i] = S.jobs[i]
           /\ \E r \in Room : /\ IsFirst(S.plan, c.at, r)
                              /\ T.jobs[Len(S.jobs) + 1] = NewJob(r, c.at)
<1>1. PICK r \in Room : /\ IsFirst(S.plan, c.at, r)
                        /\ T = [S EXCEPT !.jobs = Append(@, NewJob(r, c.at))]
  BY DEF JobAdded
<1>2. NewJob(r, c.at) \in Job BY DEF NewJob, Job, State, Never
<1>3. S.jobs \in Seq(Job) /\ T.plan = S.plan /\ T.jobs = Append(S.jobs, NewJob(r, c.at))
  BY <1>1 DEF Sched
<1>4. /\ T.jobs \in Seq(Job) /\ Len(T.jobs) = Len(S.jobs) + 1
      /\ \A i \in 1..Len(S.jobs) : T.jobs[i] = S.jobs[i]
      /\ T.jobs[Len(S.jobs) + 1] = NewJob(r, c.at)
  BY <1>2, <1>3, AppendProperties
<1>5. DOMAIN S.jobs = 1..Len(S.jobs) /\ Len(S.jobs) \in Nat /\ DOMAIN T.jobs = 1..Len(T.jobs)
  BY <1>3, <1>4, JobsAreJobs
<1> QED BY <1>1, <1>3, <1>4, <1>5 DEF JobAdded

\* The first command of the queue, run on S, leaves valid jobs with times that
\* lie in the past and before what is still waiting.
LEMMA EffectsKeepTimes ==
    ASSUME NEW S, SoundSchedule(S), NEW queue \in Seq(Command), queue # <<>>,
           Asked(Head(queue)), now \in Nat, NEW T \in Effects(Head(queue), S),
           ValidJobs(S), Past(S, now), AskedLater(S, queue), Sorted(queue, now),
           InTurn(S, queue)
    PROVE  ValidJobs(T) /\ Past(T, now) /\ AskedLater(T, Tail(queue))
<1> DEFINE c == Head(queue)
           w == Tail(queue)
<1>1. /\ c.at \in Nat /\ c.at <= now /\ \A k \in DOMAIN w : c.at <= w[k].at
      /\ AskedLater(S, w)
  BY TakeFirstKeeps DEF Asked, Command
<1>2. \A i \in DOMAIN S.jobs :
        /\ S.jobs[i] \in Job
        /\ S.jobs[i].planned <= c.at /\ S.jobs[i].started <= c.at
        /\ S.jobs[i].state = "uncertain" /\ c.op = "resolve" => S.jobs[i].sent <= c.at
  <2>1. 1 \in DOMAIN queue /\ c = queue[1] BY TakeFirst
  <2> QED BY <2>1, JobsAreJobs DEF AskedLater, SoundSchedule
<1>3. \A k \in DOMAIN w : w[k].op = "resolve" => ~Has(S, Busy)
  BY TakeFirstKeeps DEF InTurn, Waits
<1>4. c = Head(queue) /\ Asked(c) /\ T \in Effects(c, S) OBVIOUS
<1> HIDE DEF c, w
<1>5. CASE JobsBecome(c, S, T, now)
  <2>1. ASSUME NEW i \in DOMAIN S.jobs
        PROVE  LET j == S.jobs[i]
                   k == T.jobs[i]
               IN /\ JobOK(k) /\ k.planned <= now /\ k.sent <= now /\ k.started <= now
                  /\ k.state = "pending" => k.sent = Never /\ k.started = Never
                  /\ k.planned = j.planned /\ k.started \in {j.started, c.at}
                  /\ k.state = "uncertain" =>
                       k.sent = j.sent /\ j.state \in Busy \cup {"uncertain"}
    <3>1. Becomes(c, S.jobs[i], T.jobs[i], now) BY <1>5 DEF JobsBecome
    <3>2. /\ JobOK(S.jobs[i]) /\ S.jobs[i].planned <= now /\ S.jobs[i].sent <= now
          /\ S.jobs[i].started <= now
          /\ S.jobs[i].state = "pending" => S.jobs[i].sent = Never /\ S.jobs[i].started = Never
      BY DEF ValidJobs, Past
    <3> QED BY <1>1, <1>2, <3>1, <3>2, BecomesValid
  <2>2. DOMAIN T.jobs = DOMAIN S.jobs BY <1>5 DEF JobsBecome
  <2>3. ValidJobs(T) /\ Past(T, now) BY <2>1, <2>2 DEF ValidJobs, Past
  <2>4. ASSUME NEW i \in DOMAIN T.jobs, NEW k \in DOMAIN w
        PROVE  /\ T.jobs[i].planned <= w[k].at /\ T.jobs[i].started <= w[k].at
               /\ T.jobs[i].state = "uncertain" /\ w[k].op = "resolve"
                    => T.jobs[i].sent <= w[k].at
    <3>1. T.jobs[i].planned <= w[k].at /\ T.jobs[i].started <= w[k].at
      BY <1>1, <2>1, <2>2 DEF AskedLater
    <3>2. ASSUME T.jobs[i].state = "uncertain", w[k].op = "resolve"
          PROVE  T.jobs[i].sent <= w[k].at
      <4>1. S.jobs[i].state \notin Busy BY <1>3, <2>2, <3>2 DEF Has
      <4>2. T.jobs[i].sent = S.jobs[i].sent /\ S.jobs[i].state = "uncertain"
        BY <2>1, <2>2, <3>2, <4>1
      <4> QED BY <1>1, <2>2, <3>2, <4>2 DEF AskedLater
    <3> QED BY <3>1, <3>2
  <2> QED BY <2>3, <2>4 DEF AskedLater, w
<1>6. CASE JobAdded(c, S, T)
  <2>1. S \in Sched BY DEF SoundSchedule, Sched
  <2>2. /\ DOMAIN T.jobs = 1..Len(S.jobs) + 1 /\ DOMAIN S.jobs = 1..Len(S.jobs)
        /\ Len(S.jobs) \in Nat
        /\ \A i \in DOMAIN S.jobs : T.jobs[i] = S.jobs[i]
    BY <1>1, <1>6, <2>1, AddedJob
  <2>3. PICK r \in Room : T.jobs[Len(S.jobs) + 1] = NewJob(r, c.at)
    BY <1>1, <1>6, <2>1, AddedJob
  <2> DEFINE j == NewJob(r, c.at)
  <2>4. /\ JobOK(j) /\ j.planned = c.at /\ j.sent = Never /\ j.started = Never
        /\ j.state = "pending"
    BY <1>1 DEF NewJob, JobOK, Job, State, Closed, Never
  <2>5. \A i \in DOMAIN T.jobs : T.jobs[i] = j \/ (i \in DOMAIN S.jobs /\ T.jobs[i] = S.jobs[i])
    BY <2>2, <2>3
  <2> HIDE DEF j
  <2>6. ValidJobs(T) BY <2>4, <2>5 DEF ValidJobs
  <2>7. Past(T, now) BY <1>1, <2>4, <2>5 DEF Past, Never
  <2>8. \A k \in DOMAIN w : w[k].at \in Nat
    BY TakeFirst, ElementOfSeq DEF w, Command
  <2>9. AskedLater(T, w) BY <1>1, <2>4, <2>5, <2>8 DEF AskedLater, Never
  <2> QED BY <2>6, <2>7, <2>9 DEF w
<1> QED BY <1>4, <1>5, <1>6, EffectsOnJobs

-----------------------------------------------------------------------------
(* Claims and resolutions stay in turn.                                    *)

\* A sound lane is in one state: its open job tells which.
LEMMA LaneIsOneState ==
    ASSUME NEW S, SoundSchedule(S)
    PROVE  /\ Has(S, {"pending"}) => ~Has(S, Busy \cup {"uncertain", "stuck"})
           /\ Has(S, {"uncertain"}) => ~Has(S, Busy)
<1>1. \A i, k \in DOMAIN S.jobs :
        S.jobs[i].state \notin Closed /\ S.jobs[k].state \notin Closed => i = k
  BY OneIsOpen
<1> QED BY <1>1 DEF Has, Closed, Busy

\* A command that moves jobs moves the lane.
LEMMA LaneMoves ==
    ASSUME NEW S, SoundSchedule(S), NEW c, Asked(c), now \in Nat, NEW T \in Effects(c, S)
    PROVE  /\ Has(T, Busy) => Has(S, Busy) \/ (Has(S, {"pending"}) /\ c.op = "dispatch")
           /\ Has(T, {"uncertain"}) => Has(S, Busy) \/ Has(S, {"uncertain"})
           /\ Has(S, {"uncertain"}) /\ ~Has(T, {"uncertain"}) => c.op = "resolve"
           /\ Has(S, {"stuck"}) => Has(T, {"stuck"})
<1>1. CASE JobsBecome(c, S, T, now)
  <2>1. DOMAIN T.jobs = DOMAIN S.jobs BY <1>1 DEF JobsBecome
  <2>2. \A i \in DOMAIN S.jobs :
          /\ T.jobs[i].state \in Busy => \/ S.jobs[i].state \in Busy
                                         \/ S.jobs[i].state = "pending" /\ c.op = "dispatch"
          /\ T.jobs[i].state = "uncertain" => S.jobs[i].state \in Busy \cup {"uncertain"}
          /\ S.jobs[i].state = "uncertain" /\ T.jobs[i].state # "uncertain"
               => c.op = "resolve"
          /\ S.jobs[i].state = "stuck" => T.jobs[i].state = "stuck"
    <3>1. \A i \in DOMAIN S.jobs : /\ S.jobs[i] \in Job
                                   /\ Becomes(c, S.jobs[i], T.jobs[i], now)
      BY <1>1, JobsAreJobs DEF JobsBecome, SoundSchedule
    <3> QED BY <3>1, BecomesInLane
  <2> QED BY <2>1, <2>2 DEF Has
<1>2. CASE JobAdded(c, S, T)
  <2>1. S \in Sched /\ c.at \in Nat BY DEF SoundSchedule, Sched, Asked, Command
  <2>2. PICK r \in Room : T.jobs[Len(S.jobs) + 1] = NewJob(r, c.at)
    BY <1>2, <2>1, AddedJob
  <2>3. \A i \in DOMAIN T.jobs : T.jobs[i].state \in Closed \cup {"pending"}
    BY <1>2, <2>1, <2>2, AddedJob DEF LaneIsFree, NewJob
  <2>4. \A i \in DOMAIN S.jobs : S.jobs[i].state \in Closed
    BY <1>2, <2>1, AddedJob DEF LaneIsFree
  <2> QED BY <2>3, <2>4 DEF Has, Busy, Closed
<1> QED BY <1>1, <1>2, EffectsOnJobs

LEMMA NobodyBehind ==
    ASSUME NEW queue, NEW op, ~Waits(queue, op)
    PROVE  \A a : ~Behind(queue, op, a) /\ ~Behind(queue, a, op)
BY DEF Waits, Behind

LEMMA EffectsKeepTurn ==
    ASSUME NEW S, SoundSchedule(S), NEW queue \in Seq(Command), queue # <<>>,
           Asked(Head(queue)), now \in Nat, NEW T \in Effects(Head(queue), S),
           InTurn(S, queue)
    PROVE  InTurn(S, Tail(queue)) /\ InTurn(T, Tail(queue)) /\ NextInTurn(S, T, Tail(queue))
<1> DEFINE c == Head(queue)
           w == Tail(queue)
<1>1. /\ \A op : ~Waits(queue, op) => ~Waits(w, op)
      /\ \A a, b : ~Behind(queue, a, b) =>
           ~Behind(w, a, b) /\ (c.op = a => ~Waits(w, b))
  BY TakeFirstKeeps
<1>2. /\ Has(T, Busy) => Has(S, Busy) \/ (Has(S, {"pending"}) /\ c.op = "dispatch")
      /\ Has(T, {"uncertain"}) => Has(S, Busy) \/ Has(S, {"uncertain"})
      /\ Has(S, {"uncertain"}) /\ ~Has(T, {"uncertain"}) => c.op = "resolve"
      /\ Has(S, {"stuck"}) => Has(T, {"stuck"})
  BY LaneMoves
<1>3. /\ Has(S, {"pending"}) => ~Has(S, Busy \cup {"uncertain", "stuck"})
      /\ Has(S, {"uncertain"}) => ~Has(S, Busy)
  BY LaneIsOneState
<1>4. \A L : Has(L, Busy \cup {"uncertain", "stuck"}) <=>
              Has(L, Busy) \/ Has(L, {"uncertain"}) \/ Has(L, {"stuck"})
  BY DEF Has
<1> HIDE DEF c, w
<1>5. InTurn(S, w) BY <1>1 DEF InTurn
<1>6. Has(T, Busy) => ~Waits(w, "resolve") BY <1>1, <1>2, <1>3 DEF InTurn
<1>7. Has(T, {"uncertain"}) => ~Behind(w, "resolve", "dispatch")
  BY <1>1, <1>2, NobodyBehind DEF InTurn
<1>8. ~Has(T, Busy \cup {"uncertain", "stuck"}) => ~Behind(w, "dispatch", "resolve")
  <2>1. CASE Has(S, Busy) BY <1>1, <2>1, NobodyBehind DEF InTurn
  <2>2. CASE Has(S, {"uncertain"}) BY <1>1, <1>2, <1>4, <2>2, NobodyBehind DEF InTurn
  <2>3. CASE Has(S, {"stuck"}) BY <1>2, <1>4, <2>3
  <2>4. CASE ~Has(S, Busy \cup {"uncertain", "stuck"}) BY <1>1, <2>4 DEF InTurn
  <2> QED BY <1>4, <2>1, <2>2, <2>3, <2>4
<1>9. NextInTurn(S, T, w)
  BY <1>1, <1>2, <1>3, <1>4 DEF NextInTurn, InTurn
<1> QED BY <1>5, <1>6, <1>7, <1>8, <1>9 DEF InTurn, w

-----------------------------------------------------------------------------
(* Every step keeps commands and jobs in order.                            *)

\* What is asked for now fits what is published and what is being saved.
LEMMA AskKeepsTurn ==
    ASSUME ScheduleInv, TurnInv, NEW c, Asked(c), c.at = now, Ask(c),
           c.op = "dispatch" => Has(mem, {"pending"}),
           c.op = "resolve" => Has(mem, {"uncertain"})
    PROVE  TurnInv'
<1>1. /\ waiting \in Seq(Command) /\ c \in Command /\ now \in Nat
      /\ waiting' = Append(waiting, c) /\ UNCHANGED <<now, mem, disk, saving>>
  BY DEF Ask, Asked, ScheduleInv
<1> DEFINE w == Append(waiting, c)
<1>2. /\ w \in Seq(Command) /\ Sorted(w, now)
      /\ \A S : AskedLater(S, waiting) /\ Past(S, now) => AskedLater(S, w)
      /\ \A op : Waits(w, op) => Waits(waiting, op) \/ c.op = op
      /\ \A a, b : Behind(w, a, b) => Behind(waiting, a, b) \/ (Waits(waiting, a) /\ c.op = b)
  BY <1>1, AskLast, AskLastKeeps DEF TurnInv
<1>3. /\ Has(mem, {"pending"}) => ~Has(mem, Busy \cup {"uncertain", "stuck"})
      /\ Has(mem, {"uncertain"}) => ~Has(mem, Busy)
  BY LaneIsOneState DEF ScheduleInv
<1>4. \A L : Has(L, Busy \cup {"uncertain", "stuck"}) <=>
              Has(L, Busy) \/ Has(L, {"uncertain"}) \/ Has(L, {"stuck"})
  BY DEF Has
<1> HIDE DEF w
<1>5. InTurn(mem, w)
  BY <1>2, <1>3, <1>4 DEF TurnInv, InTurn
<1>6. ASSUME saving # Nothing
      PROVE  InTurn(saving, w) /\ NextInTurn(mem, saving, w)
  <2>1. InTurn(saving, waiting) /\ NextInTurn(mem, saving, waiting) BY <1>6 DEF TurnInv
  <2>2. Has(saving, Busy) => ~Waits(w, "resolve")
    BY <1>2, <2>1 DEF InTurn, NextInTurn
  <2>3. Has(saving, {"uncertain"}) => ~Behind(w, "resolve", "dispatch")
    BY <1>2, <2>1 DEF InTurn, NextInTurn
  <2>4. ~Has(saving, Busy \cup {"uncertain", "stuck"}) => ~Behind(w, "dispatch", "resolve")
    BY <1>2, <1>4, <2>1 DEF InTurn, NextInTurn
  <2>5. NextInTurn(mem, saving, w)
    BY <1>2, <1>3, <1>4, <2>1 DEF NextInTurn
  <2> QED BY <2>2, <2>3, <2>4, <2>5 DEF InTurn
<1>7. waiting' = w BY <1>1 DEF w
<1> QED BY <1>1, <1>2, <1>5, <1>6, <1>7 DEF TurnInv, TypeOK

LEMMA RequestsKeepTurn ==
    ASSUME ScheduleInv, TurnInv,
           \/ Start \/ JobCommand("cancel", {"pending"}) \/ JobCommand("dispatch", {"pending"})
           \/ JobCommand("accept", {"dispatching"})
           \/ \E op \in {"running", "failed", "uncertain", "completed"} :
                JobCommand(op, {"pending", "dispatching", "accepted", "running"})
           \/ JobCommand("resolve", {"uncertain"})
           \/ \E r \in Room : \/ Edit("skip", r, 1)
                              \/ \E v \in Postpones : Edit("postpone", r, v)
                              \/ \E v \in Intervals : Edit("interval", r, v)
                              \/ \E v \in Priorities : Edit("priority", r, v)
    PROVE  TurnInv'
<1>0. now \in Nat /\ now >= 1 BY DEF ScheduleInv
<1>1. ASSUME NEW op \in {"start", "cancel", "dispatch", "accept", "running", "failed",
                         "uncertain", "completed", "resolve"},
             Ask([op |-> op, at |-> now]),
             op = "dispatch" => Has(mem, {"pending"}),
             op = "resolve" => Has(mem, {"uncertain"})
      PROVE  TurnInv'
  <2> DEFINE c == [op |-> op, at |-> now]
  <2>1. Asked(c) /\ c.at = now /\ c.op = op BY <1>0 DEF Asked, Command
  <2>2. Ask(c) BY <1>1
  <2> HIDE DEF c
  <2> QED BY <1>1, <2>1, <2>2, AskKeepsTurn
<1>2. ASSUME NEW op \in Edits, NEW r \in Room, NEW v \in Nat,
             op = "postpone" => v \in Postpones,
             op = "interval" => v \in Intervals, op = "priority" => v \in Priorities,
             Ask([op |-> op, at |-> now, room |-> r, value |-> v])
      PROVE  TurnInv'
  <2> DEFINE c == [op |-> op, at |-> now, room |-> r, value |-> v]
  <2>1. Asked(c) /\ c.at = now /\ c.op = op BY <1>0, <1>2 DEF Asked, Command
  <2>2. Ask(c) BY <1>2
  <2>3. c.op \notin {"dispatch", "resolve"} BY <2>1, EditsAssumption
  <2> HIDE DEF c
  <2> QED BY <2>1, <2>2, <2>3, AskKeepsTurn
<1>3. CASE Start BY <1>1, <1>3 DEF Start
<1>4. CASE \/ JobCommand("cancel", {"pending"}) \/ JobCommand("dispatch", {"pending"})
           \/ JobCommand("accept", {"dispatching"})
           \/ \E op \in {"running", "failed", "uncertain", "completed"} :
                JobCommand(op, {"pending", "dispatching", "accepted", "running"})
           \/ JobCommand("resolve", {"uncertain"})
  BY <1>1, <1>4 DEF JobCommand, Has
<1>5. CASE \E r \in Room : \/ Edit("skip", r, 1)
                           \/ \E v \in Postpones : Edit("postpone", r, v)
                           \/ \E v \in Intervals : Edit("interval", r, v)
                           \/ \E v \in Priorities : Edit("priority", r, v)
  BY <1>2, <1>5, PostponesAssumption, IntervalsAssumption, PrioritiesAssumption DEF Edit
<1> QED BY <1>3, <1>4, <1>5

\* Recovery leaves valid jobs.
LEMMA RecoverKeepsTimes ==
    ASSUME NEW S \in Sched, ValidJobs(S), now \in Nat, Past(S, now)
    PROVE  /\ ValidJobs(Recover(S)) /\ Past(Recover(S), now)
           /\ Recover(S).plan = S.plan /\ Recover(S).jobs \in Seq(Job)
<1> DEFINE c == [op |-> "start", at |-> now]
           T == Recover(S)
<1>1. \A i \in DOMAIN S.jobs : S.jobs[i] \in Job BY JobsAreJobs DEF Sched
<1>2. JobsMove(S, T) BY CommandsMoveJobs
<1>3. T.plan = S.plan /\ T.jobs \in Seq(Job) /\ DOMAIN T.jobs = DOMAIN S.jobs
  BY <1>2 DEF JobsMove, Sched
<1>4. T.jobs = [i \in DOMAIN S.jobs |->
                  IF S.jobs[i].state \in {"dispatching", "accepted", "running"}
                  THEN [S.jobs[i] EXCEPT !.state = "uncertain"] ELSE S.jobs[i]]
  BY DEF Recover, Replace, Sched
<1>5. c.at = now /\ c.op = "start" OBVIOUS
<1> HIDE DEF c, T
<1>6. ASSUME NEW i \in DOMAIN S.jobs
      PROVE  LET k == T.jobs[i]
             IN /\ JobOK(k) /\ k.planned <= now /\ k.sent <= now /\ k.started <= now
                /\ k.state = "pending" => k.sent = Never /\ k.started = Never
  <2>1. Becomes(c, S.jobs[i], T.jobs[i], now) BY <1>4 DEF Becomes, Busy
  <2>2. /\ JobOK(S.jobs[i]) /\ S.jobs[i].planned <= now /\ S.jobs[i].sent <= now
        /\ S.jobs[i].started <= now
        /\ S.jobs[i].state = "pending" => S.jobs[i].sent = Never /\ S.jobs[i].started = Never
    BY DEF ValidJobs, Past
  <2> QED BY <1>1, <1>5, <2>1, <2>2, BecomesValid
<1> QED BY <1>3, <1>6 DEF ValidJobs, Past, T

LEMMA StepKeepsTurn ==
    ASSUME ScheduleInv, TurnInv, [Next]_vars
    PROVE  TurnInv'
<1>0. /\ now \in Nat /\ waiting \in Seq(Command)
      /\ SoundSchedule(mem) /\ SoundSchedule(disk) /\ mem \in Sched /\ disk \in Sched
      /\ ValidJobs(mem) /\ ValidJobs(disk)
  BY DEF ScheduleInv, TurnInv, TypeOK, Planner, ValidJobs, SoundSchedule, Sched
<1>1. CASE \/ Start \/ JobCommand("cancel", {"pending"}) \/ JobCommand("dispatch", {"pending"})
           \/ JobCommand("accept", {"dispatching"})
           \/ \E op \in {"running", "failed", "uncertain", "completed"} :
                JobCommand(op, {"pending", "dispatching", "accepted", "running"})
           \/ JobCommand("resolve", {"uncertain"})
           \/ \E r \in Room : \/ Edit("skip", r, 1)
                              \/ \E v \in Postpones : Edit("postpone", r, v)
                              \/ \E v \in Intervals : Edit("interval", r, v)
                              \/ \E v \in Priorities : Edit("priority", r, v)
  BY <1>1, RequestsKeepTurn
<1>2. CASE Execute
  <2> DEFINE w == Tail(waiting)
  <2>1. waiting # <<>> /\ waiting' = w /\ UNCHANGED <<now, mem, disk>> BY <1>2 DEF Execute
  <2>2. PICK T \in Effects(Head(waiting), mem) : saving' = IF T = mem THEN Nothing ELSE T
    BY <1>2 DEF Execute, Base
  <2>3. Asked(Head(waiting)) BY <1>0, <2>1, TakeFirst DEF ScheduleInv
  <2>4. ValidJobs(T) /\ Past(T, now) /\ AskedLater(T, w)
    BY <1>0, <2>1, <2>2, <2>3, EffectsKeepTimes DEF TurnInv
  <2>5. InTurn(mem, w) /\ InTurn(T, w) /\ NextInTurn(mem, T, w)
    BY <1>0, <2>1, <2>2, <2>3, EffectsKeepTurn DEF TurnInv
  <2>6. AskedLater(mem, w) /\ Sorted(w, now) /\ w \in Seq(Command)
    BY <1>0, <2>1, TakeFirst, TakeFirstKeeps DEF TurnInv
  <2>7. SoundSchedule(T) BY <1>0, <2>2, <2>3, EffectsKeepSound
  <2>8. Planner(T) BY <2>4, <2>7 DEF Planner, SoundSchedule, ValidJobs
  <2> HIDE DEF w
  <2>9. CASE saving' = Nothing BY <2>1, <2>5, <2>6, <2>9 DEF TurnInv, TypeOK
  <2>10. CASE saving' = T
    BY <2>1, <2>4, <2>5, <2>6, <2>8, <2>10 DEF TurnInv, TypeOK
  <2> QED BY <2>2, <2>9, <2>10
<1>3. CASE WriteLands BY <1>3 DEF WriteLands, TurnInv, TypeOK
<1>4. CASE Publish BY <1>4 DEF Publish, TurnInv, TypeOK
<1>5. CASE SaveFails BY <1>5 DEF SaveFails, TurnInv, TypeOK
<1>6. CASE Restart
  <2> DEFINE T == Recover(disk)
  <2>1. /\ mem' = T /\ disk' = T /\ waiting' = <<>> /\ saving' = Nothing /\ now' = now
    BY <1>6 DEF Restart
  <2>2. /\ ValidJobs(T) /\ Past(T, now) /\ T.plan = disk.plan /\ T.jobs \in Seq(Job)
    BY <1>0, RecoverKeepsTimes DEF TurnInv
  <2> HIDE DEF T
  <2>3. Planner(T) BY <1>0, <2>2 DEF Planner, ValidJobs, Sched
  <2>4. <<>> \in Seq(Command) /\ DOMAIN <<>> = {} BY EmptySeq
  <2>5. /\ Sorted(<<>>, now) /\ AskedLater(T, <<>>) /\ InTurn(T, <<>>)
    BY <2>4 DEF Sorted, AskedLater, InTurn, Waits, Behind
  <2> QED BY <1>0, <2>1, <2>2, <2>3, <2>4, <2>5 DEF TurnInv, TypeOK
<1>7. CASE Tick
  <2>1. now' = now + 1 /\ UNCHANGED <<mem, disk, waiting, saving>> BY <1>7 DEF Tick
  <2>2. \A k \in DOMAIN waiting : waiting[k].at \in Nat
    BY <1>0, ElementOfSeq DEF Command
  <2>3. Sorted(waiting, now + 1) BY <1>0, <2>2 DEF Sorted, TurnInv
  <2>4. ASSUME NEW S \in Sched, Past(S, now) PROVE Past(S, now + 1)
    <3>1. \A i \in DOMAIN S.jobs : S.jobs[i] \in Job BY JobsAreJobs DEF Sched
    <3>2. \A i \in DOMAIN S.jobs : /\ S.jobs[i].planned \in Nat /\ S.jobs[i].sent \in Nat
                                   /\ S.jobs[i].started \in Nat
      BY <3>1 DEF Job
    <3> QED BY <1>0, <2>4, <3>2 DEF Past
  <2>5. saving # Nothing => saving \in Sched
    BY DEF ScheduleInv, SoundSchedule, Sched
  <2>6. /\ Past(mem, now + 1) /\ Past(disk, now + 1)
        /\ saving # Nothing => Past(saving, now + 1)
    BY <1>0, <2>4, <2>5 DEF TurnInv
  <2> QED BY <1>0, <2>1, <2>3, <2>6 DEF TurnInv, TypeOK
<1>8. CASE UNCHANGED vars BY <1>8 DEF vars, TurnInv, TypeOK
<1> QED BY <1>1, <1>2, <1>3, <1>4, <1>5, <1>6, <1>7, <1>8 DEF Next

LEMMA InitKeepsTurn ==
    ASSUME Init
    PROVE  TurnInv
<1>1. ScheduleInv BY InitKeepsInv
<1>2. mem.jobs = <<>> /\ disk = mem /\ saving = Nothing /\ waiting = <<>> BY DEF Init
<1>3. /\ DOMAIN <<>> = {} BY EmptySeq
<1>4. Planner(mem) BY <1>1, <1>2, <1>3 DEF Planner, ScheduleInv, SoundSchedule
<1>5. Past(mem, now) /\ AskedLater(mem, waiting) /\ InTurn(mem, waiting) /\ Sorted(waiting, now)
  BY <1>2, <1>3 DEF Past, AskedLater, InTurn, Waits, Behind, Sorted
<1> QED BY <1>1, <1>2, <1>4, <1>5 DEF TurnInv, TypeOK, ScheduleInv

\* TurnInv is invariant: commands wait in the order of their time, no job lies in
\* the future, and no resolution acts on a job that was sent after it was asked for.
THEOREM TurnInvariant == Spec => []TurnInv
<1>1. Init => TurnInv BY InitKeepsTurn
<1>2. ScheduleInv /\ TurnInv /\ [Next]_vars => TurnInv' BY StepKeepsTurn
<1> QED BY <1>1, <1>2, ScheduleInvariant, PTL DEF Spec

\* Whatever waits for the lock, every job and plan passes the validation of the
\* domain model: no command raises because of a time that does not fit.
THEOREM TimesFit == Spec => []TypeOK
<1>1. TurnInv => TypeOK BY DEF TurnInv
<1> QED BY <1>1, TurnInvariant, PTL

-----------------------------------------------------------------------------
(* No room is overtaken twice, as long as nobody edits a setting.         *)

\* The due moment of a room that was cleaned does not depend on the clock.
LEMMA DueIsFixed ==
    ASSUME NEW S, SoundSchedule(S), NEW r \in Room, S.plan[r].vacuumed # Never,
           NEW a \in Nat, NEW b \in Nat
    PROVE  DueAt(S.plan[r], a) = DueAt(S.plan[r], b)
<1> DEFINE p == S.plan[r]
           times == {S.jobs[i].finished : i \in CompletedJobs(S, r)}
<1>1. p \in Plan /\ p.vacuumed \in Nat /\ p.mopped \in Nat BY DEF SoundSchedule, Plan
<1>2. CASE p.mode = "vacuum" BY <1>1, <1>2 DEF DueAt, Later, Never
<1>3. CASE p.mode # "vacuum"
  <2>1. p.mode = "vacuum_and_mop" BY <1>1, <1>3, ModesAssumption DEF Plan
  <2>2. IsLatest(p.vacuumed, times) /\ IsLatest(p.mopped, times)
    BY <2>1 DEF SoundSchedule, Credited
  <2>3. p.mopped \in times BY <2>2 DEF IsLatest
  <2>4. PICK i \in CompletedJobs(S, r) : p.mopped = S.jobs[i].finished BY <2>3
  <2>5. p.mopped >= 1 BY <2>4 DEF CompletedJobs, CompletionsDated, SoundSchedule
  <2> QED BY <1>1, <1>3, <2>5 DEF DueAt, Never
<1> QED BY <1>2, <1>3

\* A room that has just been credited is due a day later at least.
LEMMA DueAfterCredit ==
    ASSUME NEW p \in Plan, NEW at \in Nat, at >= 1, NEW clock \in Nat
    PROVE  DueAt(Credit(p, at), clock) >= at + Day /\ DueAt(Credit(p, at), clock) \in Nat
<1> DEFINE c == Credit(p, at)
<1>1. /\ c \in Plan /\ c.mode = p.mode /\ p.vacuumed \in Nat /\ p.mopped \in Nat
      /\ c.vacuumed = Later(p.vacuumed, at)
      /\ c.mode # "vacuum" => c.mopped = Later(p.mopped, at)
      /\ p.mode \in {"vacuum", "vacuum_and_mop"}
  BY ModesAssumption DEF Credit, Plan, Later
<1>2. c.vacuumed \in Nat /\ c.mopped \in Nat BY <1>1 DEF Plan
<1> HIDE DEF c
<1>3. c.vacuumed >= at /\ (c.mode # "vacuum" => c.mopped >= at) BY <1>1 DEF Later
<1>4. Later(c.vacuumed, c.mopped) >= at /\ Later(c.vacuumed, c.mopped) \in Nat
  BY <1>2, <1>3 DEF Later
<1>5. DueAt(c, clock) \in Nat
      /\ (c.mode = "vacuum" => DueAt(c, clock) >= Later(c.vacuumed, c.mopped) + Day)
      /\ (c.mode # "vacuum" => DueAt(c, clock) >= c.mopped + Day)
  BY <1>1, <1>2, <1>3, <1>4, DueAtIsMoment DEF Never
<1> QED BY <1>2, <1>3, <1>4, <1>5, DayAssumption DEF c

\* The moment from which a room claims its turn.
LEMMA ClaimsIsMoment ==
    ASSUME NEW p \in Plan, NEW clock \in Nat
    PROVE  /\ Claims(p, clock) \in Nat /\ p.skip \in Nat
           /\ Claims(p, clock) >= DueAt(p, clock) /\ Claims(p, clock) >= p.skip
<1>1. DueAt(p, clock) \in Nat /\ p.skip \in Nat BY DueAtIsMoment DEF Plan
<1> QED BY <1>1 DEF Claims, Later

\* The next midnight has not come yet.
LEMMA MidnightIsLater ==
    ASSUME NEW at \in Nat
    PROVE  NextMidnight(at) \in Nat /\ NextMidnight(at) > at
<1>1. at \div Day \in Nat /\ Day \in Nat \ {0} BY DayAssumption
<1>2. (at \div Day + 1) * Day \in Nat /\ (at \div Day + 1) * Day > at BY <1>1, SMTT(30)
<1> QED BY <1>2 DEF NextMidnight

\* Jobs that move on are overtaken as before.
LEMMA JobsMoveKeepOrder ==
    ASSUME NEW S, NEW T, NEW clock, NEW r, NEW q, NEW from, JobsMove(S, T),
           OvertakesOnce(S, clock, r, q, from)
    PROVE  OvertakesOnce(T, clock, r, q, from)
<1>1. /\ T.plan = S.plan /\ DOMAIN T.jobs = DOMAIN S.jobs
      /\ \A i \in DOMAIN S.jobs :
           /\ T.jobs[i].room = S.jobs[i].room /\ T.jobs[i].planned = S.jobs[i].planned
           /\ T.jobs[i].state = "completed" => S.jobs[i].state = "completed"
  BY DEF JobsMove, Moves
<1> QED BY <1>1 DEF OvertakesOnce

\* The room start_next plans was due before every other one of its priority,
\* and after its own last completion.
LEMMA StartKeepsOrder ==
    ASSUME NEW S, SoundSchedule(S), ValidJobs(S), NEW clock \in Nat, NEW c, c.at \in Nat,
           NEW T, JobAdded(c, S, T), NEW r \in Room, NEW q \in Room, NEW from,
           OvertakesOnce(S, clock, r, q, from)
    PROVE  OvertakesOnce(T, clock, r, q, from)
<1>1. S \in Sched /\ S.plan \in [Room -> Plan] BY DEF SoundSchedule, Sched
<1> DEFINE n == Len(S.jobs)
<1>2. /\ T.plan = S.plan /\ DOMAIN T.jobs = 1..n + 1 /\ DOMAIN S.jobs = 1..n /\ n \in Nat
      /\ \A i \in DOMAIN S.jobs : T.jobs[i] = S.jobs[i]
  BY <1>1, AddedJob
<1>3. PICK f \in Room : IsFirst(S.plan, c.at, f) /\ T.jobs[n + 1] = NewJob(f, c.at)
  BY <1>1, AddedJob
<1>4. T.jobs[n + 1].room = f /\ T.jobs[n + 1].planned = c.at BY <1>3 DEF NewJob
<1> HIDE DEF n
<1>6. ASSUME r # q, S.plan[r].vacuumed # Never,
             S.plan[q].priority <= S.plan[r].priority,
             NEW i \in DOMAIN T.jobs, NEW k \in DOMAIN T.jobs,
             i < k, T.jobs[i].room = q, T.jobs[k].room = q, T.jobs[i].state = "completed",
             T.jobs[i].planned >= from,
             T.jobs[k].planned >= Claims(S.plan[r], clock)
      PROVE  T.jobs[i].planned < Claims(S.plan[r], clock)
  <2>1. i \in DOMAIN S.jobs /\ T.jobs[i] = S.jobs[i] BY <1>2, <1>6
  <2>2. CASE k \in DOMAIN S.jobs BY <1>2, <1>6, <2>1, <2>2 DEF OvertakesOnce
  <2>3. CASE k = n + 1
    <3>0. /\ Claims(S.plan[r], clock) \in Nat /\ S.plan[r].skip \in Nat
          /\ DueAt(S.plan[r], clock) \in Nat
          /\ Claims(S.plan[r], clock) >= DueAt(S.plan[r], clock)
          /\ Claims(S.plan[r], clock) >= S.plan[r].skip
      BY <1>1, ClaimsIsMoment, DueAtIsMoment
    <3>1. f = q /\ c.at >= Claims(S.plan[r], clock) BY <1>4, <1>6, <2>3
    <3>2. DueAt(S.plan[r], c.at) = DueAt(S.plan[r], clock) BY <1>6, DueIsFixed
    <3>3. r \in Candidates(S.plan, c.at)
      <4>1. S.plan[r].skip <= c.at /\ DueAt(S.plan[r], c.at) <= c.at
        BY <3>0, <3>1, <3>2
      <4> QED BY <4>1 DEF Candidates, Candidate
    <3>4. Precedes(S.plan, c.at, q, r) BY <1>3, <1>6, <3>1, <3>3 DEF IsFirst
    <3>5. S.plan[q].priority \in Nat /\ S.plan[r].priority \in Nat
      BY <1>1, PrioritiesAssumption DEF Plan
    <3>6. DueAt(S.plan[q], c.at) \in Nat /\ DueAt(S.plan[r], c.at) \in Nat
      BY <1>1, DueAtIsMoment
    <3>7. DueAt(S.plan[q], c.at) <= DueAt(S.plan[r], c.at)
      BY <1>6, <3>4, <3>5, <3>6 DEF Precedes
    <3>8. i \in CompletedJobs(S, q) BY <1>6, <2>1 DEF CompletedJobs
    <3>9. DueAt(S.plan[q], c.at) >= S.jobs[i].finished + Day BY <3>8, DueAfterCompletion
    <3>10. /\ S.jobs[i].planned \in Nat /\ S.jobs[i].finished \in Nat
           /\ S.jobs[i].finished >= S.jobs[i].planned
      <4>1. JobOK(S.jobs[i]) /\ S.jobs[i].state = "completed"
        BY <1>6, <2>1 DEF ValidJobs
      <4> QED BY <4>1 DEF JobOK, Job, Closed, Later
    <3> QED BY <2>1, <3>0, <3>2, <3>6, <3>7, <3>9, <3>10, DayAssumption
  <2> QED BY <1>2, <2>2, <2>3
<1> QED BY <1>2, <1>6 DEF OvertakesOnce

\* A completion makes its room due after every job that was planned so far.
LEMMA CompletionKeepsOrder ==
    ASSUME NEW S, SoundSchedule(S), NEW at \in Nat, at >= 1, NEW clock \in Nat,
           \A i \in DOMAIN S.jobs : S.jobs[i].planned <= at,
           NEW r \in Room, NEW q \in Room, NEW from,
           OvertakesOnce(S, clock, r, q, from)
    PROVE  OvertakesOnce(ReportCompleted(S, at), clock, r, q, from)
<1> DEFINE T == ReportCompleted(S, at)
<1>1. S \in Sched /\ S.plan \in [Room -> Plan] /\ S.jobs \in Seq(Job)
  BY DEF SoundSchedule, Sched
<1>2. /\ T.jobs = [i \in DOMAIN S.jobs |->
                     IF Runs(S.jobs[i], at)
                     THEN [S.jobs[i] EXCEPT !.state = "completed", !.finished = at]
                     ELSE S.jobs[i]]
      /\ T.plan = [x \in Room |-> IF Ends(S, at, x) THEN Credit(S.plan[x], at)
                                                    ELSE S.plan[x]]
  BY <1>1, CompletionEffect
<1>3. DOMAIN S.jobs = 1..Len(S.jobs) /\ Len(S.jobs) \in Nat
      /\ \A i \in DOMAIN S.jobs : S.jobs[i] \in Job
  BY <1>1, JobsAreJobs
<1> HIDE DEF T
<1>4. DOMAIN T.jobs = DOMAIN S.jobs BY <1>2
<1>5. \A i \in DOMAIN S.jobs :
        /\ T.jobs[i].room = S.jobs[i].room /\ T.jobs[i].planned = S.jobs[i].planned
        /\ i < Len(S.jobs) => T.jobs[i] = S.jobs[i]
  <2>1. \A i \in DOMAIN S.jobs : i < Len(S.jobs) => S.jobs[i].state \in Closed
    BY DEF SoundSchedule, OnlyLastOpen
  <2>2. \A i \in DOMAIN S.jobs : T.jobs[i] # S.jobs[i] => S.jobs[i].state = "running"
    BY <1>2 DEF Runs
  <2>3. \A i \in DOMAIN S.jobs :
          T.jobs[i].room = S.jobs[i].room /\ T.jobs[i].planned = S.jobs[i].planned
    <3> SUFFICES ASSUME NEW i \in DOMAIN S.jobs
                 PROVE  /\ T.jobs[i].room = S.jobs[i].room
                        /\ T.jobs[i].planned = S.jobs[i].planned
      OBVIOUS
    <3>1. S.jobs[i] \in Job BY <1>3
    <3> QED BY <1>2, <3>1 DEF Job
  <2> QED BY <2>1, <2>2, <2>3 DEF Closed
<1>6. \A x \in Room : /\ S.plan[x] \in Plan
                      /\ T.plan[x] \in {S.plan[x], Credit(S.plan[x], at)}
  BY <1>1, <1>2
<1>7. \A x \in Room : /\ T.plan[x].skip = S.plan[x].skip
                      /\ T.plan[x].priority = S.plan[x].priority
  BY <1>6 DEF Credit, Plan
<1>8. ASSUME r # q, T.plan[r].vacuumed # Never,
             T.plan[q].priority <= T.plan[r].priority,
             NEW i \in DOMAIN T.jobs, NEW k \in DOMAIN T.jobs,
             i < k, T.jobs[i].room = q, T.jobs[k].room = q, T.jobs[i].state = "completed",
             T.jobs[i].planned >= from,
             T.jobs[k].planned >= Claims(T.plan[r], clock)
      PROVE  T.jobs[i].planned < Claims(T.plan[r], clock)
  <2>1. CASE T.plan[r] = S.plan[r]
    <3>1. T.jobs[i] = S.jobs[i] /\ i \in DOMAIN S.jobs /\ k \in DOMAIN S.jobs
      BY <1>3, <1>4, <1>5, <1>8
    <3>2. T.jobs[k].room = S.jobs[k].room /\ T.jobs[k].planned = S.jobs[k].planned
      BY <1>5, <3>1
    <3> QED BY <1>7, <1>8, <2>1, <3>1, <3>2 DEF OvertakesOnce
  <2>2. CASE T.plan[r] = Credit(S.plan[r], at)
    <3>1. DueAt(T.plan[r], clock) >= at + Day /\ DueAt(T.plan[r], clock) \in Nat
      BY <1>6, <2>2, DueAfterCredit
    <3>0. T.plan[r] \in Plan
      BY <1>6, <2>2 DEF Credit, Plan, Later
    <3>3. Claims(T.plan[r], clock) \in Nat /\ Claims(T.plan[r], clock) >= DueAt(T.plan[r], clock)
      BY <3>0, ClaimsIsMoment
    <3>2. T.jobs[i].planned <= at /\ T.jobs[i].planned \in Nat
      BY <1>3, <1>4, <1>5 DEF Job
    <3> QED BY <3>1, <3>2, <3>3, DayAssumption
  <2> QED BY <1>6, <2>1, <2>2
<1>9. OvertakesOnce(T, clock, r, q, from) BY <1>8 DEF OvertakesOnce
<1> QED BY <1>9 DEF T

\* A room that is told to rest claims no turn before the jobs planned so far.
LEMMA RestKeepsOrder ==
    ASSUME NEW S, SoundSchedule(S), NEW clock \in Nat, NEW s \in Room, NEW until \in Nat,
           \A i \in DOMAIN S.jobs : S.jobs[i].planned < until,
           NEW r \in Room, NEW q \in Room, NEW from,
           OvertakesOnce(S, clock, r, q, from)
    PROVE  OvertakesOnce(Rests(S, s, until), clock, r, q, from)
<1> DEFINE T == Rests(S, s, until)
<1>1. S \in Sched /\ S.plan \in [Room -> Plan] /\ S.jobs \in Seq(Job)
  BY DEF SoundSchedule, Sched
<1>2. /\ T.jobs = S.jobs
      /\ \A x \in Room : T.plan[x] = IF x = s THEN [S.plan[x] EXCEPT !.skip = until]
                                             ELSE S.plan[x]
  BY <1>1 DEF Rests, Sched
<1> HIDE DEF T
<1>3. \A i \in DOMAIN S.jobs : S.jobs[i].planned \in Nat
  <2>1. \A i \in DOMAIN S.jobs : S.jobs[i] \in Job BY <1>1, JobsAreJobs
  <2> QED BY <2>1 DEF Job
<1>4. ASSUME NEW x \in Room
      PROVE  /\ T.plan[x].priority = S.plan[x].priority
             /\ T.plan[x].vacuumed = S.plan[x].vacuumed
             /\ \/ Claims(T.plan[x], clock) = Claims(S.plan[x], clock)
                \/ \A i \in DOMAIN S.jobs : S.jobs[i].planned < Claims(T.plan[x], clock)
  <2>1. S.plan[x] \in Plan BY <1>1
  <2>2. CASE x # s BY <1>2, <2>2
  <2>3. CASE x = s
    <3>1. T.plan[x] \in Plan /\ T.plan[x].skip = until
          /\ T.plan[x].priority = S.plan[x].priority
          /\ T.plan[x].vacuumed = S.plan[x].vacuumed
      BY <1>2, <2>1, <2>3 DEF Plan
    <3>2. Claims(T.plan[x], clock) \in Nat /\ Claims(T.plan[x], clock) >= until
      BY <3>1, ClaimsIsMoment
    <3> QED BY <1>3, <3>1, <3>2
  <2> QED BY <2>2, <2>3
<1>5. ASSUME r # q, T.plan[r].vacuumed # Never,
             T.plan[q].priority <= T.plan[r].priority,
             NEW i \in DOMAIN T.jobs, NEW k \in DOMAIN T.jobs,
             i < k, T.jobs[i].room = q, T.jobs[k].room = q, T.jobs[i].state = "completed",
             T.jobs[i].planned >= from,
             T.jobs[k].planned >= Claims(T.plan[r], clock)
      PROVE  T.jobs[i].planned < Claims(T.plan[r], clock)
  <2>1. CASE Claims(T.plan[r], clock) = Claims(S.plan[r], clock)
    BY <1>2, <1>4, <1>5, <2>1 DEF OvertakesOnce
  <2>2. CASE \A j \in DOMAIN S.jobs : S.jobs[j].planned < Claims(T.plan[r], clock)
    BY <1>2, <1>5, <2>2
  <2> QED BY <1>4, <2>1, <2>2
<1>6. OvertakesOnce(T, clock, r, q, from) BY <1>5 DEF OvertakesOnce
<1> QED BY <1>6 DEF T

\* No command but the edit of a setting lets a room be overtaken once more.
LEMMA EffectsKeepOrder ==
    ASSUME NEW S, SoundSchedule(S), ValidJobs(S), NEW c, Asked(c), now \in Nat,
           NEW T \in Effects(c, S), c.op \notin {"interval", "priority"},
           \A i \in DOMAIN S.jobs : S.jobs[i].planned <= c.at,
           NEW r \in Room, NEW q \in Room, NEW from, OvertakesOnce(S, now, r, q, from)
    PROVE  OvertakesOnce(T, now, r, q, from)
<1>1. S \in Sched /\ c.at \in Nat /\ c.at >= 1
  BY DEF SoundSchedule, Sched, Asked, Command
<1>2. c.op \in {"start", "cancel", "dispatch", "accept", "running", "failed", "uncertain",
                "completed", "resolve"} \/ c.op \in {"skip", "postpone"}
  BY EditsAssumption DEF Asked, Command
<1>3. CASE c.op = "start"
  <2>1. T = S \/ (T = StartNext(S, c.at) /\ T # S) BY <1>3 DEF Effects
  <2> QED BY <1>1, <1>3, <2>1, StartAdds, StartKeepsOrder
<1>4. CASE c.op = "completed"
  <2>1. T = S \/ T = ReportCompleted(S, c.at) BY <1>4 DEF Effects
  <2> QED BY <1>1, <2>1, CompletionKeepsOrder
<1>5. CASE c.op \in {"cancel", "dispatch", "accept", "running", "failed", "uncertain",
                     "resolve"}
  <2>1. T = S \/ JobsMove(S, T)
    BY <1>1, <1>2, <1>5, CommandsMoveJobs DEF Effects
  <2> QED BY <2>1, JobsMoveKeepOrder
<1>6. CASE c.op \in {"skip", "postpone"}
  <2>1. c.room \in Room BY <1>6 DEF Asked, Command
  <2>2. ASSUME NEW until \in Nat, until > c.at, T = Rests(S, c.room, until)
        PROVE  OvertakesOnce(T, now, r, q, from)
    <3>1. \A i \in DOMAIN S.jobs : S.jobs[i].planned \in Nat
      <4>1. \A i \in DOMAIN S.jobs : S.jobs[i] \in Job BY <1>1, JobsAreJobs DEF Sched
      <4> QED BY <4>1 DEF Job
    <3>2. \A i \in DOMAIN S.jobs : S.jobs[i].planned < until BY <1>1, <2>2, <3>1
    <3> QED BY <2>1, <2>2, <3>2, RestKeepsOrder
  <2>3. CASE c.op = "skip"
    <3>1. T = S \/ T = Rests(S, c.room, NextMidnight(c.at)) BY <2>3 DEF Effects
    <3> QED BY <1>1, <2>2, <3>1, MidnightIsLater
  <2>4. CASE c.op = "postpone"
    <3>1. T = S \/ T = Rests(S, c.room, c.at + c.value * Day) BY <2>4 DEF Effects
    <3>2. c.value \in Nat \ {0} BY <2>4, PostponesAssumption DEF Asked
    <3>3. c.value * Day \in Nat /\ c.value * Day >= Day BY <3>2, IntervalLength
    <3>4. c.at + c.value * Day \in Nat /\ c.at + c.value * Day > c.at
      BY <1>1, <3>3, DayAssumption
    <3> QED BY <2>2, <3>1, <3>4
  <2> QED BY <1>6, <2>3, <2>4
<1> QED BY <1>2, <1>3, <1>4, <1>5, <1>6

\* The user lets rooms rest, and leaves intervals and priorities alone.
NoSettings == Edits \subseteq {"skip", "postpone"}

LEMMA StepKeepsOrder ==
    ASSUME NoSettings, ScheduleInv, TurnInv, OrderInv, [Next]_vars
    PROVE  OrderInv'
<1>0. /\ now \in Nat /\ waiting \in Seq(Command) /\ disk \in Sched
      /\ SoundSchedule(mem) /\ SoundSchedule(disk) /\ ValidJobs(mem)
      /\ saving # Nothing => SoundSchedule(saving)
  BY DEF ScheduleInv, TurnInv, TypeOK, Planner, ValidJobs, SoundSchedule, Sched
<1>1. CASE UNCHANGED <<now, mem, disk, saving>> BY <1>1 DEF OrderInv
<1>2. CASE Execute
  <2>1. waiting # <<>> /\ UNCHANGED <<now, mem, disk>> BY <1>2 DEF Execute
  <2>2. PICK T \in Effects(Head(waiting), mem) : saving' = IF T = mem THEN Nothing ELSE T
    BY <1>2 DEF Execute, Base
  <2>3. 1 \in DOMAIN waiting /\ Head(waiting) = waiting[1] BY <1>0, <2>1, TakeFirst
  <2>4. /\ Asked(Head(waiting))
        /\ \A i \in DOMAIN mem.jobs : mem.jobs[i].planned <= Head(waiting).at
    BY <2>3 DEF ScheduleInv, TurnInv, AskedLater
  <2>5. OvertakenOnce(T, now)
    <3>1. Head(waiting).op \notin {"interval", "priority"}
      BY <2>4 DEF Asked, Command, NoSettings
    <3>2. ASSUME NEW r \in Room, NEW q \in Room PROVE OvertakesOnce(T, now, r, q, 0)
      <4>1. OvertakesOnce(mem, now, r, q, 0) BY DEF OrderInv, OvertakenOnce
      <4> QED BY <1>0, <2>2, <2>4, <3>1, <4>1, EffectsKeepOrder
    <3> QED BY <3>2 DEF OvertakenOnce
  <2> QED BY <2>1, <2>2, <2>5 DEF OrderInv
<1>3. CASE WriteLands BY <1>3 DEF WriteLands, OrderInv
<1>4. CASE Publish BY <1>4 DEF Publish, OrderInv
<1>5. CASE SaveFails BY <1>5 DEF SaveFails, OrderInv
<1>6. CASE Restart
  <2>1. JobsMove(disk, Recover(disk)) BY <1>0, CommandsMoveJobs
  <2>2. OvertakenOnce(Recover(disk), now)
    BY <2>1, JobsMoveKeepOrder DEF OrderInv, OvertakenOnce
  <2> QED BY <1>6, <2>2 DEF Restart, OrderInv
<1>7. CASE Tick
  <2>1. now' = now + 1 /\ UNCHANGED <<mem, disk, saving>> BY <1>7 DEF Tick
  <2>2. ASSUME NEW S, SoundSchedule(S), OvertakenOnce(S, now)
        PROVE  OvertakenOnce(S, now + 1)
    <3>1. \A r \in Room : S.plan[r].vacuumed # Never =>
            DueAt(S.plan[r], now + 1) = DueAt(S.plan[r], now)
      BY <1>0, <2>2, DueIsFixed
    <3>2. \A r \in Room : S.plan[r].vacuumed # Never =>
            Claims(S.plan[r], now + 1) = Claims(S.plan[r], now)
      BY <3>1 DEF Claims
    <3> QED BY <2>2, <3>2 DEF OvertakenOnce, OvertakesOnce
  <2>3. /\ OvertakenOnce(mem, now + 1) /\ OvertakenOnce(disk, now + 1)
        /\ saving # Nothing => OvertakenOnce(saving, now + 1)
    BY <1>0, <2>2 DEF OrderInv
  <2> QED BY <2>1, <2>3 DEF OrderInv
<1>8. ASSUME NEW c, Ask(c) PROVE OrderInv'
  BY <1>1, <1>8 DEF Ask
<1>9. CASE \/ Start \/ JobCommand("cancel", {"pending"}) \/ JobCommand("dispatch", {"pending"})
           \/ JobCommand("accept", {"dispatching"})
           \/ \E op \in {"running", "failed", "uncertain", "completed"} :
                JobCommand(op, {"pending", "dispatching", "accepted", "running"})
           \/ JobCommand("resolve", {"uncertain"})
  BY <1>8, <1>9 DEF Start, JobCommand
<1>10. CASE \E r \in Room : \/ Edit("skip", r, 1)
                            \/ \E v \in Postpones : Edit("postpone", r, v)
                            \/ \E v \in Intervals : Edit("interval", r, v)
                            \/ \E v \in Priorities : Edit("priority", r, v)
  BY <1>8, <1>10 DEF Edit
<1>11. CASE UNCHANGED vars BY <1>1, <1>11 DEF vars
<1> QED BY <1>2, <1>3, <1>4, <1>5, <1>6, <1>7, <1>9, <1>10, <1>11 DEF Next

LEMMA InitKeepsOrder ==
    ASSUME Init
    PROVE  OrderInv
<1>1. PICK m \in Modes, i \in [Room -> Intervals], p \in [Room -> Priorities] :
        mem = [plan |-> [r \in Room |-> NewPlan(m, i[r], p[r])], jobs |-> <<>>]
  BY DEF Init
<1>2. mem.jobs = <<>> /\ DOMAIN <<>> = {} BY <1>1, EmptySeq
<1>3. OvertakenOnce(mem, now) BY <1>2 DEF OvertakenOnce, OvertakesOnce
<1> QED BY <1>3 DEF Init, OrderInv

\* As long as nobody edits a setting, of two jobs of a room one was planned before
\* a cleaned room of no lower priority claimed its turn.
THEOREM OrderInvariant ==
    ASSUME NoSettings
    PROVE  Spec => []OrderInv
<1>1. Init => OrderInv BY InitKeepsOrder
<1>2. ScheduleInv /\ TurnInv /\ OrderInv /\ [Next]_vars => OrderInv' BY StepKeepsOrder
<1> QED BY <1>1, <1>2, ScheduleInvariant, TurnInvariant, PTL DEF Spec

\* A set whose elements are all the same has one element at most.
LEMMA OneElement ==
    ASSUME NEW A, \A x, y \in A : x = y
    PROVE  Cardinality(A) <= 1
<1>1. CASE A = {} BY <1>1, FS_EmptySet
<1>2. CASE A # {}
  <2>1. PICK x : x \in A BY <1>2
  <2>2. A = {x} BY <2>1
  <2> QED BY <2>2, FS_Singleton
<1> QED BY <1>1, <1>2

\* As long as nobody edits a setting, a room that was cleaned before and is due is
\* passed over once at most by a room of no higher priority, however often rooms
\* are skipped or postponed.
THEOREM NobodyIsPassedTwice ==
    ASSUME NoSettings
    PROVE  Spec => []NotPassedTwice
<1>1. ScheduleInv /\ OrderInv => NotPassedTwice
  <2> SUFFICES ASSUME ScheduleInv, OrderInv, NEW r \in Room, NEW q \in Room,
                      r # q, mem.plan[r].vacuumed # Never,
                      mem.plan[q].priority <= mem.plan[r].priority
               PROVE  Cardinality(PassedOver(r, q)) <= 1
    BY DEF NotPassedTwice
  <2>1. /\ SoundSchedule(mem) /\ mem.plan[r] \in Plan /\ now \in Nat
        /\ DOMAIN mem.jobs \subseteq Nat /\ \A i \in DOMAIN mem.jobs : mem.jobs[i] \in Job
    BY JobsAreJobs DEF ScheduleInv, SoundSchedule
  <2> DEFINE due == Claims(mem.plan[r], now)
  <2>3. due \in Nat BY <2>1, ClaimsIsMoment
  <2>5. ASSUME NEW i \in PassedOver(r, q), NEW k \in PassedOver(r, q), i < k
        PROVE  FALSE
    <3>1. /\ i \in DOMAIN mem.jobs /\ k \in DOMAIN mem.jobs
          /\ mem.jobs[i].room = q /\ mem.jobs[k].room = q
          /\ mem.jobs[i].state = "completed"
          /\ mem.jobs[i].planned >= due /\ mem.jobs[k].planned >= due
      BY <2>5 DEF PassedOver, CompletedJobs
    <3>3. mem.jobs[i].planned \in Nat BY <2>1, <3>1 DEF Job
    <3>2. mem.jobs[i].planned < due
      BY <2>5, <3>1, <3>3 DEF OrderInv, OvertakenOnce, OvertakesOnce
    <3> QED BY <2>3, <3>1, <3>2, <3>3
  <2>6. PassedOver(r, q) \subseteq Nat BY <2>1 DEF PassedOver, CompletedJobs
  <2>7. \A i, k \in PassedOver(r, q) : i = k BY <2>5, <2>6
  <2> QED BY <2>7, OneElement
<1> QED BY <1>1, ScheduleInvariant, OrderInvariant, PTL
=============================================================================
