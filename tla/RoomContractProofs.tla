------------------------- MODULE RoomContractProofs -------------------------
(***************************************************************************)
(* RoomSchedule implements CleaningContract: whatever waits, fails or is   *)
(* restarted, the user's book moves by one whole operation at a time.      *)
(***************************************************************************)
EXTENDS RoomOrderProofs

-----------------------------------------------------------------------------
(* Rooms in the words of the contract.                                     *)

LEMMA SameDue ==
    ASSUME NEW p \in Plan, NEW at \in Nat
    PROVE  /\ Contract!Since(p, at) = DueAt(p, at)
           /\ Contract!Wants(p, at) <=> Candidate(p, at)
<1>1. p.vacuumed \in Nat /\ p.mopped \in Nat BY DEF Plan
<1>2. Contract!Counts(p) = IF p.mode = "vacuum" THEN Later(p.vacuumed, p.mopped)
                                                ELSE p.mopped
  BY <1>1 DEF Contract!Counts, Later
<1>3. Contract!Since(p, at) = DueAt(p, at) BY <1>2 DEF Contract!Since, DueAt, Never
<1> QED BY <1>3 DEF Contract!Wants, Candidate

\* The room start_next takes is one that no other room outranks.
LEMMA FirstIsNotOutranked ==
    ASSUME NEW plan \in [Room -> Plan], NEW at \in Nat, NEW r \in Room, IsFirst(plan, at, r)
    PROVE  /\ Contract!Wants(plan[r], at)
           /\ \A q \in Room : Contract!Wants(plan[q], at)
                              => ~Contract!Outranks(plan[q], plan[r], at)
<1>1. \A q \in Room : /\ plan[q] \in Plan /\ DueAt(plan[q], at) \in Nat
                      /\ plan[q].priority \in Nat
                      /\ Contract!Since(plan[q], at) = DueAt(plan[q], at)
                      /\ Contract!Wants(plan[q], at) <=> q \in Candidates(plan, at)
  <2> SUFFICES ASSUME NEW q \in Room
               PROVE  /\ plan[q] \in Plan /\ DueAt(plan[q], at) \in Nat
                      /\ plan[q].priority \in Nat
                      /\ Contract!Since(plan[q], at) = DueAt(plan[q], at)
                      /\ Contract!Wants(plan[q], at) <=> q \in Candidates(plan, at)
    OBVIOUS
  <2>1. plan[q] \in Plan OBVIOUS
  <2>2. plan[q].priority \in Nat BY <2>1, PrioritiesAssumption DEF Plan
  <2> QED BY <2>1, <2>2, DueAtIsMoment, SameDue DEF Candidates
<1>2. r \in Candidates(plan, at)
      /\ \A q \in Candidates(plan, at) \ {r} : Precedes(plan, at, r, q)
  BY DEF IsFirst
<1>3. ASSUME NEW q \in Room, Contract!Wants(plan[q], at)
      PROVE  ~Contract!Outranks(plan[q], plan[r], at)
  <2>1. CASE q = r BY <1>1, <2>1 DEF Contract!Outranks
  <2>2. CASE q # r
    <3>1. Precedes(plan, at, r, q) BY <1>1, <1>2, <1>3, <2>2
    <3> QED BY <1>1, <3>1 DEF Precedes, Contract!Outranks
  <2> QED BY <2>1, <2>2
<1> QED BY <1>1, <1>2, <1>3

-----------------------------------------------------------------------------
(* The book of a schedule.                                                 *)

Run == [room : Room, planned : Nat, ended : Nat,
        phase : {"planned", "tried", "dropped", "completed", "stuck"}]

LEMMA BookOf ==
    ASSUME NEW S \in Sched
    PROVE  /\ Book(S) = [plan |-> S.plan, runs |-> Book(S).runs]
           /\ Book(S).plan = S.plan /\ Book(S).runs \in Seq(Run)
           /\ Len(Book(S).runs) = Len(S.jobs) /\ Len(S.jobs) \in Nat
           /\ DOMAIN Book(S).runs = 1..Len(S.jobs) /\ DOMAIN S.jobs = 1..Len(S.jobs)
           /\ \A i \in DOMAIN S.jobs : S.jobs[i] \in Job /\ Book(S).runs[i] = RunOf(S.jobs[i])
<1>1. /\ S.jobs \in Seq(Job) /\ DOMAIN S.jobs = 1..Len(S.jobs) /\ Len(S.jobs) \in Nat
      /\ \A i \in DOMAIN S.jobs : S.jobs[i] \in Job
  BY JobsAreJobs DEF Sched
<1> DEFINE R == [i \in DOMAIN S.jobs |-> RunOf(S.jobs[i])]
<1>2. \A j \in Job : RunOf(j) \in Run
  <2> SUFFICES ASSUME NEW j \in Job PROVE RunOf(j) \in Run OBVIOUS
  <2>1. j.room \in Room /\ j.planned \in Nat /\ j.finished \in Nat /\ j.state \in State
    BY DEF Job
  <2>2. Phase(j) \in {"planned", "tried", "dropped", "completed", "stuck"}
    BY <2>1 DEF Phase, State
  <2> QED BY <2>1, <2>2 DEF RunOf, Run
<1>3. R \in [1..Len(S.jobs) -> Run] BY <1>1, <1>2
<1>4. R \in Seq(Run) /\ Len(R) = Len(S.jobs) /\ DOMAIN R = 1..Len(S.jobs)
  BY <1>1, <1>3
<1>5. \A i \in DOMAIN S.jobs : R[i] = RunOf(S.jobs[i]) OBVIOUS
<1>6. Book(S) = [plan |-> S.plan, runs |-> R] BY DEF Book
<1> HIDE DEF R
<1> QED BY <1>1, <1>4, <1>5, <1>6

\* A job becomes another by one turn of its run, or the run stays as it is.
LEMMA RunTurns ==
    ASSUME NEW c, c.at \in Nat, NEW j \in Job, NEW k \in Job, NEW clock,
           Becomes(c, j, k, clock), JobOK(j)
    PROVE  /\ k.room = j.room /\ k.planned = j.planned
           /\ \/ RunOf(k) = RunOf(j)
              \/ Phase(j) = "planned" /\ Phase(k) = "tried" /\ k.finished = 0
              \/ Phase(j) \in {"planned", "tried"} /\ Phase(k) = "dropped" /\ k.finished = c.at
              \/ Phase(j) = "tried" /\ Phase(k) = "stuck" /\ k.finished = c.at
              \/ /\ Phase(j) = "tried" /\ Phase(k) = "completed" /\ k.finished = c.at
                 /\ k.state = "completed" /\ Runs(j, c.at)
<1>0. /\ j.planned \in Nat /\ j.sent \in Nat /\ j.started \in Nat /\ j.finished \in Nat
      /\ j.state \in State /\ j.room \in Room
  BY DEF Job
<1>1. j.state \notin Closed \cup {"stuck"} => j.finished = 0 BY DEF JobOK, Never
<1> USE DEF Job
<1>2. CASE k = j BY <1>2
<1>3. CASE /\ c.op = "cancel" /\ j.state = "pending"
           /\ k = [j EXCEPT !.state = "cancelled", !.finished = c.at]
  <2>1. k.state = "cancelled" /\ k.finished = c.at /\ k.room = j.room /\ k.planned = j.planned
    BY <1>3
  <2> QED BY <1>3, <2>1 DEF Phase
<1>4. CASE /\ c.op = "dispatch" /\ j.state = "pending"
           /\ k = [j EXCEPT !.state = "dispatching", !.sent = clock]
  <2>1. /\ k.state = "dispatching" /\ k.finished = j.finished /\ k.room = j.room
        /\ k.planned = j.planned
    BY <1>4
  <2> QED BY <1>1, <1>4, <2>1 DEF Phase, Closed
<1>5. CASE \/ j.state = "dispatching" /\ k = [j EXCEPT !.state = "accepted"]
           \/ Sent(j, c.at) /\ k = [j EXCEPT !.state = "running", !.started = c.at]
           \/ j.state \in Busy /\ k = [j EXCEPT !.state = "uncertain"]
  <2>1. /\ j.state \in Busy /\ k.state \in Busy \cup {"uncertain"} /\ k.room = j.room
        /\ k.planned = j.planned /\ k.finished = j.finished
    BY <1>5 DEF Sent, Busy
  <2> QED BY <2>1 DEF RunOf, Phase, Busy
<1>6. CASE /\ Sent(j, c.at) \/ Runs(j, c.at)
           /\ k = [j EXCEPT !.state = "failed", !.finished = c.at]
  <2>1. /\ j.state \in Busy /\ k.state = "failed" /\ k.finished = c.at /\ k.room = j.room
        /\ k.planned = j.planned
    BY <1>6 DEF Sent, Runs, Busy
  <2> QED BY <2>1 DEF Phase, Busy
<1>7. CASE Runs(j, c.at) /\ k = [j EXCEPT !.state = "completed", !.finished = c.at]
  <2>1. /\ j.state = "running" /\ k.state = "completed" /\ k.finished = c.at
        /\ k.room = j.room /\ k.planned = j.planned
    BY <1>7 DEF Runs
  <2> QED BY <1>7, <2>1 DEF Phase
<1>8. CASE /\ c.op = "resolve" /\ j.state = "uncertain"
           /\ \E o \in {"failed", "stuck"} : k = [j EXCEPT !.state = o, !.finished = c.at]
  <2>1. /\ j.state = "uncertain" /\ k.state \in {"failed", "stuck"} /\ k.finished = c.at
        /\ k.room = j.room /\ k.planned = j.planned
    BY <1>8
  <2> QED BY <2>1 DEF Phase
<1> QED BY <1>2, <1>3, <1>4, <1>5, <1>6, <1>7, <1>8 DEF Becomes

\* A closed job stays as it is.
LEMMA ClosedStays ==
    ASSUME NEW c, NEW j \in Job, NEW k, NEW clock, Becomes(c, j, k, clock), j.state \in Closed
    PROVE  k = j
BY DEF Becomes, Closed, Busy, Sent, Runs

-----------------------------------------------------------------------------
(* Commands are operations.                                                *)

\* Jobs of a schedule that become others turn the last run only.
LEMMA LastRunTurns ==
    ASSUME NEW S, SoundSchedule(S), ValidJobs(S), NEW c, c.at \in Nat, NEW T,
           JobsBecome(c, S, T, now), Book(T).runs # Book(S).runs
    PROVE  /\ Len(S.jobs) \in DOMAIN S.jobs
           /\ LET j == S.jobs[Len(S.jobs)]
                  k == T.jobs[Len(S.jobs)]
              IN /\ j \in Job /\ k \in Job /\ Becomes(c, j, k, now) /\ RunOf(k) # RunOf(j)
                 /\ Contract!Turns(Book(S), Book(T), {Phase(j)}, Phase(k), k.finished)
                 /\ Contract!LastRun(Book(S)) = RunOf(j)
<1>1. S \in Sched /\ T \in Sched BY DEF SoundSchedule, Sched, JobsBecome
<1> DEFINE n == Len(S.jobs)
           B == Book(S).runs
           C == Book(T).runs
<1>2. /\ n \in Nat /\ DOMAIN S.jobs = 1..n /\ DOMAIN T.jobs = 1..n
      /\ Len(B) = n /\ DOMAIN B = 1..n /\ DOMAIN C = 1..n
      /\ \A i \in 1..n : /\ S.jobs[i] \in Job /\ B[i] = RunOf(S.jobs[i])
                         /\ T.jobs[i] \in Job /\ C[i] = RunOf(T.jobs[i])
                         /\ Becomes(c, S.jobs[i], T.jobs[i], now)
  BY <1>1, BookOf DEF JobsBecome
<1>3. B = [i \in 1..n |-> B[i]] /\ C = [i \in 1..n |-> C[i]]
  BY <1>1, <1>2, BookOf DEF Book
<1> HIDE DEF n, B, C
<1>4. \A i \in 1..n : i < n => T.jobs[i] = S.jobs[i]
  <2>1. \A i \in 1..n : i < n => S.jobs[i].state \in Closed
    BY <1>2 DEF SoundSchedule, OnlyLastOpen, n
  <2> QED BY <1>2, <2>1, ClosedStays
<1>5. PICK i \in 1..n : C[i] # B[i] BY <1>2, <1>3 DEF B, C
<1>6. i = n /\ n > 0 BY <1>2, <1>4, <1>5
<1> DEFINE j == S.jobs[n]
           k == T.jobs[n]
<1>7. j \in Job /\ k \in Job /\ Becomes(c, j, k, now) /\ B[n] = RunOf(j) /\ C[n] = RunOf(k)
      /\ RunOf(k) # RunOf(j) /\ n \in DOMAIN S.jobs
  BY <1>2, <1>5, <1>6
<1>8. k.room = j.room /\ k.planned = j.planned
  <2>1. JobOK(j) BY <1>7 DEF ValidJobs
  <2> QED BY <1>7, <2>1, RunTurns
<1> HIDE DEF j, k
<1>9. RunOf(k) = Contract!Turned(RunOf(j), Phase(k), k.finished)
  BY <1>8 DEF RunOf, Contract!Turned
<1>10. C = [B EXCEPT ![n] = Contract!Turned(@, Phase(k), k.finished)]
  <2> DEFINE D == [B EXCEPT ![n] = Contract!Turned(@, Phase(k), k.finished)]
  <2>1. /\ D = [m \in 1..n |-> D[m]] /\ D[n] = RunOf(k)
        /\ \A m \in 1..n : m # n => D[m] = B[m]
    BY <1>2, <1>6, <1>7, <1>9
  <2>2. \A m \in 1..n : m # n => C[m] = B[m] BY <1>2, <1>4
  <2>3. \A m \in 1..n : C[m] = D[m] BY <1>7, <2>1, <2>2
  <2> HIDE DEF D
  <2>4. C = D BY <1>3, <2>1, <2>3
  <2> QED BY <2>4 DEF D
<1>11. B[n].phase = Phase(j) BY <1>7 DEF RunOf
<1>12. Contract!Turns(Book(S), Book(T), {Phase(j)}, Phase(k), k.finished)
  <2>1. Len(Book(S).runs) = n BY <1>2 DEF B
  <2> QED BY <1>6, <1>10, <1>11, <2>1 DEF Contract!Turns, B, C
<1>13. Contract!LastRun(Book(S)) = RunOf(j) BY <1>2, <1>7 DEF Contract!LastRun, B
<1> QED BY <1>7, <1>12, <1>13 DEF j, k, n

\* A command that moves jobs and credits nothing is a turn of the last run.
LEMMA MovesAreOperations ==
    ASSUME NEW S, SoundSchedule(S), ValidJobs(S), NEW c, c.at \in 1..now, now \in Nat,
           \A i \in DOMAIN S.jobs : S.jobs[i].planned <= c.at,
           NEW T, JobsBecome(c, S, T, now), JobsMove(S, T)
    PROVE  OneAhead(S, T)
<1>0. c.at \in Nat OBVIOUS
<1>1. S \in Sched /\ T \in Sched /\ T.plan = S.plan
  BY DEF SoundSchedule, Sched, JobsMove
<1>2. CASE Book(T).runs = Book(S).runs
  <2>1. Book(T) = Book(S) BY <1>1, <1>2, BookOf
  <2> QED BY <2>1 DEF OneAhead
<1>3. CASE Book(T).runs # Book(S).runs
  <2> DEFINE j == S.jobs[Len(S.jobs)]
             k == T.jobs[Len(S.jobs)]
  <2>1. /\ Len(S.jobs) \in DOMAIN S.jobs
        /\ j \in Job /\ k \in Job /\ Becomes(c, j, k, now) /\ RunOf(k) # RunOf(j)
        /\ Contract!Turns(Book(S), Book(T), {Phase(j)}, Phase(k), k.finished)
        /\ Contract!LastRun(Book(S)) = RunOf(j)
    BY <1>0, <1>3, LastRunTurns
  <2>2. JobOK(j) /\ j.planned <= c.at BY <2>1 DEF ValidJobs
  <2>3. k.state = "completed" => k = j BY <2>1 DEF JobsMove, Moves
  <2> HIDE DEF j, k
  <2>4. Book(T).plan = Book(S).plan BY <1>1, BookOf
  <2>5. Contract!LastRun(Book(S)).planned <= c.at BY <2>1, <2>2 DEF RunOf
  <2>6. \/ Phase(j) = "planned" /\ Phase(k) = "tried" /\ k.finished = 0
        \/ Phase(j) \in {"planned", "tried"} /\ Phase(k) = "dropped" /\ k.finished = c.at
        \/ Phase(j) = "tried" /\ Phase(k) = "stuck" /\ k.finished = c.at
    BY <2>1, <2>2, <2>3, RunTurns
  <2>7. c.at \in Nat /\ j.planned \in Nat BY <2>1 DEF Job
  <2>8. c.at >= Contract!LastRun(Book(S)).planned BY <2>1, <2>2, <2>7 DEF RunOf
  <2>9. CASE Phase(j) = "planned" /\ Phase(k) = "tried" /\ k.finished = 0
    <3>1. Contract!Try(Book(S), Book(T)) BY <2>1, <2>4, <2>9 DEF Contract!Try
    <3> QED BY <3>1 DEF OneAhead, Contract!Operation
  <2>10. CASE /\ Phase(j) \in {"planned", "tried"} /\ Phase(k) = "dropped"
              /\ k.finished = c.at
    <3>1. Contract!Drop(Book(S), Book(T), c.at)
      BY <2>1, <2>4, <2>8, <2>10 DEF Contract!Drop, Contract!Turns
    <3> QED BY <3>1 DEF OneAhead, Contract!Operation
  <2>11. CASE Phase(j) = "tried" /\ Phase(k) = "stuck" /\ k.finished = c.at
    <3>1. Contract!Block(Book(S), Book(T), c.at)
      BY <2>1, <2>4, <2>8, <2>11 DEF Contract!Block
    <3> QED BY <3>1 DEF OneAhead, Contract!Operation
  <2> QED BY <2>6, <2>9, <2>10, <2>11
<1> QED BY <1>2, <1>3

\* A completion credits the room of the run that it ends.
LEMMA CompletionIsOperation ==
    ASSUME NEW S, SoundSchedule(S), ValidJobs(S), NEW c, c.op = "completed", Asked(c),
           c.at \in 1..now, now \in Nat,
           \A i \in DOMAIN S.jobs : S.jobs[i].planned <= c.at,
           NEW T, T = ReportCompleted(S, c.at)
    PROVE  OneAhead(S, T)
<1>0. S \in Sched /\ c.at \in Nat /\ c.at >= 1 BY DEF SoundSchedule, Sched
<1>1. T \in Effects(c, S) BY DEF Effects
<1>2. SoundSchedule(T) BY <1>0, CompletionKeepsSound
<1>3. T \in Sched BY <1>2 DEF SoundSchedule, Sched
<1>4. JobsBecome(c, S, T, now)
  <2>1. JobsBecome(c, S, T, now) \/ JobAdded(c, S, T) BY <1>1, EffectsOnJobs
  <2> QED BY <2>1 DEF JobAdded
<1>5. /\ T.jobs = [i \in DOMAIN S.jobs |->
                     IF Runs(S.jobs[i], c.at)
                     THEN [S.jobs[i] EXCEPT !.state = "completed", !.finished = c.at]
                     ELSE S.jobs[i]]
      /\ T.plan = [r \in Room |-> IF Ends(S, c.at, r) THEN Credit(S.plan[r], c.at)
                                                      ELSE S.plan[r]]
  BY <1>0, CompletionEffect
<1>6. S.plan \in [Room -> Plan] /\ \A i \in DOMAIN S.jobs : S.jobs[i] \in Job
  BY <1>0, JobsAreJobs DEF Sched
<1>7. CASE \A i \in DOMAIN S.jobs : ~Runs(S.jobs[i], c.at)
  <2>1. T.jobs = S.jobs
    <3>1. S.jobs = [i \in DOMAIN S.jobs |-> S.jobs[i]] BY <1>0 DEF Sched
    <3> QED BY <1>5, <1>7, <3>1
  <2>2. T.plan = S.plan
    <3>1. \A r \in Room : ~Ends(S, c.at, r) BY <1>7 DEF Ends
    <3>2. S.plan = [r \in Room |-> S.plan[r]] BY <1>6
    <3> QED BY <1>5, <3>1, <3>2
  <2>3. Book(T) = Book(S) BY <2>1, <2>2 DEF Book
  <2> QED BY <2>3 DEF OneAhead
<1>8. CASE \E i \in DOMAIN S.jobs : Runs(S.jobs[i], c.at)
  <2> DEFINE n == Len(S.jobs)
             j == S.jobs[n]
             k == T.jobs[n]
  <2>1. PICK i \in DOMAIN S.jobs : Runs(S.jobs[i], c.at) BY <1>8
  <2>2. DOMAIN S.jobs = 1..n /\ n \in Nat BY <1>0, JobsAreJobs DEF Sched
  <2>3. \A m \in DOMAIN S.jobs : Runs(S.jobs[m], c.at) => m = n
    BY <2>2 DEF SoundSchedule, OnlyLastOpen, Runs, Closed
  <2>4. n \in DOMAIN S.jobs /\ Runs(j, c.at) /\ j \in Job BY <1>6, <2>1, <2>3
  <2>5. k.state = "completed" /\ k.finished = c.at /\ j.state = "running"
    BY <1>5, <2>4 DEF Job, Runs
  <2>6. Phase(j) = "tried" /\ Phase(k) = "completed" BY <2>5 DEF Phase
  <2>7. Book(S).runs[n] = RunOf(j) /\ Book(T).runs[n] = RunOf(k)
    <3>1. DOMAIN T.jobs = DOMAIN S.jobs BY <1>5
    <3> QED BY <1>0, <1>3, <2>4, <3>1, BookOf
  <2>8. Book(T).runs # Book(S).runs
    <3>1. RunOf(j).phase = "tried" /\ RunOf(k).phase = "completed" BY <2>6 DEF RunOf
    <3> QED BY <2>7, <3>1
  <2>9. /\ Contract!Turns(Book(S), Book(T), {Phase(j)}, Phase(k), k.finished)
        /\ Contract!LastRun(Book(S)) = RunOf(j)
    BY <1>0, <1>4, <2>8, LastRunTurns
  <2>10. j.planned <= c.at /\ j.planned \in Nat /\ j.room \in Room BY <2>4 DEF Job
  <2>11. \A r \in Room : Ends(S, c.at, r) <=> r = j.room BY <2>3, <2>4 DEF Ends
  <2>12. \A p \in Plan : Credit(p, c.at) = Contract!Cleaned(p, c.at)
    <3> SUFFICES ASSUME NEW p \in Plan PROVE Credit(p, c.at) = Contract!Cleaned(p, c.at)
      OBVIOUS
    <3>1. p.mode \in {"vacuum", "vacuum_and_mop"} BY ModesAssumption DEF Plan
    <3>2. \A s, t : Later(s, t) = Contract!Latest(s, t) BY DEF Later, Contract!Latest
    <3>3. CASE p.mode = "vacuum" BY <3>2, <3>3 DEF Credit, Contract!Cleaned
    <3>4. CASE p.mode = "vacuum_and_mop" BY <3>2, <3>4 DEF Credit, Contract!Cleaned
    <3> QED BY <3>1, <3>3, <3>4
  <2> HIDE DEF j, k, n
  <2>13. T.plan = [S.plan EXCEPT ![j.room] = Contract!Cleaned(@, c.at)]
    BY <1>5, <1>6, <2>10, <2>11, <2>12
  <2>14. Book(T).plan = T.plan /\ Book(S).plan = S.plan BY <1>0, <1>3, BookOf
  <2>15. RunOf(j).room = j.room /\ RunOf(j).planned = j.planned BY DEF RunOf
  <2>16. Contract!Complete(Book(S), Book(T), c.at)
    BY <1>0, <2>5, <2>6, <2>9, <2>10, <2>13, <2>14, <2>15 DEF Contract!Complete
  <2> QED BY <2>16 DEF OneAhead, Contract!Operation
<1> QED BY <1>7, <1>8

\* start_next plans one room in the book.
LEMMA StartIsOperation ==
    ASSUME NEW S, SoundSchedule(S), NEW c, c.at \in 1..now, now \in Nat,
           NEW T, T \in Sched, JobAdded(c, S, T)
    PROVE  OneAhead(S, T)
<1>0. S \in Sched /\ S.plan \in [Room -> Plan] /\ c.at \in Nat
  BY DEF SoundSchedule, Sched
<1> DEFINE n == Len(S.jobs)
           B == Book(S).runs
           C == Book(T).runs
<1>1. /\ T.plan = S.plan /\ LaneIsFree(S.jobs)
      /\ DOMAIN T.jobs = 1..n + 1 /\ DOMAIN S.jobs = 1..n /\ n \in Nat
      /\ \A i \in DOMAIN S.jobs : T.jobs[i] = S.jobs[i]
  BY <1>0, AddedJob
<1>2. PICK r \in Room : IsFirst(S.plan, c.at, r) /\ T.jobs[n + 1] = NewJob(r, c.at)
  BY <1>0, AddedJob
<1>3. /\ B \in Seq(Run) /\ Len(B) = n /\ DOMAIN B = 1..n
      /\ \A i \in 1..n : B[i] = RunOf(S.jobs[i])
  BY <1>0, <1>1, BookOf
<1>4. /\ C \in Seq(Run) /\ DOMAIN C = 1..n + 1 /\ Len(C) = n + 1
      /\ \A i \in 1..n + 1 : C[i] = RunOf(T.jobs[i])
  <2>1. DOMAIN T.jobs = 1..Len(T.jobs) /\ Len(T.jobs) \in Nat BY JobsAreJobs DEF Sched
  <2>2. Len(T.jobs) = n + 1 BY <1>1, <2>1
  <2> QED BY <1>1, <2>2, BookOf
<1> DEFINE x == [room |-> r, planned |-> c.at, phase |-> "planned", ended |-> 0]
<1>5. RunOf(NewJob(r, c.at)) = x BY DEF RunOf, NewJob, Phase, Never
<1>6. x \in Run BY <1>0 DEF Run
<1> HIDE DEF B, C, n, x
<1>7. C = Append(B, x)
  <2>1. C[n + 1] = x BY <1>1, <1>2, <1>4, <1>5
  <2>2. \A i \in 1..n : C[i] = B[i] BY <1>1, <1>3, <1>4
  <2>3. /\ Append(B, x) \in Seq(Run) /\ Len(Append(B, x)) = n + 1
        /\ \A i \in 1..n : Append(B, x)[i] = B[i]
        /\ Append(B, x)[n + 1] = x
    BY <1>3, <1>6, AppendProperties
  <2>4. \A i \in 1..n + 1 : C[i] = Append(B, x)[i] BY <1>1, <2>1, <2>2, <2>3
  <2> QED BY <1>4, <2>3, <2>4, SeqEqual
<1>8. \A i \in DOMAIN B : B[i].phase \in {"completed", "dropped"}
  <2>1. \A i \in 1..n : S.jobs[i].state \in Closed BY <1>1 DEF LaneIsFree
  <2> QED BY <1>3, <2>1 DEF RunOf, Phase, Closed
<1>9. /\ Contract!Wants(S.plan[r], c.at)
      /\ \A q \in Room : Contract!Wants(S.plan[q], c.at)
                         => ~Contract!Outranks(S.plan[q], S.plan[r], c.at)
  BY <1>0, <1>2, FirstIsNotOutranked
<1>10. Book(T) = [plan |-> S.plan, runs |-> Append(B, x)] /\ Book(S).plan = S.plan
  BY <1>0, <1>1, <1>7, BookOf DEF C
<1>11. Contract!PlanRoom(Book(S), Book(T), c.at)
  BY <1>8, <1>9, <1>10 DEF Contract!PlanRoom, B, x
<1> QED BY <1>11 DEF OneAhead, Contract!Operation

\* An edit sets one value of one room.
Edited(S, T, r, v) ==
    /\ T.jobs = S.jobs
    /\ \/ T.plan = [S.plan EXCEPT ![r].skip = v]
       \/ T.plan = [S.plan EXCEPT ![r].interval = v]
       \/ T.plan = [S.plan EXCEPT ![r].priority = v]

LEMMA EditIsOperation ==
    ASSUME NEW S, SoundSchedule(S), NEW T, NEW r \in Room, NEW v, Edited(S, T, r, v)
    PROVE  OneAhead(S, T)
<1>1. S.plan \in [Room -> Plan] /\ S.plan[r] \in Plan BY DEF SoundSchedule
<1>2. Book(T).runs = Book(S).runs /\ Book(T).plan = T.plan /\ Book(S).plan = S.plan
  BY DEF Book, Edited
<1>3. CASE T.plan = [S.plan EXCEPT ![r].skip = v]
  <2>1. T.plan[r].skip = v BY <1>1, <1>3 DEF Plan
  <2>2. Book(T).plan = [Book(S).plan EXCEPT ![r].skip = Book(T).plan[r].skip]
    BY <1>2, <1>3, <2>1
  <2>3. Contract!Adjust(Book(S), Book(T)) BY <1>2, <2>2 DEF Contract!Adjust
  <2> QED BY <2>3 DEF OneAhead, Contract!Operation
<1>4. CASE T.plan = [S.plan EXCEPT ![r].interval = v]
  <2>1. T.plan[r].interval = v BY <1>1, <1>4 DEF Plan
  <2>2. Book(T).plan = [Book(S).plan EXCEPT ![r].interval = Book(T).plan[r].interval]
    BY <1>2, <1>4, <2>1
  <2>3. Contract!Adjust(Book(S), Book(T)) BY <1>2, <2>2 DEF Contract!Adjust
  <2> QED BY <2>3 DEF OneAhead, Contract!Operation
<1>5. CASE T.plan = [S.plan EXCEPT ![r].priority = v]
  <2>1. T.plan[r].priority = v BY <1>1, <1>5 DEF Plan
  <2>2. Book(T).plan = [Book(S).plan EXCEPT ![r].priority = Book(T).plan[r].priority]
    BY <1>2, <1>5, <2>1
  <2>3. Contract!Adjust(Book(S), Book(T)) BY <1>2, <2>2 DEF Contract!Adjust
  <2> QED BY <2>3 DEF OneAhead, Contract!Operation
<1> QED BY <1>3, <1>4, <1>5 DEF Edited

\* Whatever a command does to the state under the lock is one operation at most.
LEMMA EffectsAreOperations ==
    ASSUME NEW S, SoundSchedule(S), ValidJobs(S), NEW c, Asked(c), c.at \in 1..now,
           now \in Nat, \A i \in DOMAIN S.jobs : S.jobs[i].planned <= c.at,
           NEW T \in Effects(c, S)
    PROVE  OneAhead(S, T)
<1>1. S \in Sched /\ c.at \in Nat /\ c.at >= 1
  BY DEF SoundSchedule, Sched, Asked, Command
<1>2. SoundSchedule(T) /\ T \in Sched BY EffectsKeepSound DEF SoundSchedule, Sched
<1>3. CASE T = S BY <1>3 DEF OneAhead
<1>4. CASE c.op = "start"
  <2>1. T = S \/ (T = StartNext(S, c.at) /\ T # S) BY <1>4 DEF Effects
  <2>2. ASSUME T = StartNext(S, c.at), T # S PROVE OneAhead(S, T)
    <3>1. JobAdded(c, S, T) BY <1>1, <1>4, <2>2, StartAdds
    <3> QED BY <1>2, <3>1, StartIsOperation
  <2> QED BY <1>3, <2>1, <2>2
<1>5. CASE c.op = "completed"
  <2>1. T = S \/ T = ReportCompleted(S, c.at) BY <1>5 DEF Effects
  <2> QED BY <1>3, <1>5, <2>1, CompletionIsOperation
<1>6. CASE c.op \in {"cancel", "dispatch", "accept", "running", "failed", "uncertain",
                     "resolve"}
  <2>1. T = S \/ JobsMove(S, T)
    BY <1>1, <1>6, CommandsMoveJobs DEF Effects
  <2>2. JobsBecome(c, S, T, now)
    <3>1. JobsBecome(c, S, T, now) \/ JobAdded(c, S, T) BY EffectsOnJobs
    <3> QED BY <1>6, <3>1 DEF JobAdded
  <2> QED BY <1>3, <2>1, <2>2, MovesAreOperations
<1>7. CASE c.op \in {"skip", "postpone"}
  <2>1. c.room \in Room BY <1>7 DEF Asked, Command
  <2>2. \/ T = S \/ T = Rests(S, c.room, NextMidnight(c.at))
        \/ T = Rests(S, c.room, c.at + c.value * Day)
    BY <1>7 DEF Effects
  <2>3. ASSUME NEW until, T = Rests(S, c.room, until)
        PROVE  OneAhead(S, T)
    <3>1. Edited(S, T, c.room, until) BY <1>1, <2>3 DEF Rests, Sched, Edited
    <3> QED BY <2>1, <3>1, EditIsOperation
  <2> QED BY <1>3, <2>2, <2>3
<1>8. CASE c.op \in {"interval", "priority"}
  <2>1. c.room \in Room BY <1>8 DEF Asked, Command
  <2>2. T = S \/ Edited(S, T, c.room, c.value)
    BY <1>1, <1>8 DEF Effects, Sched, Edited
  <2> QED BY <1>3, <2>1, <2>2, EditIsOperation
<1> QED BY <1>4, <1>5, <1>6, <1>7, <1>8, EditsAssumption DEF Asked, Command

\* A job that is uncertain after a restart is tried as before.
LEMMA RecoverKeepsBook ==
    ASSUME NEW S \in Sched
    PROVE  Book(Recover(S)) = Book(S)
<1> DEFINE T == Recover(S)
<1>1. /\ T.plan = S.plan /\ DOMAIN T.jobs = DOMAIN S.jobs
      /\ \A i \in DOMAIN S.jobs :
            T.jobs[i] = IF S.jobs[i].state \in {"dispatching", "accepted", "running"}
                        THEN [S.jobs[i] EXCEPT !.state = "uncertain"] ELSE S.jobs[i]
  BY DEF Recover, Replace, Sched
<1>2. \A i \in DOMAIN S.jobs : S.jobs[i] \in Job BY JobsAreJobs DEF Sched
<1>3. ASSUME NEW j \in Job, j.state \in {"dispatching", "accepted", "running"}
      PROVE  RunOf([j EXCEPT !.state = "uncertain"]) = RunOf(j)
  <2> DEFINE k == [j EXCEPT !.state = "uncertain"]
  <2>1. /\ k.state = "uncertain" /\ k.room = j.room /\ k.planned = j.planned
        /\ k.finished = j.finished
    BY DEF Job
  <2> HIDE DEF k
  <2>2. RunOf(k) = RunOf(j) BY <1>3, <2>1 DEF RunOf, Phase
  <2> QED BY <2>2 DEF k
<1>4. \A i \in DOMAIN S.jobs : RunOf(T.jobs[i]) = RunOf(S.jobs[i]) BY <1>1, <1>2, <1>3
<1> HIDE DEF T
<1>5. Book(T) = Book(S) BY <1>1, <1>4 DEF Book
<1> QED BY <1>5 DEF T

-----------------------------------------------------------------------------
(* File and save are one operation ahead; the published book takes it.     *)

\* What was one operation ahead is so later on.
LEMMA LaterIsAhead ==
    ASSUME NEW B, NEW C, NEW t \in Nat, Contract!Operation(B, C, t)
    PROVE  Contract!Operation(B, C, t + 1)
<1>1. 1..t \subseteq 1..t + 1 OBVIOUS
<1> QED BY <1>1 DEF Contract!Operation

LEMMA StepKeepsFile ==
    ASSUME ScheduleInv, TurnInv, FileOneAhead, [Next]_vars
    PROVE  FileOneAhead'
<1>0. /\ now \in Nat /\ waiting \in Seq(Command) /\ disk \in Sched
      /\ SoundSchedule(mem) /\ ValidJobs(mem)
  BY DEF ScheduleInv, TurnInv, TypeOK, Planner, ValidJobs, SoundSchedule, Sched
<1>1. CASE UNCHANGED <<now, mem, disk, saving>> BY <1>1 DEF FileOneAhead, OneAhead
<1>2. CASE Execute
  <2>1. waiting # <<>> /\ UNCHANGED <<now, mem, disk>> BY <1>2 DEF Execute
  <2>2. PICK T \in Effects(Head(waiting), mem) : saving' = IF T = mem THEN Nothing ELSE T
    BY <1>2 DEF Execute, Base
  <2>3. 1 \in DOMAIN waiting /\ Head(waiting) = waiting[1] BY <1>0, <2>1, TakeFirst
  <2>4. /\ Asked(Head(waiting)) /\ Head(waiting).at <= now
        /\ \A i \in DOMAIN mem.jobs : mem.jobs[i].planned <= Head(waiting).at
    BY <2>3 DEF ScheduleInv, TurnInv, AskedLater, Sorted
  <2>5. Head(waiting).at \in 1..now
    <3>1. Head(waiting).at \in Nat /\ Head(waiting).at >= 1 BY <2>4 DEF Asked, Command
    <3> QED BY <1>0, <2>4, <3>1
  <2>6. OneAhead(mem, T) BY <1>0, <2>2, <2>4, <2>5, EffectsAreOperations
  <2> QED BY <2>1, <2>2, <2>6 DEF FileOneAhead, OneAhead
<1>3. CASE WriteLands BY <1>3 DEF WriteLands, FileOneAhead, OneAhead
<1>4. CASE Publish BY <1>4 DEF Publish, FileOneAhead, OneAhead
<1>5. CASE SaveFails BY <1>5 DEF SaveFails, FileOneAhead, OneAhead
<1>6. CASE Restart BY <1>6 DEF Restart, FileOneAhead, OneAhead
<1>7. CASE Tick
  <2>1. now' = now + 1 /\ UNCHANGED <<mem, disk, saving>> BY <1>7 DEF Tick
  <2> QED BY <1>0, <2>1, LaterIsAhead DEF FileOneAhead, OneAhead
<1>8. ASSUME NEW c, Ask(c) PROVE FileOneAhead'
  BY <1>1, <1>8 DEF Ask
<1>9. CASE \/ Start \/ JobCommand("cancel", {"pending"}) \/ JobCommand("dispatch", {"pending"})
           \/ JobCommand("accept", {"dispatching"})
           \/ \E op \in {"running", "failed", "uncertain", "completed"} :
                JobCommand(op, {"pending", "dispatching", "accepted", "running"})
           \/ JobCommand("resolve", {"uncertain"})
  BY <1>8, <1>9 DEF Start, JobCommand
<1>10. CASE \E r \in Room : \/ Edit("skip", r, 1)
                            \/ \E v \in Postpones : Edit("postpone", r, v)
                            \/ \E v \in Intervals : Edit("interval", r, v)
                            \/ \E v \in Priorities : Edit("priority", r, v)
  BY <1>8, <1>10 DEF Edit
<1>11. CASE UNCHANGED vars BY <1>1, <1>11 DEF vars
<1> QED BY <1>2, <1>3, <1>4, <1>5, <1>6, <1>7, <1>9, <1>10, <1>11 DEF Next

\* The file is one operation ahead of what is published at most, for every set of
\* rooms and edits, every fault and every clock: a restart brings back no more.
THEOREM FileIsOneAhead == Spec => []FileOneAhead
<1>1. Init => FileOneAhead BY DEF Init, FileOneAhead, OneAhead
<1>2. ScheduleInv /\ TurnInv /\ FileOneAhead /\ [Next]_vars => FileOneAhead'
  BY StepKeepsFile
<1> QED BY <1>1, <1>2, ScheduleInvariant, TurnInvariant, PTL DEF Spec

LEMMA InitIsContractInit ==
    ASSUME Init
    PROVE  Contract!ContractInit
<1>1. PICK m \in Modes, i \in [Room -> Intervals], p \in [Room -> Priorities] :
        mem = [plan |-> [r \in Room |-> NewPlan(m, i[r], p[r])], jobs |-> <<>>]
  BY DEF Init
<1>2. mem.jobs = <<>> /\ DOMAIN <<>> = {} BY <1>1, EmptySeq
<1>3. Book(mem).runs = <<>>
  <2>1. Book(mem).runs = [k \in {} |-> RunOf(mem.jobs[k])] BY <1>2 DEF Book
  <2> QED BY <2>1
<1>4. ASSUME NEW r \in Room
      PROVE  Book(mem).plan[r].skip = 0 /\ Contract!Counts(Book(mem).plan[r]) = 0
  <2>1. Book(mem).plan[r] = NewPlan(m, i[r], p[r]) BY <1>1 DEF Book
  <2> QED BY <2>1 DEF NewPlan, Never, Contract!Counts
<1> QED BY <1>3, <1>4 DEF Init, Contract!ContractInit

\* A step of the planner is a step of the contract or leaves the book alone.
LEMMA StepIsContractStep ==
    ASSUME ScheduleInv, FileOneAhead, [Next]_vars
    PROVE  [Contract!ContractNext]_<<now, Book(mem)>>
<1>0. now \in Nat /\ disk \in Sched BY DEF ScheduleInv, SoundSchedule, Sched
<1>1. CASE UNCHANGED <<now, mem>> BY <1>1
<1>2. CASE Tick
  <2>1. now' = now + 1 /\ UNCHANGED mem BY <1>2 DEF Tick
  <2> QED BY <2>1 DEF Contract!ContractNext
<1>3. ASSUME now' = now, Book(mem') = Book(mem) \/ Contract!Operation(Book(mem), Book(mem'), now)
      PROVE  [Contract!ContractNext]_<<now, Book(mem)>>
  BY <1>3 DEF Contract!ContractNext
<1>4. CASE Publish
  <2>1. mem' = saving /\ saving # Nothing /\ now' = now BY <1>4 DEF Publish
  <2>2. OneAhead(mem, saving) BY <2>1 DEF FileOneAhead
  <2> QED BY <1>3, <2>1, <2>2 DEF OneAhead
<1>5. CASE Restart
  <2>1. mem' = Recover(disk) /\ now' = now BY <1>5 DEF Restart
  <2>2. Book(mem') = Book(disk) BY <1>0, <2>1, RecoverKeepsBook
  <2> QED BY <1>3, <2>1, <2>2 DEF FileOneAhead, OneAhead
<1>6. CASE \/ Start \/ JobCommand("cancel", {"pending"}) \/ JobCommand("dispatch", {"pending"})
           \/ JobCommand("accept", {"dispatching"})
           \/ \E op \in {"running", "failed", "uncertain", "completed"} :
                JobCommand(op, {"pending", "dispatching", "accepted", "running"})
           \/ JobCommand("resolve", {"uncertain"})
  BY <1>1, <1>6 DEF Start, JobCommand, Ask
<1>7. CASE \E r \in Room : \/ Edit("skip", r, 1)
                           \/ \E v \in Postpones : Edit("postpone", r, v)
                           \/ \E v \in Intervals : Edit("interval", r, v)
                           \/ \E v \in Priorities : Edit("priority", r, v)
  BY <1>1, <1>7 DEF Edit, Ask
<1>8. CASE Execute \/ WriteLands \/ SaveFails
  BY <1>1, <1>8 DEF Execute, WriteLands, SaveFails
<1>9. CASE UNCHANGED vars BY <1>1, <1>9 DEF vars
<1> QED BY <1>2, <1>4, <1>5, <1>6, <1>7, <1>8, <1>9 DEF Next

\* The planner implements the user's book, for every set of rooms, settings, edits
\* and faults: each step is one whole operation of it or none.
THEOREM ContractImplemented == Spec => ImplementsContract
<1>1. Init => Contract!ContractInit BY InitIsContractInit
<1>2. ScheduleInv /\ FileOneAhead /\ [Next]_vars => [Contract!ContractNext]_<<now, Book(mem)>>
  BY StepIsContractStep
<1> QED
  BY <1>1, <1>2, ScheduleInvariant, FileIsOneAhead, PTL
  DEF Spec, ImplementsContract, Contract!ContractSpec
=============================================================================
