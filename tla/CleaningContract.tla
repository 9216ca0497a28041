-------------------------- MODULE CleaningContract --------------------------
(***************************************************************************)
(* What the planner of one lane promises about rooms and runs, without     *)
(* commands, lock, file, crash or vacuum: one book of plans and runs, in   *)
(* which every step is one whole operation.  A room is planned when it     *)
(* wants a cleaning and no room that wants one outranks it; one run at a   *)
(* time is open; a completed run is credited to its room as it completes.  *)
(***************************************************************************)
EXTENDS Naturals, Sequences

CONSTANTS Room, Day

VARIABLES
    clock,
    book     \* plan: settings, rest and cleanings of each room; runs: all runs so far

-----------------------------------------------------------------------------
(* When a room wants a cleaning.                                           *)

\* The cleaning that counts for the mode of the room, 0 if there was none.
Counts(p) == IF p.mode = "vacuum" /\ p.vacuumed >= p.mopped THEN p.vacuumed ELSE p.mopped
Since(p, at) == IF Counts(p) = 0 THEN at ELSE Counts(p) + p.interval * Day
Wants(p, at) == p.skip <= at /\ Since(p, at) <= at
Outranks(p, o, at) ==
    \/ p.priority > o.priority
    \/ p.priority = o.priority /\ Since(p, at) < Since(o, at)

-----------------------------------------------------------------------------
(* The operations, as steps from book B to book C at the moment "at".      *)

PlanRoom(B, C, at) ==
    /\ \A i \in DOMAIN B.runs : B.runs[i].phase \in {"completed", "dropped"}
    /\ \E r \in Room :
          /\ Wants(B.plan[r], at)
          /\ \A q \in Room : Wants(B.plan[q], at) => ~Outranks(B.plan[q], B.plan[r], at)
          /\ C = [plan |-> B.plan,
                  runs |-> Append(B.runs, [room |-> r, planned |-> at,
                                           phase |-> "planned", ended |-> 0])]

\* The last run goes from one of these phases to another; no other run moves.
Turned(run, to, ended) ==
    [room |-> run.room, planned |-> run.planned, phase |-> to, ended |-> ended]
Turns(B, C, from, to, ended) ==
    LET n == Len(B.runs)
    IN /\ n > 0 /\ B.runs[n].phase \in from
       /\ C.runs = [B.runs EXCEPT ![n] = Turned(@, to, ended)]
LastRun(B) == B.runs[Len(B.runs)]

Try(B, C) == Turns(B, C, {"planned"}, "tried", 0) /\ C.plan = B.plan
Drop(B, C, at) ==
    /\ Turns(B, C, {"planned", "tried"}, "dropped", at) /\ C.plan = B.plan
    /\ at >= LastRun(B).planned
Block(B, C, at) ==
    /\ Turns(B, C, {"tried"}, "stuck", at) /\ C.plan = B.plan
    /\ at >= LastRun(B).planned

Latest(s, t) == IF s > t THEN s ELSE t
Cleaned(p, at) ==
    [p EXCEPT !.vacuumed = Latest(@, at),
              !.mopped = IF p.mode = "vacuum" THEN @ ELSE Latest(@, at)]
Complete(B, C, at) ==
    /\ Turns(B, C, {"tried"}, "completed", at)
    /\ at >= LastRun(B).planned
    /\ C.plan = [B.plan EXCEPT ![LastRun(B).room] = Cleaned(@, at)]

\* The user sets one value of one room.
Adjust(B, C) ==
    /\ C.runs = B.runs
    /\ \E r \in Room :
          LET p == C.plan[r]
          IN \/ C.plan = [B.plan EXCEPT ![r].skip = p.skip]
             \/ C.plan = [B.plan EXCEPT ![r].interval = p.interval]
             \/ C.plan = [B.plan EXCEPT ![r].priority = p.priority]

\* One operation, asked for at some moment up to now.
Operation(B, C, t) ==
    \/ Try(B, C) \/ Adjust(B, C)
    \/ \E at \in 1..t : \/ PlanRoom(B, C, at) \/ Drop(B, C, at)
                        \/ Block(B, C, at) \/ Complete(B, C, at)

-----------------------------------------------------------------------------
ContractInit ==
    /\ clock = 1 /\ book.runs = <<>>
    /\ \A r \in Room : book.plan[r].skip = 0 /\ Counts(book.plan[r]) = 0

ContractNext ==
    \/ clock' = clock + 1 /\ UNCHANGED book
    \/ UNCHANGED clock /\ book' # book /\ Operation(book, book', clock)

ContractSpec == ContractInit /\ [][ContractNext]_<<clock, book>>
=============================================================================
