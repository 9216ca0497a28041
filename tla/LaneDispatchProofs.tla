------------------------- MODULE LaneDispatchProofs -------------------------
(***************************************************************************)
(* Theorems about LaneDispatch, for every value of its constants.          *)
(***************************************************************************)
EXTENDS LaneDispatch, SequenceTheorems, TLAPS

-----------------------------------------------------------------------------
(* The ledger operations keep a ledger well formed, forget no claim and no *)
(* outcome, and open no second block.                                      *)

\* Ledger M may follow ledger L.
Follows(L, M) ==
    /\ M \in Ledger
    /\ \A b \in Block : Kept(L[b], M[b])
    /\ AtMostOneOpen(L) => AtMostOneOpen(M) /\ OnePhaseOn(L, M)
\* What an acceptance or a quarantine of b finds in L, it still finds in M.
StillApplies(L, M, b) == Applies(L[b]) => Applies(M[b])

\* A step on one entry: the new entry is coherent, keeps what was reached,
\* is open only if the old one was, and moves as a block may move.
Advance(e, f) ==
    /\ f \in Entry
    /\ Kept(e, f)
    /\ Open(f) => Open(e)
    /\ \/ f.st = e.st
       \/ e.st = "sealed" /\ f.st \in {"cancelled", "committing"}
       \/ Claimed(e) /\ Open(e) /\ Claimed(f)

\* The phase of an entry is the state of its block.
LEMMA PhaseCases ==
    ASSUME NEW e
    PROVE  /\ e.st = "absent" => PhaseOf(e) = "none"
           /\ e.st = "sealed" => PhaseOf(e) = "planned"
           /\ e.st = "cancelled" => PhaseOf(e) = "cancelled"
           /\ e.st \in {"completed", "failed"} => PhaseOf(e) = "done"
           /\ e.st \notin {"absent", "sealed", "cancelled", "completed", "failed"}
                => PhaseOf(e) = "claimed"
BY DEF PhaseOf

\* An entry that advances makes one move of the contract or none, and only an
\* open one moves.
LEMMA AdvanceIsOnward ==
    ASSUME NEW e, NEW f, Advance(e, f), PhaseOf(f) # PhaseOf(e)
    PROVE  Onward(e, f) /\ Open(e)
<1>1. CASE f.st = e.st BY <1>1 DEF PhaseOf
<1>2. CASE e.st = "sealed" /\ f.st \in {"cancelled", "committing"}
  BY <1>2, PhaseCases DEF Onward, Open, TerminalBlock
<1>3. CASE Claimed(e) /\ Open(e) /\ Claimed(f)
  BY <1>3, PhaseCases DEF Onward, Open, TerminalBlock, Claimed
<1> QED BY <1>1, <1>2, <1>3 DEF Advance

\* An operation that advances every entry yields a ledger that may follow.
LEMMA PointwiseFollows ==
    ASSUME NEW L \in Ledger, NEW M, M = [b \in Block |-> M[b]],
           \A b \in Block : Advance(L[b], M[b])
    PROVE  Follows(L, M)
<1>1. M \in Ledger BY DEF Ledger, Advance
<1>2. OpenBlocks(M) \subseteq OpenBlocks(L) BY DEF OpenBlocks, Advance
<1>3. \A b \in Block : PhaseOf(M[b]) # PhaseOf(L[b])
                       => Onward(L[b], M[b]) /\ b \in OpenBlocks(L)
  BY AdvanceIsOnward DEF OpenBlocks
<1>4. AtMostOneOpen(L) => OnePhaseOn(L, M) BY <1>3 DEF AtMostOneOpen, OnePhaseOn
<1> QED BY <1>1, <1>2, <1>4 DEF Follows, Advance, AtMostOneOpen

\* Changing one entry of a ledger advances the ledger if it advances the entry.
LEMMA PutFollows ==
    ASSUME NEW L \in Ledger, NEW b \in Block, NEW f, Advance(L[b], f)
    PROVE  /\ Follows(L, [L EXCEPT ![b] = f])
           /\ \A c \in Block : [L EXCEPT ![b] = f][c] = IF c = b THEN f ELSE L[c]
<1> DEFINE M == [L EXCEPT ![b] = f]
<1>1. /\ M = [c \in Block |-> M[c]]
      /\ \A c \in Block : M[c] = IF c = b THEN f ELSE L[c]
  BY DEF Ledger
<1>2. \A c \in Block : Advance(L[c], L[c]) BY DEF Ledger, Advance, Kept
<1>3. \A c \in Block : Advance(L[c], M[c]) BY <1>1, <1>2
<1> HIDE DEF M
<1>4. Follows(L, M) BY <1>1, <1>3, PointwiseFollows
<1> QED BY <1>1, <1>4 DEF M

LEMMA SealNewFollows ==
    ASSUME NEW L \in Ledger, NEW b \in Block, NEW s \in Strategy,
           L[b] = Absent, LaneIsFree(L)
    PROVE  /\ Follows(L, SealNew(L, b, s))
           /\ \A c \in Block : StillApplies(L, SealNew(L, b, s), c)
<1> DEFINE M == SealNew(L, b, s)
           e == [st |-> "sealed", job |-> "pending", strat |-> s, com |-> FALSE]
<1>1. e \in Entry BY DEF Entry, Record, Coherent, BlockState, JobState
<1>2. \A c \in Block : M[c] = IF c = b THEN e ELSE L[c] BY DEF SealNew, Ledger
<1>3. M \in Ledger BY <1>1 DEF SealNew, Ledger
<1> HIDE DEF M
<1>4. \A c \in Block : ~Open(L[c]) BY DEF LaneIsFree, OpenBlocks
<1>5. \A c \in OpenBlocks(M) : c = b BY <1>2, <1>4 DEF OpenBlocks
<1>6. ASSUME NEW c \in Block PROVE Kept(L[c], M[c])
  <2>1. c = b => L[c].st = "absent" /\ L[c].job = "absent" BY DEF Absent
  <2> QED BY <1>2, <2>1 DEF Kept, Doubted, Claimed, TerminalBlock
<1>7. \A c \in Block : StillApplies(L, M, c)
  BY <1>2 DEF StillApplies, Applies, Absent, Settled
<1>8. AtMostOneOpen(M) BY <1>5 DEF AtMostOneOpen
<1>9. OnePhaseOn(L, M)
  <2>1. OpenBlocks(L) = {} /\ L[b].st = "absent" /\ e.st = "sealed"
    BY DEF LaneIsFree, Absent
  <2>2. PhaseOf(L[b]) = "none" /\ PhaseOf(e) = "planned" BY ONLY <2>1, PhaseCases
  <2> HIDE DEF e
  <2> QED BY <1>2, <2>1, <2>2 DEF OnePhaseOn
<1> QED BY <1>3, <1>6, <1>7, <1>8, <1>9 DEF Follows, M

LEMMA BeginCommitFollows ==
    ASSUME NEW L \in Ledger, NEW b \in Block, CanCommit(L, b)
    PROVE  /\ Follows(L, BeginCommit(L, b))
           /\ \A c \in Block : StillApplies(L, BeginCommit(L, b), c)
           /\ BeginCommit(L, b)[b].st = "committing"
<1> DEFINE f == Moved(L[b], "committing", "dispatching", FALSE)
<1>1. L[b] \in Entry BY DEF Ledger
<1>2. Advance(L[b], f)
  BY <1>1 DEF CanCommit, Advance, Moved, Entry, Absent, Record, Coherent,
              BlockState, JobState, Kept, Doubted, Claimed, TerminalBlock, Open
<1>3. f.st = "committing" BY DEF Moved
<1>4. BeginCommit(L, b) = [L EXCEPT ![b] = f] BY DEF BeginCommit, Put
<1> HIDE DEF f
<1>5. /\ Follows(L, [L EXCEPT ![b] = f])
      /\ \A c \in Block : [L EXCEPT ![b] = f][c] = IF c = b THEN f ELSE L[c]
  BY <1>2, PutFollows
<1> QED BY <1>3, <1>4, <1>5 DEF StillApplies, Applies

LEMMA AcceptFollows ==
    ASSUME NEW L \in Ledger, NEW b \in Block, L[b].st = "committing"
    PROVE  /\ Follows(L, Accept(L, b))
           /\ \A c \in Block \ {b} : StillApplies(L, Accept(L, b), c)
<1> DEFINE f == Moved(L[b], "committed", "accepted", TRUE)
<1>1. L[b] \in Entry BY DEF Ledger
<1>2. Advance(L[b], f)
  BY <1>1 DEF Advance, Moved, Entry, Absent, Record, Coherent,
              BlockState, JobState, Kept, Doubted, Claimed, TerminalBlock, Open
<1>3. Accept(L, b) = [L EXCEPT ![b] = f] BY DEF Accept, Put
<1> HIDE DEF f
<1>4. /\ Follows(L, [L EXCEPT ![b] = f])
      /\ \A c \in Block : [L EXCEPT ![b] = f][c] = IF c = b THEN f ELSE L[c]
  BY <1>2, PutFollows
<1> QED BY <1>3, <1>4 DEF StillApplies

LEMMA QuarantineFollows ==
    ASSUME NEW L \in Ledger, NEW b \in Block, CanQuarantine(L, b)
    PROVE  /\ Follows(L, QuarantineDispatch(L, b))
           /\ \A c \in Block : StillApplies(L, QuarantineDispatch(L, b), c)
<1>1. L[b] \in Entry BY DEF Ledger
<1>2. Advance(L[b], Moved(L[b], "uncertain", "uncertain", L[b].com))
  BY <1>1 DEF CanQuarantine, Advance, Moved, Entry, Absent, Record, Coherent,
              BlockState, JobState, Kept, Doubted, Claimed, TerminalBlock, Open
<1> QED BY <1>2, PutFollows
        DEF QuarantineDispatch, Put, StillApplies, Applies, Settled, Moved

LEMMA CancelFollows ==
    ASSUME NEW L \in Ledger, NEW b \in Block, CanCancel(L, b)
    PROVE  /\ Follows(L, Cancel(L, b))
           /\ \A c \in Block : StillApplies(L, Cancel(L, b), c)
<1>1. L[b] \in Entry BY DEF Ledger
<1>2. Advance(L[b], Moved(L[b], "cancelled", "cancelled", L[b].com))
  BY <1>1 DEF CanCancel, Advance, Moved, Entry, Absent, Record, Coherent,
              BlockState, JobState, Kept, Doubted, Claimed, TerminalBlock, Open
<1>3. ~Applies(L[b]) BY DEF CanCancel, Applies, Settled
<1> QED BY <1>2, <1>3, PutFollows DEF Cancel, Put, StillApplies

LEMMA ResolveFollows ==
    ASSUME NEW L \in Ledger, NEW b \in Block, CanResolve(L, b)
    PROVE  /\ Follows(L, Resolve(L, b))
           /\ \A c \in Block : StillApplies(L, Resolve(L, b), c)
<1>1. L[b] \in Entry BY DEF Ledger
<1>2. Advance(L[b], Moved(L[b], ResolvedState(L[b]), "failed", L[b].com))
  BY <1>1 DEF CanResolve, ResolvedState, Advance, Moved, Entry, Absent, Record,
              Coherent, BlockState, JobState, Kept, Doubted, Claimed, TerminalBlock, Open
<1>3. ResolvedState(L[b]) \in Settled \cup {"committing"} BY DEF ResolvedState, Settled
<1> QED BY <1>2, <1>3, PutFollows DEF Resolve, Put, StillApplies, Applies, Moved

\* An observation advances every entry, whatever it reports.
LEMMA ApplyEntryAdvances ==
    ASSUME NEW o, o.kind \in Outcome, o.fresh \in BOOLEAN, NEW e \in Entry
    PROVE  LET f == ApplyEntry(o, e)
           IN Advance(e, f) /\ (Applies(e) => Applies(f))
<1>1. ApplyEntry(o, e) \in {ApplyRunning(e, o.fresh), ApplyCompleted(e, o.fresh),
                            ApplyFailed(e, o.fresh), ApplyUncertain(e, o.fresh)}
  <2>1. CASE o.kind = "running" BY <2>1, Zenon DEF ApplyEntry
  <2>2. CASE o.kind = "completed" BY <2>2, Zenon DEF ApplyEntry
  <2>3. CASE o.kind = "failed" BY <2>3, Zenon DEF ApplyEntry
  <2>4. CASE o.kind = "uncertain" BY <2>4, Zenon DEF ApplyEntry
  <2> QED BY <2>1, <2>2, <2>3, <2>4 DEF Outcome
<1> USE DEF Advance, Moved, Entry, Absent, Record, Coherent, BlockState, JobState,
            Kept, Doubted, Claimed, TerminalBlock, Open, Applies, Settled,
            Dispatching, Reported
<1>2. LET f == ApplyRunning(e, o.fresh)
      IN Advance(e, f) /\ (Applies(e) => Applies(f)) BY DEF ApplyRunning
<1>3. LET f == ApplyCompleted(e, o.fresh)
      IN Advance(e, f) /\ (Applies(e) => Applies(f)) BY DEF ApplyCompleted
<1>4. LET f == ApplyFailed(e, o.fresh)
      IN Advance(e, f) /\ (Applies(e) => Applies(f)) BY DEF ApplyFailed
<1>5. LET f == ApplyUncertain(e, o.fresh)
      IN Advance(e, f) /\ (Applies(e) => Applies(f)) BY DEF ApplyUncertain
<1> QED BY ONLY <1>1, <1>2, <1>3, <1>4, <1>5

LEMMA ApplyFollows ==
    ASSUME NEW o, o.kind \in Outcome, o.fresh \in BOOLEAN, NEW L \in Ledger
    PROVE  /\ Follows(L, Apply(o, L))
           /\ \A c \in Block : StillApplies(L, Apply(o, L), c)
<1>1. \A c \in Block : L[c] \in Entry BY DEF Ledger
<1>2. \A c \in Block : Apply(o, L)[c] = ApplyEntry(o, L[c]) BY DEF Apply
<1>3. \A c \in Block : /\ Advance(L[c], Apply(o, L)[c])
                       /\ Applies(L[c]) => Applies(Apply(o, L)[c])
  BY <1>1, <1>2, ApplyEntryAdvances
<1>4. Apply(o, L) = [c \in Block |-> Apply(o, L)[c]] BY <1>2 DEF Apply
<1> QED BY <1>3, <1>4, PointwiseFollows DEF StillApplies

\* Recovery after a restart.
LEMMA RecoverFollows ==
    ASSUME NEW L \in Ledger
    PROVE  Follows(L, Recover(L))
<1>1. \A c \in Block : L[c] \in Entry BY DEF Ledger
<1>2. \A e \in Entry : Advance(e, RecoverEntry(e))
  BY DEF RecoverEntry, ActiveBlock, ActiveJob, Advance, Moved, Entry, Absent,
         Record, Coherent, BlockState, JobState, Kept, Doubted, Claimed, TerminalBlock, Open
<1>3. \A c \in Block : Recover(L)[c] = RecoverEntry(L[c]) BY DEF Recover
<1>4. Recover(L) = [c \in Block |-> Recover(L)[c]] BY <1>3 DEF Recover
<1> QED BY <1>1, <1>2, <1>3, <1>4, PointwiseFollows

-----------------------------------------------------------------------------
(* RuntimeInv *)

LEMMA NobodyTyped ==
    /\ Nobody \in [by : Caller \cup {"nobody", "operator", "observer"},
                   next : Ledger, durable : BOOLEAN, cur : BOOLEAN]
    /\ Nobody.by = "nobody"
BY DEF Nobody, EmptyLedger, Ledger, Entry

\* Marking the waiting observations as stale keeps them observations.
LEMMA StaleObservations ==
    ASSUME obs \in Seq(Observation)
    PROVE  [i \in DOMAIN obs |-> [obs[i] EXCEPT !.fresh = FALSE]] \in Seq(Observation)
<1> DEFINE O(i) == [obs[i] EXCEPT !.fresh = FALSE]
<1>1. DOMAIN obs = 1..Len(obs) /\ Len(obs) \in Nat BY LenProperties
<1>2. \A i \in 1..Len(obs) : obs[i] \in Observation BY ElementOfSeq
<1>3. \A i \in 1..Len(obs) : O(i) \in Observation BY <1>2 DEF Observation
<1> HIDE DEF O
<1>4. [i \in 1..Len(obs) |-> O(i)] \in Seq(Observation) BY <1>1, <1>3, IsASeq
<1> QED BY <1>1, <1>4 DEF O

LEMMA HandlerKeepsRuntimeInv ==
    ASSUME RuntimeInv, NEW p \in Caller, Handler(p)
    PROVE  RuntimeInv'
<1> USE CallerAssumption, NobodyTyped
<1> USE DEF RuntimeInv, TypeOK, Saving, Dispatched, LockFree, LockOwner, WorksOnBlock,
            callVars, rtVars
<1>1. CASE StartSeals(p)
  <2>a. PICK b \in Block :
          /\ Fresh(b) /\ Enter(p, "sealing", b)
          /\ BeginSave(p, SealNew(mem, b, IF dry THEN "planner_sequential" ELSE "native_batch"))
    BY <1>1 DEF StartSeals
  <2> DEFINE N == SealNew(mem, b, IF dry THEN "planner_sequential" ELSE "native_batch")
  <2>0. N \in Ledger /\ \A c \in Block : StillApplies(mem, N, c)
    BY <1>1, <2>a, SealNewFollows DEF StartSeals, Fresh, Follows, Strategy
  <2>b. /\ pc[p] = "idle" /\ up = "up" /\ cmd.by = "nobody"
        /\ Enter(p, "sealing", b) /\ BeginSave(p, N)
        /\ UNCHANGED <<mem, disk, stale, rtVars, obs, calls>>
    BY <1>1, <2>a DEF StartSeals, CanStart
  <2> HIDE DEF N
  <2> USE <2>0, <2>b DEF BeginSave, Enter
  <2>1. TypeOK'
    BY DEF PC
  <2>2. CurrentIsUp' /\ LockOwner' /\ DownIsQuiet' /\ WorksOnBlock' /\ ClaimIsSaved'
    BY DEF CurrentIsUp, DownIsQuiet, ClaimIsSaved
  <2>3. ResultApplies'
    BY DEF StillApplies, ResultApplies, CurrentIsExclusive, ClaimIsSaved
  <2>4. CurrentIsExclusive'
    BY DEF ResultApplies, CurrentIsExclusive, ClaimIsSaved
  <2> QED BY <2>1, <2>2, <2>3, <2>4
<1>2. CASE StartCancelsDryRun(p)
  <2> PICK b \in Block : /\ CanCancel(mem, b)
                         /\ BeginSave(p, Cancel(mem, b)) /\ Enter(p, "cancelling", b)
    BY <1>2 DEF StartCancelsDryRun
  <2>0. Cancel(mem, b) \in Ledger /\ \A c \in Block : StillApplies(mem, Cancel(mem, b), c)
    BY CancelFollows DEF Follows, RuntimeInv, TypeOK
  <2> USE <1>2, <2>0 DEF StartCancelsDryRun, CanStart, BeginSave, Enter
  <2>1. TypeOK'
    BY DEF PC
  <2>2. CurrentIsUp' /\ LockOwner' /\ DownIsQuiet' /\ WorksOnBlock' /\ ClaimIsSaved'
    BY DEF CurrentIsUp, DownIsQuiet, ClaimIsSaved
  <2>3. ResultApplies'
    BY DEF StillApplies, ResultApplies, CurrentIsExclusive, ClaimIsSaved
  <2>4. CurrentIsExclusive'
    BY DEF ResultApplies, CurrentIsExclusive, ClaimIsSaved
  <2> QED BY <2>1, <2>2, <2>3, <2>4
<1>3. CASE StartFindsExisting(p)
  <2> USE <1>3 DEF StartFindsExisting, CanStart, Enter, OpenBlocks
  <2>1. TypeOK'
    BY DEF PC
  <2>2. CurrentIsUp' /\ LockOwner' /\ DownIsQuiet' /\ WorksOnBlock' /\ ClaimIsSaved'
    BY DEF CurrentIsUp, DownIsQuiet, ClaimIsSaved
  <2>3. ResultApplies'
    BY DEF StillApplies, ResultApplies, CurrentIsExclusive, ClaimIsSaved
  <2>4. CurrentIsExclusive'
    BY DEF ResultApplies, CurrentIsExclusive, ClaimIsSaved
  <2> QED BY <2>1, <2>2, <2>3, <2>4
<1>4. CASE SealDone(p)
  <2>1. CASE dry
    <3>0. /\ pc[p] = "sealing" /\ cmd.by = p /\ mem' = cmd.next /\ cmd' = Nobody
          /\ Return(p)
          /\ UNCHANGED <<disk, stale, rtVars, obs, calls>>
    BY <1>4, <2>1 DEF SealDone, Saved, CommandGuard, Publish, Return, Goto
    <3> USE <3>0 DEF Return, Goto, SendCleanArea
    <3>1. TypeOK'
      BY DEF PC
    <3>2. CurrentIsUp' /\ LockOwner' /\ DownIsQuiet' /\ WorksOnBlock' /\ ClaimIsSaved'
      BY DEF CurrentIsUp, DownIsQuiet, ClaimIsSaved
    <3>3. ResultApplies'
      BY DEF StillApplies, ResultApplies, CurrentIsExclusive, ClaimIsSaved
    <3>4. CurrentIsExclusive'
      BY DEF ResultApplies, CurrentIsExclusive, ClaimIsSaved
    <3> QED BY <3>1, <3>2, <3>3, <3>4
  <2>2. CASE ~dry
    <3>0. /\ pc[p] = "sealing" /\ cmd.by = p /\ mem' = cmd.next /\ cmd' = Nobody
          /\ Goto(p, "claim")
          /\ UNCHANGED <<disk, stale, rtVars, obs, calls>>
    BY <1>4, <2>2 DEF SealDone, Saved, CommandGuard, Publish, Return, Goto
    <3> USE <3>0 DEF Return, Goto, SendCleanArea
    <3>1. TypeOK'
      BY DEF PC
    <3>2. CurrentIsUp' /\ LockOwner' /\ DownIsQuiet' /\ WorksOnBlock' /\ ClaimIsSaved'
      BY DEF CurrentIsUp, DownIsQuiet, ClaimIsSaved
    <3>3. ResultApplies'
      BY DEF StillApplies, ResultApplies, CurrentIsExclusive, ClaimIsSaved
    <3>4. CurrentIsExclusive'
      BY DEF ResultApplies, CurrentIsExclusive, ClaimIsSaved
    <3> QED BY <3>1, <3>2, <3>3, <3>4
  <2> QED BY <2>1, <2>2, <1>4 DEF SealDone, CommandGuard
<1>5. CASE CancelDryRunDone(p)
  <2> USE <1>5 DEF CancelDryRunDone, Saved, CommandGuard, Publish, Return
  <2>1. TypeOK'
    BY DEF PC
  <2>2. CurrentIsUp' /\ LockOwner' /\ DownIsQuiet' /\ WorksOnBlock' /\ ClaimIsSaved'
    BY DEF CurrentIsUp, DownIsQuiet, ClaimIsSaved
  <2>3. ResultApplies'
    BY DEF StillApplies, ResultApplies, CurrentIsExclusive, ClaimIsSaved
  <2>4. CurrentIsExclusive'
    BY DEF ResultApplies, CurrentIsExclusive, ClaimIsSaved
  <2> QED BY <2>1, <2>2, <2>3, <2>4
<1>6. CASE SaveRefused(p)
  <2> USE <1>6 DEF SaveRefused, Saved, CommandGuard, Discard, Return
  <2>1. TypeOK'
    BY DEF PC
  <2>2. CurrentIsUp' /\ LockOwner' /\ DownIsQuiet' /\ WorksOnBlock' /\ ClaimIsSaved'
    BY DEF CurrentIsUp, DownIsQuiet, ClaimIsSaved
  <2>3. ResultApplies'
    BY DEF StillApplies, ResultApplies, CurrentIsExclusive, ClaimIsSaved
  <2>4. CurrentIsExclusive'
    BY DEF ResultApplies, CurrentIsExclusive, ClaimIsSaved
  <2> QED BY <2>1, <2>2, <2>3, <2>4
<1>7. CASE PreflightFails(p)
  <2> USE <1>7 DEF PreflightFails, Return
  <2>1. TypeOK'
    BY DEF PC
  <2>2. CurrentIsUp' /\ LockOwner' /\ DownIsQuiet' /\ WorksOnBlock' /\ ClaimIsSaved'
    BY DEF CurrentIsUp, DownIsQuiet, ClaimIsSaved
  <2>3. ResultApplies'
    BY DEF StillApplies, ResultApplies, CurrentIsExclusive, ClaimIsSaved
  <2>4. CurrentIsExclusive'
    BY DEF ResultApplies, CurrentIsExclusive, ClaimIsSaved
  <2> QED BY <2>1, <2>2, <2>3, <2>4
<1>8. CASE SelectorLost(p)
  <2>0. <<>> \in Seq(Observation) BY EmptySeq
  <2> USE <1>8, <2>0 DEF SelectorLost, CanStart, CommandGuard, Return
  <2>1. TypeOK'
    BY DEF PC
  <2>2. CurrentIsUp' /\ LockOwner' /\ DownIsQuiet' /\ WorksOnBlock' /\ ClaimIsSaved'
    BY DEF CurrentIsUp, DownIsQuiet, ClaimIsSaved
  <2>3. ResultApplies'
    BY DEF StillApplies, ResultApplies, CurrentIsExclusive, ClaimIsSaved
  <2>4. CurrentIsExclusive'
    BY DEF ResultApplies, CurrentIsExclusive, ClaimIsSaved
  <2> QED BY <2>1, <2>2, <2>3, <2>4
<1>9. CASE Claim(p)
  <2>a. blk[p] \in Block BY <1>9 DEF Claim, RuntimeInv, WorksOnBlock
  <2>b. [i \in DOMAIN obs |-> [obs[i] EXCEPT !.fresh = FALSE]] \in Seq(Observation)
    BY StaleObservations
  <2>0. LET N == BeginCommit(mem, blk[p])
        IN N \in Ledger /\ N[blk[p]].st = "committing" /\ \A c \in Block : StillApplies(mem, N, c)
    BY <1>9, <2>a, BeginCommitFollows DEF Claim, Follows, RuntimeInv, TypeOK
  <2> USE <1>9, <2>0 DEF Claim, CommandGuard, BeginSave, Goto, CanCommit, Applies,
     Settled
  <2> USE <2>b
  <2>1. TypeOK'
    BY DEF PC
  <2>2. CurrentIsUp' /\ LockOwner' /\ DownIsQuiet' /\ WorksOnBlock' /\ ClaimIsSaved'
    BY DEF CurrentIsUp, DownIsQuiet, ClaimIsSaved
  <2>3. ResultApplies'
    BY DEF StillApplies, ResultApplies, CurrentIsExclusive, ClaimIsSaved
  <2>4. CurrentIsExclusive'
    BY DEF ResultApplies, CurrentIsExclusive, ClaimIsSaved
  <2> QED BY <2>1, <2>2, <2>3, <2>4
<1>10. CASE ClaimLost(p)
  <2> USE <1>10 DEF ClaimLost, Return
  <2>1. TypeOK'
    BY DEF PC
  <2>2. CurrentIsUp' /\ LockOwner' /\ DownIsQuiet' /\ WorksOnBlock' /\ ClaimIsSaved'
    BY DEF CurrentIsUp, DownIsQuiet, ClaimIsSaved
  <2>3. ResultApplies'
    BY DEF StillApplies, ResultApplies, CurrentIsExclusive, ClaimIsSaved
  <2>4. CurrentIsExclusive'
    BY DEF ResultApplies, CurrentIsExclusive, ClaimIsSaved
  <2> QED BY <2>1, <2>2, <2>3, <2>4
<1>11. CASE ClaimDone(p)
  <2>0. \A q \in Caller : pc[q] \in Dispatched /\ cur[q] => blk[q] # blk[p]
    BY <1>11 DEF ClaimDone, ClaimIsSaved, ResultApplies, Applies, Settled
  <2>1. CASE Goto(p, "selecting") /\ UNCHANGED calls
    <3>0. /\ pc[p] = "claiming" /\ cmd.by = p /\ mem' = cmd.next /\ cmd' = Nobody
          /\ Goto(p, "selecting")
          /\ UNCHANGED <<disk, stale, rtVars, obs, calls>>
    BY <1>11, <2>1 DEF ClaimDone, Saved, CommandGuard, Publish, Goto, SendCleanArea,
            Applies, Settled
    <3> USE <3>0, <2>0 DEF Return, Goto, SendCleanArea, Applies
    <3>1. TypeOK'
      BY DEF PC
    <3>2. CurrentIsUp' /\ LockOwner' /\ DownIsQuiet' /\ WorksOnBlock' /\ ClaimIsSaved'
      BY DEF CurrentIsUp, DownIsQuiet, ClaimIsSaved
    <3>3. ResultApplies'
      BY DEF StillApplies, ResultApplies, CurrentIsExclusive, ClaimIsSaved
    <3>4. CurrentIsExclusive'
      BY DEF ResultApplies, CurrentIsExclusive, ClaimIsSaved
    <3> QED BY <3>1, <3>2, <3>3, <3>4
  <2>2. CASE Goto(p, "calling") /\ SendCleanArea(p)
    <3>0. /\ pc[p] = "claiming" /\ cmd.by = p /\ mem' = cmd.next /\ cmd' = Nobody
          /\ Goto(p, "calling") /\ SendCleanArea(p)
          /\ UNCHANGED <<disk, stale, rtVars, obs>>
    BY <1>11, <2>2 DEF ClaimDone, Saved, CommandGuard, Publish, Goto, SendCleanArea,
            Applies, Settled
    <3> USE <3>0, <2>0 DEF Return, Goto, SendCleanArea, Applies
    <3>1. TypeOK'
      BY DEF PC
    <3>2. CurrentIsUp' /\ LockOwner' /\ DownIsQuiet' /\ WorksOnBlock' /\ ClaimIsSaved'
      BY DEF CurrentIsUp, DownIsQuiet, ClaimIsSaved
    <3>3. ResultApplies'
      BY DEF StillApplies, ResultApplies, CurrentIsExclusive, ClaimIsSaved
    <3>4. CurrentIsExclusive'
      BY DEF ResultApplies, CurrentIsExclusive, ClaimIsSaved
    <3> QED BY <3>1, <3>2, <3>3, <3>4
  <2> QED BY <2>1, <2>2, <1>11 DEF ClaimDone, CommandGuard
<1>12. CASE SelectReturns(p)
  <2>1. CASE CommandGuard(p)
    <3>0. /\ pc[p] = "selecting"
          /\ Goto(p, "calling") /\ SendCleanArea(p)
          /\ UNCHANGED <<mem, disk, cmd, stale, rtVars, obs>>
    BY <1>12, <2>1 DEF SelectReturns, CommandGuard, Goto, Ambiguous, RuntimeGuard,
            Return, SendCleanArea
    <3> USE <3>0 DEF Return, Goto, SendCleanArea
    <3>1. TypeOK'
      BY DEF PC
    <3>2. CurrentIsUp' /\ LockOwner' /\ DownIsQuiet' /\ WorksOnBlock' /\ ClaimIsSaved'
      BY DEF CurrentIsUp, DownIsQuiet, ClaimIsSaved
    <3>3. ResultApplies'
      BY DEF StillApplies, ResultApplies, CurrentIsExclusive, ClaimIsSaved
    <3>4. CurrentIsExclusive'
      BY DEF ResultApplies, CurrentIsExclusive, ClaimIsSaved
    <3> QED BY <3>1, <3>2, <3>3, <3>4
  <2>2. CASE ~CommandGuard(p) /\ cur[p]
    <3>0. /\ pc[p] = "selecting"
          /\ Goto(p, "quarantine") /\ UNCHANGED calls
          /\ UNCHANGED <<mem, disk, cmd, stale, rtVars, obs>>
    BY <1>12, <2>2 DEF SelectReturns, CommandGuard, Goto, Ambiguous, RuntimeGuard,
            Return, SendCleanArea
    <3> USE <3>0 DEF Return, Goto, SendCleanArea
    <3>1. TypeOK'
      BY DEF PC
    <3>2. CurrentIsUp' /\ LockOwner' /\ DownIsQuiet' /\ WorksOnBlock' /\ ClaimIsSaved'
      BY DEF CurrentIsUp, DownIsQuiet, ClaimIsSaved
    <3>3. ResultApplies'
      BY DEF StillApplies, ResultApplies, CurrentIsExclusive, ClaimIsSaved
    <3>4. CurrentIsExclusive'
      BY DEF ResultApplies, CurrentIsExclusive, ClaimIsSaved
    <3> QED BY <3>1, <3>2, <3>3, <3>4
  <2>3. CASE ~cur[p]
    <3>0. /\ pc[p] = "selecting"
          /\ Return(p) /\ UNCHANGED calls
          /\ UNCHANGED <<mem, disk, cmd, stale, rtVars, obs>>
    BY <1>12, <2>3 DEF SelectReturns, CommandGuard, Goto, Ambiguous, RuntimeGuard,
            Return, SendCleanArea
    <3> USE <3>0 DEF Return, Goto, SendCleanArea
    <3>1. TypeOK'
      BY DEF PC
    <3>2. CurrentIsUp' /\ LockOwner' /\ DownIsQuiet' /\ WorksOnBlock' /\ ClaimIsSaved'
      BY DEF CurrentIsUp, DownIsQuiet, ClaimIsSaved
    <3>3. ResultApplies'
      BY DEF StillApplies, ResultApplies, CurrentIsExclusive, ClaimIsSaved
    <3>4. CurrentIsExclusive'
      BY DEF ResultApplies, CurrentIsExclusive, ClaimIsSaved
    <3> QED BY <3>1, <3>2, <3>3, <3>4
  <2> QED BY <2>1, <2>2, <2>3, <1>12 DEF SelectReturns, CommandGuard
<1>13. CASE CallReturns(p)
  <2> USE <1>13 DEF CallReturns, Goto
  <2>1. TypeOK'
    BY DEF PC
  <2>2. CurrentIsUp' /\ LockOwner' /\ DownIsQuiet' /\ WorksOnBlock' /\ ClaimIsSaved'
    BY DEF CurrentIsUp, DownIsQuiet, ClaimIsSaved
  <2>3. ResultApplies'
    BY DEF StillApplies, ResultApplies, CurrentIsExclusive, ClaimIsSaved
  <2>4. CurrentIsExclusive'
    BY DEF ResultApplies, CurrentIsExclusive, ClaimIsSaved
  <2> QED BY <2>1, <2>2, <2>3, <2>4
<1>14. CASE CallFails(p)
  <2> USE <1>14 DEF CallFails, Goto
  <2>1. TypeOK'
    BY DEF PC
  <2>2. CurrentIsUp' /\ LockOwner' /\ DownIsQuiet' /\ WorksOnBlock' /\ ClaimIsSaved'
    BY DEF CurrentIsUp, DownIsQuiet, ClaimIsSaved
  <2>3. ResultApplies'
    BY DEF StillApplies, ResultApplies, CurrentIsExclusive, ClaimIsSaved
  <2>4. CurrentIsExclusive'
    BY DEF ResultApplies, CurrentIsExclusive, ClaimIsSaved
  <2> QED BY <2>1, <2>2, <2>3, <2>4
<1>15. CASE AcceptBegins(p)
  <2>a. blk[p] \in Block BY <1>15 DEF AcceptBegins, RuntimeInv, WorksOnBlock
  <2>b. mem[blk[p]].st = "committing"
    BY <1>15 DEF AcceptBegins, RuntimeInv, ResultApplies, Applies, CommandGuard, Dispatched
  <2>0. LET N == Accept(mem, blk[p])
        IN N \in Ledger /\ \A c \in Block \ {blk[p]} : StillApplies(mem, N, c)
    BY <2>a, <2>b, AcceptFollows DEF Follows, RuntimeInv, TypeOK
  <2> USE <1>15, <2>0 DEF AcceptBegins, CommandGuard, BeginSave, Goto
  <2>1. TypeOK'
    BY DEF PC
  <2>2. CurrentIsUp' /\ LockOwner' /\ DownIsQuiet' /\ WorksOnBlock' /\ ClaimIsSaved'
    BY DEF CurrentIsUp, DownIsQuiet, ClaimIsSaved
  <2>3. ResultApplies'
    BY DEF StillApplies, ResultApplies, CurrentIsExclusive, ClaimIsSaved
  <2>4. CurrentIsExclusive'
    BY DEF ResultApplies, CurrentIsExclusive, ClaimIsSaved
  <2> QED BY <2>1, <2>2, <2>3, <2>4
<1>16. CASE AcceptSkipped(p)
  <2>1. CASE ~CommandGuard(p) /\ cur[p]
    <3>0. /\ pc[p] = "accept" /\ cmd.by = "nobody"
          /\ Goto(p, "quarantine") /\ UNCHANGED calls
          /\ UNCHANGED <<mem, disk, cmd, stale, rtVars, obs>>
    BY <1>16, <2>1 DEF AcceptSkipped, CommandGuard, Ambiguous, RuntimeGuard, Return, Goto
    <3> USE <3>0 DEF Return, Goto, SendCleanArea
    <3>1. TypeOK'
      BY DEF PC
    <3>2. CurrentIsUp' /\ LockOwner' /\ DownIsQuiet' /\ WorksOnBlock' /\ ClaimIsSaved'
      BY DEF CurrentIsUp, DownIsQuiet, ClaimIsSaved
    <3>3. ResultApplies'
      BY DEF StillApplies, ResultApplies, CurrentIsExclusive, ClaimIsSaved
    <3>4. CurrentIsExclusive'
      BY DEF ResultApplies, CurrentIsExclusive, ClaimIsSaved
    <3> QED BY <3>1, <3>2, <3>3, <3>4
  <2>2. CASE CommandGuard(p) \/ ~cur[p]
    <3>0. /\ pc[p] = "accept" /\ cmd.by = "nobody"
          /\ Return(p) /\ UNCHANGED calls
          /\ UNCHANGED <<mem, disk, cmd, stale, rtVars, obs>>
    BY <1>16, <2>2 DEF AcceptSkipped, CommandGuard, Ambiguous, RuntimeGuard, Return, Goto
    <3> USE <3>0 DEF Return, Goto, SendCleanArea
    <3>1. TypeOK'
      BY DEF PC
    <3>2. CurrentIsUp' /\ LockOwner' /\ DownIsQuiet' /\ WorksOnBlock' /\ ClaimIsSaved'
      BY DEF CurrentIsUp, DownIsQuiet, ClaimIsSaved
    <3>3. ResultApplies'
      BY DEF StillApplies, ResultApplies, CurrentIsExclusive, ClaimIsSaved
    <3>4. CurrentIsExclusive'
      BY DEF ResultApplies, CurrentIsExclusive, ClaimIsSaved
    <3> QED BY <3>1, <3>2, <3>3, <3>4
  <2> QED BY <2>1, <2>2, <1>16 DEF AcceptSkipped, CommandGuard
<1>17. CASE AcceptDone(p)
  <2>1. CASE CommandGuard(p)
    <3>0. /\ pc[p] = "accepting" /\ cmd.by = p /\ mem' = cmd.next /\ cmd' = Nobody
          /\ Return(p)
          /\ UNCHANGED <<disk, stale, rtVars, obs, calls>>
    BY <1>17, <2>1 DEF AcceptDone, Saved, CommandGuard, Publish, Discard, Ambiguous,
            RuntimeGuard, Return, Goto
    <3> USE <3>0 DEF Return, Goto, SendCleanArea
    <3>1. TypeOK'
      BY DEF PC
    <3>2. CurrentIsUp' /\ LockOwner' /\ DownIsQuiet' /\ WorksOnBlock' /\ ClaimIsSaved'
      BY DEF CurrentIsUp, DownIsQuiet, ClaimIsSaved
    <3>3. ResultApplies'
      BY DEF StillApplies, ResultApplies, CurrentIsExclusive, ClaimIsSaved
    <3>4. CurrentIsExclusive'
      BY DEF ResultApplies, CurrentIsExclusive, ClaimIsSaved
    <3> QED BY <3>1, <3>2, <3>3, <3>4
  <2>2. CASE ~CommandGuard(p) /\ cur[p]
    <3>0. /\ pc[p] = "accepting" /\ cmd.by = p /\ mem' = mem /\ cmd' = Nobody
          /\ Goto(p, "quarantine")
          /\ UNCHANGED <<disk, stale, rtVars, obs, calls>>
    BY <1>17, <2>2 DEF AcceptDone, Saved, CommandGuard, Publish, Discard, Ambiguous,
            RuntimeGuard, Return, Goto
    <3> USE <3>0 DEF Return, Goto, SendCleanArea
    <3>1. TypeOK'
      BY DEF PC
    <3>2. CurrentIsUp' /\ LockOwner' /\ DownIsQuiet' /\ WorksOnBlock' /\ ClaimIsSaved'
      BY DEF CurrentIsUp, DownIsQuiet, ClaimIsSaved
    <3>3. ResultApplies'
      BY DEF StillApplies, ResultApplies, CurrentIsExclusive, ClaimIsSaved
    <3>4. CurrentIsExclusive'
      BY DEF ResultApplies, CurrentIsExclusive, ClaimIsSaved
    <3> QED BY <3>1, <3>2, <3>3, <3>4
  <2>3. CASE ~cur[p]
    <3>0. /\ pc[p] = "accepting" /\ cmd.by = p /\ mem' = mem /\ cmd' = Nobody
          /\ Return(p)
          /\ UNCHANGED <<disk, stale, rtVars, obs, calls>>
    BY <1>17, <2>3 DEF AcceptDone, Saved, CommandGuard, Publish, Discard, Ambiguous,
            RuntimeGuard, Return, Goto
    <3> USE <3>0 DEF Return, Goto, SendCleanArea
    <3>1. TypeOK'
      BY DEF PC
    <3>2. CurrentIsUp' /\ LockOwner' /\ DownIsQuiet' /\ WorksOnBlock' /\ ClaimIsSaved'
      BY DEF CurrentIsUp, DownIsQuiet, ClaimIsSaved
    <3>3. ResultApplies'
      BY DEF StillApplies, ResultApplies, CurrentIsExclusive, ClaimIsSaved
    <3>4. CurrentIsExclusive'
      BY DEF ResultApplies, CurrentIsExclusive, ClaimIsSaved
    <3> QED BY <3>1, <3>2, <3>3, <3>4
  <2> QED BY <2>1, <2>2, <2>3, <1>17 DEF AcceptDone, CommandGuard
<1>18. CASE QuarantineBegins(p)
  <2>a. blk[p] \in Block BY <1>18 DEF QuarantineBegins, RuntimeInv, WorksOnBlock
  <2>0. LET N == QuarantineDispatch(mem, blk[p])
        IN N \in Ledger /\ \A c \in Block : StillApplies(mem, N, c)
    BY <1>18, <2>a, QuarantineFollows DEF QuarantineBegins, Follows, RuntimeInv, TypeOK
  <2> USE <1>18, <2>0 DEF QuarantineBegins, RuntimeGuard, BeginSave, Goto,
     CanQuarantine
  <2>1. TypeOK'
    BY DEF PC
  <2>2. CurrentIsUp' /\ LockOwner' /\ DownIsQuiet' /\ WorksOnBlock' /\ ClaimIsSaved'
    BY DEF CurrentIsUp, DownIsQuiet, ClaimIsSaved
  <2>3. ResultApplies'
    BY DEF StillApplies, ResultApplies, CurrentIsExclusive, ClaimIsSaved
  <2>4. CurrentIsExclusive'
    BY DEF ResultApplies, CurrentIsExclusive, ClaimIsSaved
  <2> QED BY <2>1, <2>2, <2>3, <2>4
<1>19. CASE QuarantineSkipped(p)
  <2> USE <1>19 DEF QuarantineSkipped, Return
  <2>1. TypeOK'
    BY DEF PC
  <2>2. CurrentIsUp' /\ LockOwner' /\ DownIsQuiet' /\ WorksOnBlock' /\ ClaimIsSaved'
    BY DEF CurrentIsUp, DownIsQuiet, ClaimIsSaved
  <2>3. ResultApplies'
    BY DEF StillApplies, ResultApplies, CurrentIsExclusive, ClaimIsSaved
  <2>4. CurrentIsExclusive'
    BY DEF ResultApplies, CurrentIsExclusive, ClaimIsSaved
  <2> QED BY <2>1, <2>2, <2>3, <2>4
<1>20. CASE QuarantineDone(p)
  <2> USE <1>20 DEF QuarantineDone, Saved, RuntimeGuard, Publish, Discard, Return
  <2>1. TypeOK'
    BY DEF PC
  <2>2. CurrentIsUp' /\ LockOwner' /\ DownIsQuiet' /\ WorksOnBlock' /\ ClaimIsSaved'
    BY DEF CurrentIsUp, DownIsQuiet, ClaimIsSaved
  <2>3. ResultApplies'
    BY DEF StillApplies, ResultApplies, CurrentIsExclusive, ClaimIsSaved
  <2>4. CurrentIsExclusive'
    BY DEF ResultApplies, CurrentIsExclusive, ClaimIsSaved
  <2> QED BY <2>1, <2>2, <2>3, <2>4
<1> QED BY <1>1, <1>2, <1>3, <1>4, <1>5, <1>6, <1>7, <1>8, <1>9, <1>10, <1>11,
   <1>12, <1>13, <1>14, <1>15, <1>16, <1>17, <1>18, <1>19, <1>20 DEF Handler

LEMMA OwedIsLedgers ==
    ASSUME TypeOK
    PROVE  Owed \in Seq(Ledger)
<1> DEFINE inFlight == IF LockFree \/ cmd.durable THEN <<>> ELSE <<cmd.next>>
           known == IF cmd.by = "observer" THEN cmd.next ELSE mem
           latched == Apply([kind |-> "uncertain", fresh |-> LatchIsFresh], known)
<1>1. known \in Ledger BY DEF TypeOK
<1>2. inFlight \in Seq(Ledger) BY EmptySeq DEF TypeOK
<1> DEFINE o == [kind |-> "uncertain", fresh |-> LatchIsFresh]
<1>a. o.kind \in Outcome /\ o.fresh \in BOOLEAN BY DEF Outcome, LatchIsFresh
<1>b. latched = Apply(o, known) OBVIOUS
<1> HIDE DEF o, latched, known
<1>3. latched \in Ledger BY <1>1, <1>a, <1>b, ApplyFollows DEF Follows
<1> USE DEF latched, known
<1>4. Owed = IF LatchPending /\ latched # known THEN Append(inFlight, latched) ELSE inFlight
  BY DEF Owed
<1> HIDE DEF inFlight, latched, known
<1> QED BY <1>2, <1>3, <1>4, AppendProperties

LEMMA RestKeepsRuntimeInv ==
    ASSUME RuntimeInv, WriteLands \/ SaveFails \/ Operator \/ Observer \/ Lifecycle
    PROVE  RuntimeInv'
<1> USE CallerAssumption, NobodyTyped
<1> USE DEF RuntimeInv, TypeOK, Saving, Dispatched, LockFree, LockOwner, WorksOnBlock,
            callVars, rtVars
<1>1. CASE WriteLands
  <2> USE <1>1 DEF WriteLands
  <2>1. TypeOK'
    BY DEF PC
  <2>2. CurrentIsUp' /\ LockOwner' /\ DownIsQuiet' /\ WorksOnBlock' /\ ClaimIsSaved'
    BY DEF CurrentIsUp, DownIsQuiet, ClaimIsSaved
  <2>3. ResultApplies'
    BY DEF StillApplies, ResultApplies, CurrentIsUp
  <2>4. CurrentIsExclusive'
    BY DEF CurrentIsExclusive
  <2> QED BY <2>1, <2>2, <2>3, <2>4
<1>2. CASE SaveFails
  <2>1. CASE cmd.by \in Caller /\ pc[cmd.by] = "accepting"
    <3>0. /\ cmd' = Nobody /\ Goto(cmd.by, "quarantine")
          /\ UNCHANGED <<mem, disk, stale, rtVars, obs, calls>>
    BY <1>2, <2>1 DEF SaveFails, Publish, Discard
    <3> USE <2>1, <3>0 DEF Return, Goto
    <3>1. TypeOK'
      BY DEF PC
    <3>2. CurrentIsUp' /\ LockOwner' /\ DownIsQuiet' /\ WorksOnBlock' /\ ClaimIsSaved'
      BY DEF CurrentIsUp, DownIsQuiet, ClaimIsSaved
    <3>3. ResultApplies'
      BY DEF StillApplies, ResultApplies, CurrentIsUp
    <3>4. CurrentIsExclusive'
      BY DEF CurrentIsExclusive
    <3> QED BY <3>1, <3>2, <3>3, <3>4
  <2>2. CASE cmd.by \in Caller /\ pc[cmd.by] # "accepting"
    <3>0. /\ cmd' = Nobody /\ Return(cmd.by)
          /\ UNCHANGED <<mem, disk, stale, rtVars, obs, calls>>
    BY <1>2, <2>2 DEF SaveFails, Publish, Discard
    <3> USE <2>2, <3>0 DEF Return, Goto
    <3>1. TypeOK'
      BY DEF PC
    <3>2. CurrentIsUp' /\ LockOwner' /\ DownIsQuiet' /\ WorksOnBlock' /\ ClaimIsSaved'
      BY DEF CurrentIsUp, DownIsQuiet, ClaimIsSaved
    <3>3. ResultApplies'
      BY DEF StillApplies, ResultApplies, CurrentIsUp
    <3>4. CurrentIsExclusive'
      BY DEF CurrentIsExclusive
    <3> QED BY <3>1, <3>2, <3>3, <3>4
  <2>3. CASE cmd.by \notin Caller
    <3>0. /\ cmd' = Nobody
          /\ UNCHANGED <<mem, disk, stale, callVars, rtVars, obs, calls>>
    BY <1>2, <2>3 DEF SaveFails, Publish, Discard
    <3> USE <2>3, <3>0 DEF Return, Goto
    <3>1. TypeOK'
      BY DEF PC
    <3>2. CurrentIsUp' /\ LockOwner' /\ DownIsQuiet' /\ WorksOnBlock' /\ ClaimIsSaved'
      BY DEF CurrentIsUp, DownIsQuiet, ClaimIsSaved
    <3>3. ResultApplies'
      BY DEF StillApplies, ResultApplies, CurrentIsUp
    <3>4. CurrentIsExclusive'
      BY DEF CurrentIsExclusive
    <3> QED BY <3>1, <3>2, <3>3, <3>4
  <2> QED BY <2>1, <2>2, <2>3
<1>3. CASE \E b \in Block : CancelBlock(b)
  <2>a. PICK b \in Block : CanCancel(mem, b) /\ OperatorBegins(Cancel(mem, b))
    BY <1>3 DEF CancelBlock
  <2>0. Cancel(mem, b) \in Ledger /\ \A c \in Block : StillApplies(mem, Cancel(mem, b), c)
    BY <2>a, CancelFollows DEF Follows
  <2> USE <2>a, <2>0 DEF OperatorBegins, BeginSave
  <2>1. TypeOK'
    BY DEF PC
  <2>2. CurrentIsUp' /\ LockOwner' /\ DownIsQuiet' /\ WorksOnBlock' /\ ClaimIsSaved'
    BY DEF CurrentIsUp, DownIsQuiet, ClaimIsSaved
  <2>3. ResultApplies'
    BY DEF StillApplies, ResultApplies, CurrentIsUp
  <2>4. CurrentIsExclusive'
    BY DEF CurrentIsExclusive
  <2> QED BY <2>1, <2>2, <2>3, <2>4
<1>4. CASE \E b \in Block : ResolveUncertainRun(b)
  <2>a. PICK b \in Block : CanResolve(mem, b) /\ OperatorBegins(Resolve(mem, b))
    BY <1>4 DEF ResolveUncertainRun
  <2>0. Resolve(mem, b) \in Ledger /\ \A c \in Block : StillApplies(mem, Resolve(mem, b), c)
    BY <2>a, ResolveFollows DEF Follows
  <2> USE <2>a, <2>0 DEF OperatorBegins, BeginSave
  <2>1. TypeOK'
    BY DEF PC
  <2>2. CurrentIsUp' /\ LockOwner' /\ DownIsQuiet' /\ WorksOnBlock' /\ ClaimIsSaved'
    BY DEF CurrentIsUp, DownIsQuiet, ClaimIsSaved
  <2>3. ResultApplies'
    BY DEF StillApplies, ResultApplies, CurrentIsUp
  <2>4. CurrentIsExclusive'
    BY DEF CurrentIsExclusive
  <2> QED BY <2>1, <2>2, <2>3, <2>4
<1>5. CASE EditPlan
  <2> USE <1>5 DEF EditPlan, OperatorBegins, BeginSave
  <2>1. TypeOK'
    BY DEF PC
  <2>2. CurrentIsUp' /\ LockOwner' /\ DownIsQuiet' /\ WorksOnBlock' /\ ClaimIsSaved'
    BY DEF CurrentIsUp, DownIsQuiet, ClaimIsSaved
  <2>3. ResultApplies'
    BY DEF StillApplies, ResultApplies, CurrentIsUp
  <2>4. CurrentIsExclusive'
    BY DEF CurrentIsExclusive
  <2> QED BY <2>1, <2>2, <2>3, <2>4
<1>6. CASE OperatorDone
  <2>1. CASE cmd.cur /\ topo
    <3>0. /\ mem' = cmd.next /\ cmd' = Nobody /\ cmd.by = "operator"
          /\ UNCHANGED <<disk, stale, callVars, rtVars, obs, calls>>
    BY <1>6, <2>1 DEF OperatorDone, Publish, Discard
    <3> USE <2>1, <3>0 DEF Return, Goto
    <3>1. TypeOK'
      BY DEF PC
    <3>2. CurrentIsUp' /\ LockOwner' /\ DownIsQuiet' /\ WorksOnBlock' /\ ClaimIsSaved'
      BY DEF CurrentIsUp, DownIsQuiet, ClaimIsSaved
    <3>3. ResultApplies'
      BY DEF StillApplies, ResultApplies, CurrentIsUp
    <3>4. CurrentIsExclusive'
      BY DEF CurrentIsExclusive
    <3> QED BY <3>1, <3>2, <3>3, <3>4
  <2>2. CASE ~(cmd.cur /\ topo)
    <3>0. /\ mem' = mem /\ cmd' = Nobody /\ cmd.by = "operator"
          /\ UNCHANGED <<disk, stale, callVars, rtVars, obs, calls>>
    BY <1>6, <2>2 DEF OperatorDone, Publish, Discard
    <3> USE <2>2, <3>0 DEF Return, Goto
    <3>1. TypeOK'
      BY DEF PC
    <3>2. CurrentIsUp' /\ LockOwner' /\ DownIsQuiet' /\ WorksOnBlock' /\ ClaimIsSaved'
      BY DEF CurrentIsUp, DownIsQuiet, ClaimIsSaved
    <3>3. ResultApplies'
      BY DEF StillApplies, ResultApplies, CurrentIsUp
    <3>4. CurrentIsExclusive'
      BY DEF CurrentIsExclusive
    <3> QED BY <3>1, <3>2, <3>3, <3>4
  <2> QED BY <2>1, <2>2
<1>7. CASE \E kind \in Outcome : Observe(kind)
  <2>a. PICK kind \in Outcome : Observe(kind) BY <1>7
  <2>0. Append(obs, [kind |-> kind, fresh |-> TRUE, latch |-> FALSE]) \in Seq(Observation)
    BY AppendProperties DEF Observation
  <2> USE <2>a, <2>0 DEF Observe
  <2>1. TypeOK'
    BY DEF PC
  <2>2. CurrentIsUp' /\ LockOwner' /\ DownIsQuiet' /\ WorksOnBlock' /\ ClaimIsSaved'
    BY DEF CurrentIsUp, DownIsQuiet, ClaimIsSaved
  <2>3. ResultApplies'
    BY DEF StillApplies, ResultApplies, CurrentIsUp
  <2>4. CurrentIsExclusive'
    BY DEF CurrentIsExclusive
  <2> QED BY <2>1, <2>2, <2>3, <2>4
<1>8. CASE FailClosed
  <2>0. /\ <<>> \in Seq(Observation)
        /\ \A fresh \in BOOLEAN :
             <<[kind |-> "uncertain", fresh |-> fresh, latch |-> TRUE]>> \in Seq(Observation)
    BY EmptySeq DEF Observation, Outcome
  <2> USE <1>8, <2>0 DEF FailClosed
  <2>1. TypeOK'
    BY DEF PC
  <2>2. CurrentIsUp' /\ LockOwner' /\ DownIsQuiet' /\ WorksOnBlock' /\ ClaimIsSaved'
    BY DEF CurrentIsUp, DownIsQuiet, ClaimIsSaved
  <2>3. ResultApplies'
    BY DEF StillApplies, ResultApplies, CurrentIsUp
  <2>4. CurrentIsExclusive'
    BY DEF CurrentIsExclusive
  <2> QED BY <2>1, <2>2, <2>3, <2>4
<1>9. CASE ObservationApplies
  <2>a. /\ Tail(obs) \in Seq(Observation) /\ Head(obs) \in Observation
    BY <1>9, HeadTailProperties DEF ObservationApplies
  <2> DEFINE N == Apply(Head(obs), mem)
  <2>0. N \in Ledger /\ \A c \in Block : StillApplies(mem, N, c)
    BY <2>a, ApplyFollows DEF Follows, Observation
  <2> HIDE DEF N
  <2>b. /\ obs # <<>> /\ cmd.by = "nobody" /\ obs' = Tail(obs)
        /\ UNCHANGED cmd \/ BeginSave("observer", N)
        /\ UNCHANGED <<mem, disk, stale, callVars, rtVars, calls>>
    BY <1>9 DEF ObservationApplies, N
  <2>c. cmd' = cmd \/ cmd' = [by |-> "observer", next |-> N, durable |-> FALSE, cur |-> TRUE]
    BY <2>b DEF BeginSave
  <2> USE <2>0, <2>a, <2>b, <2>c
  <2>1. TypeOK'
    <3>0. TypeOK BY DEF RuntimeInv
    <3>1. cmd' \in [by : Caller \cup {"nobody", "operator", "observer"},
                   next : Ledger, durable : BOOLEAN, cur : BOOLEAN]
      <4>1. [by |-> "observer", next |-> N, durable |-> FALSE, cur |-> TRUE] \in
               [by : Caller \cup {"nobody", "operator", "observer"},
                next : Ledger, durable : BOOLEAN, cur : BOOLEAN]
        BY ONLY <2>0
      <4> QED BY ONLY <2>c, <3>0, <4>1 DEF TypeOK
    <3>2. obs' \in Seq(Observation) BY ONLY <2>a, <2>b
    <3> QED BY ONLY <2>0, <2>b, <3>0, <3>1, <3>2 DEF TypeOK, callVars, rtVars
  <2>2. CurrentIsUp' /\ LockOwner' /\ DownIsQuiet' /\ WorksOnBlock' /\ ClaimIsSaved'
    BY DEF CurrentIsUp, DownIsQuiet, ClaimIsSaved
  <2>3. ResultApplies'
    BY DEF StillApplies, ResultApplies, CurrentIsUp
  <2>4. CurrentIsExclusive'
    BY DEF CurrentIsExclusive
  <2> QED BY <2>1, <2>2, <2>3, <2>4
<1>10. CASE ObservationDone
  <2> USE <1>10 DEF ObservationDone, Publish
  <2>1. TypeOK'
    BY DEF PC
  <2>2. CurrentIsUp' /\ LockOwner' /\ DownIsQuiet' /\ WorksOnBlock' /\ ClaimIsSaved'
    BY DEF CurrentIsUp, DownIsQuiet, ClaimIsSaved
  <2>3. ResultApplies'
    BY DEF StillApplies, ResultApplies, CurrentIsUp
  <2>4. CurrentIsExclusive'
    BY DEF CurrentIsExclusive
  <2> QED BY <2>1, <2>2, <2>3, <2>4
<1>11. CASE Setup
  <2>0. Recover(disk) \in Ledger BY RecoverFollows DEF Follows
  <2> USE <1>11, <2>0 DEF Setup
  <2>1. TypeOK'
    BY DEF PC
  <2>2. CurrentIsUp' /\ LockOwner' /\ DownIsQuiet' /\ WorksOnBlock' /\ ClaimIsSaved'
    BY DEF CurrentIsUp, DownIsQuiet, ClaimIsSaved
  <2>3. ResultApplies'
    BY DEF StillApplies, ResultApplies, CurrentIsUp
  <2>4. CurrentIsExclusive'
    BY DEF CurrentIsExclusive
  <2> QED BY <2>1, <2>2, <2>3, <2>4
<1>12. CASE UnloadBegins
  <2> USE <1>12 DEF UnloadBegins
  <2>1. TypeOK'
    BY DEF PC
  <2>2. CurrentIsUp' /\ LockOwner' /\ DownIsQuiet' /\ WorksOnBlock' /\ ClaimIsSaved'
    BY DEF CurrentIsUp, DownIsQuiet, ClaimIsSaved
  <2>3. ResultApplies'
    BY DEF StillApplies, ResultApplies, CurrentIsUp
  <2>4. CurrentIsExclusive'
    BY DEF CurrentIsExclusive
  <2> QED BY <2>1, <2>2, <2>3, <2>4
<1>13. CASE UnloadFails
  <2> USE <1>13 DEF UnloadFails
  <2>1. TypeOK'
    BY DEF PC
  <2>2. CurrentIsUp' /\ LockOwner' /\ DownIsQuiet' /\ WorksOnBlock' /\ ClaimIsSaved'
    BY DEF CurrentIsUp, DownIsQuiet, ClaimIsSaved
  <2>3. ResultApplies'
    BY DEF StillApplies, ResultApplies, CurrentIsUp
  <2>4. CurrentIsExclusive'
    BY DEF CurrentIsExclusive
  <2> QED BY <2>1, <2>2, <2>3, <2>4
<1>14. CASE UnloadDone
  <2>a. Owed \in Seq(Ledger) BY OwedIsLedgers
  <2>b. stale \o Owed \in Seq(Ledger) BY <2>a, ConcatProperties
  <2>0. <<>> \in Seq(Observation) /\ stale \o Owed \in Seq(Ledger) BY <2>b, EmptySeq
  <2> USE <1>14, <2>0 DEF UnloadDone
  <2>1. TypeOK'
    BY DEF PC
  <2>2. CurrentIsUp' /\ LockOwner' /\ DownIsQuiet' /\ WorksOnBlock' /\ ClaimIsSaved'
    BY DEF CurrentIsUp, DownIsQuiet, ClaimIsSaved
  <2>3. ResultApplies'
    BY DEF StillApplies, ResultApplies, CurrentIsUp
  <2>4. CurrentIsExclusive'
    BY DEF CurrentIsExclusive
  <2> QED BY <2>1, <2>2, <2>3, <2>4
<1>15. CASE StaleWrite
  <2>0. Head(stale) \in Ledger /\ Tail(stale) \in Seq(Ledger)
    BY <1>15, HeadTailProperties DEF StaleWrite
  <2> USE <1>15, <2>0 DEF StaleWrite
  <2>1. TypeOK'
    BY DEF PC
  <2>2. CurrentIsUp' /\ LockOwner' /\ DownIsQuiet' /\ WorksOnBlock' /\ ClaimIsSaved'
    BY DEF CurrentIsUp, DownIsQuiet, ClaimIsSaved
  <2>3. ResultApplies'
    BY DEF StillApplies, ResultApplies, CurrentIsUp
  <2>4. CurrentIsExclusive'
    BY DEF CurrentIsExclusive
  <2> QED BY <2>1, <2>2, <2>3, <2>4
<1>16. CASE Crash
  <2>0. <<>> \in Seq(Observation) /\ <<>> \in Seq(Ledger) BY EmptySeq
  <2> USE <1>16, <2>0 DEF Crash
  <2>1. TypeOK'
    BY DEF PC
  <2>2. CurrentIsUp' /\ LockOwner' /\ DownIsQuiet' /\ WorksOnBlock' /\ ClaimIsSaved'
    BY DEF CurrentIsUp, DownIsQuiet, ClaimIsSaved
  <2>3. ResultApplies'
    BY DEF StillApplies, ResultApplies, CurrentIsUp
  <2>4. CurrentIsExclusive'
    BY DEF CurrentIsExclusive
  <2> QED BY <2>1, <2>2, <2>3, <2>4
<1> QED BY <1>1, <1>2, <1>3, <1>4, <1>5, <1>6, <1>7, <1>8, <1>9, <1>10, <1>11, <1>12,
    <1>13, <1>14, <1>15, <1>16 DEF Operator, Observer, Lifecycle

\* RuntimeInv is inductive, whatever faults and late writes the constants allow.
LEMMA RuntimeInvariant == Spec => []RuntimeInv
<1>1. Init => RuntimeInv
  <2>1. EmptyLedger \in Ledger BY DEF EmptyLedger, Ledger, Entry
  <2>2. <<>> \in Seq(Ledger) /\ <<>> \in Seq(Observation) BY EmptySeq
  <2> SUFFICES ASSUME Init PROVE RuntimeInv OBVIOUS
  <2>3. TypeOK BY <2>1, <2>2, NobodyTyped DEF Init, TypeOK, PC
  <2>4. LockOwner BY NobodyTyped, CallerAssumption DEF Init, LockOwner, Saving
  <2>5. /\ CurrentIsUp /\ DownIsQuiet /\ WorksOnBlock
        /\ ResultApplies /\ ClaimIsSaved /\ CurrentIsExclusive
    BY NobodyTyped DEF Init, CurrentIsUp, DownIsQuiet, WorksOnBlock, ResultApplies,
       ClaimIsSaved, CurrentIsExclusive, LockFree, Dispatched
  <2> QED BY <2>3, <2>4, <2>5 DEF RuntimeInv
<1>2. RuntimeInv /\ [Next]_vars => RuntimeInv'
  <2> SUFFICES ASSUME RuntimeInv, [Next]_vars PROVE RuntimeInv' OBVIOUS
  <2>1. CASE \E p \in Caller : Handler(p) BY <2>1, HandlerKeepsRuntimeInv
  <2>2. CASE WriteLands \/ SaveFails \/ Operator \/ Observer \/ Lifecycle
    BY <2>2, RestKeepsRuntimeInv
  <2>3. CASE UNCHANGED vars
    BY <2>3 DEF vars, callVars, rtVars, RuntimeInv, TypeOK, CurrentIsUp, LockOwner,
                DownIsQuiet, WorksOnBlock, ResultApplies, ClaimIsSaved,
                CurrentIsExclusive, LockFree
  <2> QED BY <2>1, <2>2, <2>3 DEF Next
<1> QED BY <1>1, <1>2, PTL DEF Spec

\* Every variable keeps its type: in particular every ledger that the handlers,
\* the observer, the operator and recovery produce passes the domain model's
\* state, job and committed_at validation (QueueLedger.__post_init__).
THEOREM TypeCorrect == Spec => []TypeOK
<1>1. RuntimeInv => TypeOK BY DEF RuntimeInv
<1> QED BY <1>1, RuntimeInvariant, PTL

\* A handler whose runtime lives can always record its result or quarantine the
\* block: _record_dispatch_acceptance and record_uncertain never raise.
THEOREM ResultsApply == Spec => []ResultIsApplicable
<1>1. RuntimeInv => ResultIsApplicable
  <2> SUFFICES ASSUME RuntimeInv, NEW p \in Caller, pc[p] \in Dispatched, cur[p]
               PROVE  mem[blk[p]].st \in Settled \/ CanQuarantine(mem, blk[p])
    BY DEF ResultIsApplicable
  <2>1. Applies(mem[blk[p]]) BY DEF RuntimeInv, ResultApplies
  <2>2. mem[blk[p]] \in Entry
    BY DEF RuntimeInv, TypeOK, WorksOnBlock, Dispatched, Ledger
  <2> QED BY <2>1, <2>2 DEF Applies, CanQuarantine, Entry, Absent, Record, Coherent
<1> QED BY <1>1, RuntimeInvariant, PTL

-----------------------------------------------------------------------------
(* DurableInv: the store file and the calls, when QuietReload.             *)

\* The store half of DurableInv and its half about the calls.
StoreInv == NothingOwed /\ FileHoldsSave /\ ProgressIsKept /\ OneOpenBlock /\ SaveIsOneOpen
CallInv == CallsAreClaimed /\ CarriersAreClaimed /\ ClaimIsExclusive /\ AtMostOnceCall

\* The ways in which a step may move memory, file and lock.
SaveBegins ==
    /\ LockFree /\ UNCHANGED <<mem, disk>>
    /\ cmd'.by # "nobody" /\ ~cmd'.durable /\ Follows(mem, cmd'.next)
SavePublished ==
    ~LockFree /\ cmd.durable /\ mem' = cmd.next /\ cmd' = Nobody /\ UNCHANGED disk
SaveDropped == cmd' = Nobody /\ UNCHANGED <<mem, disk>>
SaveLands ==
    /\ ~LockFree /\ UNCHANGED mem /\ disk' = cmd.next
    /\ cmd'.by = cmd.by /\ cmd'.next = cmd.next
LockStays ==
    /\ cmd'.by = cmd.by /\ cmd'.next = cmd.next /\ cmd'.durable = cmd.durable
    /\ UNCHANGED <<mem, disk>>
Recovers == LockFree /\ mem' = Recover(disk) /\ disk' = mem' /\ UNCHANGED cmd
\* Those of a runtime that lives, and those that a setup adds.
LiveMove == SaveBegins \/ SavePublished \/ SaveDropped \/ SaveLands \/ LockStays
StoreMove == LiveMove \/ Recovers

\* Neither a claim, a doubt nor an outcome leaves the published ledger.
MemoryKept == \A b \in Block : Kept(mem[b], mem'[b])

LEMMA StoreMoveKeepsStoreInv ==
    ASSUME TypeOK, StoreInv, StoreMove, stale' = <<>>
    PROVE  StoreInv' /\ MemoryKept
<1> USE DEF StoreInv, NothingOwed, FileHoldsSave, ProgressIsKept, OneOpenBlock,
            SaveIsOneOpen, LockFree, MemoryKept
<1>0. /\ \A b \in Block : Kept(mem[b], mem[b])
      /\ Nobody.by = "nobody"
      /\ \A L \in Ledger : L \in [Block -> Entry]
  BY NobodyTyped DEF Kept, Ledger
<1>1. CASE SaveBegins BY <1>0, <1>1 DEF SaveBegins, Follows
<1>2. CASE SavePublished
  <2>1. disk = cmd.next BY <1>2 DEF SavePublished
  <2>2. \A b \in Block : Kept(cmd.next[b], cmd.next[b]) BY DEF Kept
  <2> QED BY <1>0, <1>2, <2>1, <2>2 DEF SavePublished
<1>3. CASE SaveDropped BY <1>0, <1>3 DEF SaveDropped
<1>4. CASE SaveLands BY <1>0, <1>4 DEF SaveLands
<1>5. CASE LockStays BY <1>0, <1>5 DEF LockStays
<1>6. CASE Recovers
  <2>1. Follows(disk, mem') BY <1>6, RecoverFollows DEF Recovers, TypeOK
  <2>2. \A b \in Block : Kept(mem[b], disk[b]) /\ Kept(disk[b], mem'[b])
    BY <2>1 DEF Follows
  <2>3. \A b \in Block : Kept(mem[b], mem'[b]) /\ Kept(mem'[b], mem'[b])
    BY <2>2 DEF Kept, Doubted, Claimed, TerminalBlock
  <2> QED BY <1>6, <2>1, <2>3 DEF Recovers, Follows
<1> QED BY <1>1, <1>2, <1>3, <1>4, <1>5, <1>6 DEF StoreMove, LiveMove

\* A ledger with the phases of M is one move from L if M is.
LEMMA SamePhases ==
    ASSUME NEW L, NEW M, NEW N, OnePhaseOn(L, M),
           \A b \in Block : PhaseOf(N[b]) = PhaseOf(M[b])
    PROVE  OnePhaseOn(L, N)
<1>1. \A b \in Block : Onward(L[b], N[b]) <=> Onward(L[b], M[b]) BY DEF Onward
<1> QED BY <1>1 DEF OnePhaseOn

LEMMA NoMove ==
    ASSUME NEW L
    PROVE  OnePhaseOn(L, L)
BY DEF OnePhaseOn

\* Recovery quarantines within the phase of a claimed block.
LEMMA RecoverKeepsPhase ==
    ASSUME NEW L, NEW b \in Block
    PROVE  PhaseOf(Recover(L)[b]) = PhaseOf(L[b])
<1>1. Recover(L)[b] = RecoverEntry(L[b]) BY DEF Recover
<1>2. CASE L[b].st \in ActiveBlock
  <2>1. Recover(L)[b].st = "uncertain" BY <1>1, <1>2 DEF RecoverEntry, Moved
  <2> QED BY <1>2, <2>1, PhaseCases DEF ActiveBlock
<1>3. CASE L[b].st \notin ActiveBlock BY <1>1, <1>3 DEF RecoverEntry
<1> QED BY <1>2, <1>3

\* Whatever a step does to memory and file, it makes one move of the contract.
LEMMA StoreMoveIsOnePhase ==
    ASSUME StoreInv, OnePhaseAhead, StoreMove
    PROVE  OnePhaseAhead' /\ OnePhaseOn(mem, mem')
<1> USE NoMove DEF OnePhaseAhead, LockFree
<1>0. Nobody.by = "nobody" BY NobodyTyped
<1>1. CASE SaveBegins
  <2>1. OnePhaseOn(mem, cmd'.next) BY <1>1 DEF SaveBegins, Follows, StoreInv, OneOpenBlock
  <2> QED BY <1>1, <2>1 DEF SaveBegins
<1>2. CASE SavePublished
  <2>1. disk = cmd.next BY <1>2 DEF SavePublished, StoreInv, FileHoldsSave
  <2> QED BY <1>0, <1>2, <2>1 DEF SavePublished
<1>3. CASE SaveDropped BY <1>0, <1>3 DEF SaveDropped
<1>4. CASE SaveLands BY <1>4 DEF SaveLands
<1>5. CASE LockStays BY <1>5 DEF LockStays
<1>6. CASE Recovers
  <2>1. OnePhaseOn(mem, Recover(disk)) BY RecoverKeepsPhase, SamePhases
  <2> QED BY <1>6, <2>1 DEF Recovers
<1> QED BY <1>1, <1>2, <1>3, <1>4, <1>5, <1>6 DEF StoreMove, LiveMove

LEMMA HandlerMovesStore ==
    ASSUME RuntimeInv, NEW p \in Caller, Handler(p)
    PROVE  LiveMove /\ stale' = stale
<1> USE CallerAssumption DEF RuntimeInv, TypeOK, LiveMove, LockFree
<1>1. CASE StartSeals(p)
  <2>1. PICK b \in Block :
          /\ Fresh(b)
          /\ BeginSave(p, SealNew(mem, b, IF dry THEN "planner_sequential" ELSE "native_batch"))
    BY <1>1 DEF StartSeals
  <2> DEFINE N == SealNew(mem, b, IF dry THEN "planner_sequential" ELSE "native_batch")
  <2>2. Follows(mem, N)
    BY <1>1, <2>1, SealNewFollows DEF StartSeals, Fresh, Strategy
  <2>3. LockFree /\ BeginSave(p, N) /\ UNCHANGED <<mem, disk, stale>>
    BY <1>1, <2>1 DEF StartSeals, CanStart
  <2> HIDE DEF N
  <2> QED BY <2>2, <2>3 DEF BeginSave, SaveBegins
<1>2. CASE StartCancelsDryRun(p)
  BY <1>2, CancelFollows DEF StartCancelsDryRun, CanStart, BeginSave, SaveBegins
<1>3. CASE Claim(p)
  <2>1. blk[p] \in Block BY <1>3 DEF Claim, WorksOnBlock
  <2> QED BY <1>3, <2>1, BeginCommitFollows DEF Claim, BeginSave, SaveBegins
<1>4. CASE AcceptBegins(p)
  <2>1. blk[p] \in Block BY <1>4 DEF AcceptBegins, WorksOnBlock
  <2>2. mem[blk[p]].st = "committing"
    BY <1>4 DEF AcceptBegins, ResultApplies, Applies, CommandGuard, Dispatched
  <2> QED BY <1>4, <2>1, <2>2, AcceptFollows DEF AcceptBegins, BeginSave, SaveBegins
<1>5. CASE QuarantineBegins(p)
  <2>1. blk[p] \in Block BY <1>5 DEF QuarantineBegins, WorksOnBlock
  <2> QED BY <1>5, <2>1, QuarantineFollows DEF QuarantineBegins, BeginSave, SaveBegins
<1>6. CASE SealDone(p) \/ CancelDryRunDone(p) \/ ClaimDone(p)
  BY <1>6 DEF SealDone, CancelDryRunDone, ClaimDone, Saved, Publish, SavePublished
<1>7. CASE AcceptDone(p) \/ QuarantineDone(p)
  <2>1. /\ cmd.by = p /\ cmd.durable /\ UNCHANGED <<disk, stale>>
        /\ Publish \/ Discard
    BY <1>7 DEF AcceptDone, QuarantineDone, Saved
  <2> QED BY <2>1 DEF Publish, Discard, SavePublished, SaveDropped
<1>8. CASE SaveRefused(p)
  BY <1>8 DEF SaveRefused, Discard, SaveDropped
<1>9. CASE \/ StartFindsExisting(p) \/ PreflightFails(p) \/ SelectorLost(p) \/ ClaimLost(p)
           \/ SelectReturns(p) \/ CallReturns(p) \/ CallFails(p) \/ AcceptSkipped(p)
           \/ QuarantineSkipped(p)
  <2>1. UNCHANGED <<mem, disk, cmd, stale>>
    BY <1>9 DEF StartFindsExisting, PreflightFails, SelectorLost, ClaimLost, SelectReturns,
       CallReturns, CallFails, AcceptSkipped, QuarantineSkipped
  <2> QED BY <2>1 DEF LockStays
<1> QED BY <1>1, <1>2, <1>3, <1>4, <1>5, <1>6, <1>7, <1>8, <1>9 DEF Handler

LEMMA RestMovesStore ==
    ASSUME RuntimeInv,
           \/ WriteLands \/ SaveFails \/ Operator \/ Observer
           \/ UnloadBegins \/ UnloadFails
    PROVE  LiveMove /\ stale' = stale
<1> USE CallerAssumption DEF RuntimeInv, TypeOK, LiveMove, LockFree
<1>1. CASE WriteLands BY <1>1 DEF WriteLands, SaveLands
<1>2. CASE SaveFails BY <1>2 DEF SaveFails, SaveDropped
<1>3. CASE \E b \in Block : CancelBlock(b)
  BY <1>3, CancelFollows DEF CancelBlock, OperatorBegins, BeginSave, SaveBegins
<1>4. CASE \E b \in Block : ResolveUncertainRun(b)
  BY <1>4, ResolveFollows DEF ResolveUncertainRun, OperatorBegins, BeginSave, SaveBegins
<1>5. CASE EditPlan
  <2>1. Follows(mem, mem) BY NoMove DEF Follows, Kept
  <2> QED BY <1>5, <2>1 DEF EditPlan, OperatorBegins, BeginSave, SaveBegins
<1>6. CASE OperatorDone
  BY <1>6 DEF OperatorDone, Publish, Discard, SavePublished, SaveDropped
<1>7. CASE ObservationDone BY <1>7 DEF ObservationDone, Publish, SavePublished
<1>8. CASE ObservationApplies
  <2>1. Head(obs) \in Observation
    BY <1>8, HeadTailProperties DEF ObservationApplies
  <2> DEFINE N == Apply(Head(obs), mem)
  <2>2. Follows(mem, N) BY <2>1, ApplyFollows DEF Observation
  <2>3. /\ LockFree /\ UNCHANGED <<mem, disk, stale>>
        /\ UNCHANGED cmd \/ BeginSave("observer", N)
    BY <1>8 DEF ObservationApplies
  <2> HIDE DEF N
  <2>4. CASE UNCHANGED cmd BY <2>3, <2>4 DEF LockStays
  <2>5. CASE BeginSave("observer", N) BY <2>2, <2>3, <2>5 DEF BeginSave, SaveBegins
  <2> QED BY <2>3, <2>4, <2>5
<1>9. CASE (\E kind \in Outcome : Observe(kind)) \/ FailClosed \/ UnloadFails
  BY <1>9 DEF Observe, FailClosed, UnloadFails, LockStays
<1>10. CASE UnloadBegins BY <1>10 DEF UnloadBegins, LockStays
<1> QED BY <1>1, <1>2, <1>3, <1>4, <1>5, <1>6, <1>7, <1>8, <1>9, <1>10
        DEF Operator, Observer

LEMMA SetupRecovers ==
    ASSUME RuntimeInv, Setup
    PROVE  Recovers /\ stale' = stale
BY DEF Setup, RuntimeInv, DownIsQuiet, Recovers

\* A runtime that is detached in quiet, or dies, leaves no write behind.
LEMMA QuietEndOwesNothing ==
    ASSUME QuietReload, NothingOwed, UnloadDone \/ StaleWrite \/ Crash
    PROVE  SaveDropped /\ stale' = <<>>
<1>1. CASE UnloadDone
  <2>1. LockFree /\ ~LatchPending BY <1>1 DEF UnloadDone
  <2>2. Owed = <<>> BY <2>1 DEF Owed
  <2>3. stale' = <<>> BY <1>1, <2>2 DEF UnloadDone, NothingOwed
  <2> QED BY <1>1, <2>3 DEF UnloadDone, SaveDropped
<1>2. CASE StaleWrite BY <1>2 DEF StaleWrite, NothingOwed
<1>3. CASE Crash BY <1>3 DEF Crash, SaveDropped
<1> QED BY <1>1, <1>2, <1>3

\* The ways in which a step may move the handlers: no handler newly carries a
\* claimed block and nothing is sent, or handler p claims, or it sends.
Carrier == Dispatched \cup {"claiming"}
Quietly ==
    /\ calls' = calls
    /\ \A q \in Caller : pc'[q] \in Carrier =>
         /\ pc[q] \in Carrier /\ blk'[q] = blk[q]
         /\ cur'[q] => cur[q]
         /\ pc'[q] \in Dispatched => pc[q] \in Dispatched
         /\ pc'[q] = "selecting" => pc[q] = "selecting"

\* Only a claim and a call make a handler carry or send a block.
LEMMA HandlerIsQuiet ==
    ASSUME RuntimeInv, NEW p \in Caller, Handler(p),
           ~(Claim(p) \/ ClaimDone(p) \/ (SelectReturns(p) /\ CommandGuard(p)))
    PROVE  Quietly
<1>0. /\ pc \in [Caller -> PC] /\ blk \in [Caller -> Block \cup {NoBlock}]
      /\ cur \in [Caller -> BOOLEAN]
  BY DEF RuntimeInv, TypeOK
<1>1. CASE \/ StartSeals(p) \/ StartCancelsDryRun(p) \/ StartFindsExisting(p)
  <2>1. /\ calls' = calls
        /\ \E b \in Block, w \in {"sealing", "cancelling", "claim"} : Enter(p, w, b)
    BY <1>1 DEF StartSeals, StartCancelsDryRun, StartFindsExisting, OpenBlocks
  <2> QED BY <1>0, <2>1 DEF Quietly, Enter, Carrier, Dispatched
<1>2. CASE \/ SealDone(p) \/ CancelDryRunDone(p) \/ SaveRefused(p) \/ PreflightFails(p)
           \/ SelectorLost(p) \/ ClaimLost(p)
  <2>1. calls' = calls /\ (Return(p) \/ Goto(p, "claim"))
    BY <1>2 DEF SealDone, CancelDryRunDone, SaveRefused, PreflightFails, SelectorLost,
            ClaimLost
  <2> QED BY <1>0, <2>1 DEF Quietly, Return, Goto, Carrier, Dispatched
<1>3. CASE \/ (SelectReturns(p) /\ ~CommandGuard(p)) \/ CallReturns(p) \/ CallFails(p)
           \/ AcceptBegins(p) \/ AcceptSkipped(p) \/ AcceptDone(p)
           \/ QuarantineBegins(p) \/ QuarantineSkipped(p) \/ QuarantineDone(p)
  <2>1. /\ calls' = calls /\ pc[p] \in Dispatched
        /\ \/ Return(p)
           \/ \E w \in {"accept", "accepting", "quarantine", "quarantining"} : Goto(p, w)
    BY <1>3 DEF SelectReturns, CallReturns, CallFails, AcceptBegins, AcceptSkipped,
                AcceptDone, QuarantineBegins, QuarantineSkipped, QuarantineDone, Ambiguous, Dispatched
  <2> QED BY <1>0, <2>1 DEF Quietly, Return, Goto, Carrier, Dispatched
<1> QED BY <1>1, <1>2, <1>3 DEF Handler

LEMMA RestIsQuiet ==
    ASSUME RuntimeInv, WriteLands \/ SaveFails \/ Operator \/ Observer \/ Lifecycle
    PROVE  Quietly
<1>0. /\ pc \in [Caller -> PC] /\ blk \in [Caller -> Block \cup {NoBlock}]
      /\ cur \in [Caller -> BOOLEAN]
  BY DEF RuntimeInv, TypeOK
<1>1. CASE SaveFails
  <2>1. calls' = calls BY <1>1 DEF SaveFails
  <2>2. CASE cmd.by \in Caller /\ pc[cmd.by] = "accepting"
    BY <1>0, <1>1, <2>1, <2>2 DEF SaveFails, Quietly, Goto, Carrier, Dispatched
  <2>3. CASE cmd.by \in Caller /\ pc[cmd.by] # "accepting"
    BY <1>0, <1>1, <2>1, <2>3 DEF SaveFails, Quietly, Return, Carrier, Dispatched
  <2>4. CASE cmd.by \notin Caller
    BY <1>1, <2>1, <2>4 DEF SaveFails, Quietly, callVars
  <2> QED BY <2>2, <2>3, <2>4
<1>2. CASE Crash BY <1>2 DEF Crash, Quietly, Carrier, Dispatched
<1>3. CASE UnloadDone BY <1>3 DEF UnloadDone, Quietly, Carrier, Dispatched, Saving
<1>4. CASE UnloadBegins BY <1>4 DEF UnloadBegins, Quietly
<1>5. CASE WriteLands \/ Operator \/ Observer \/ Setup \/ UnloadFails \/ StaleWrite
  <2>1. UNCHANGED <<calls, pc, blk, cur>>
    BY <1>5 DEF WriteLands, Operator, CancelBlock, ResolveUncertainRun, EditPlan,
                OperatorBegins, OperatorDone, Observer, Observe, FailClosed, ObservationApplies,
                ObservationDone, Setup, UnloadFails, StaleWrite, callVars
  <2> QED BY <2>1 DEF Quietly
<1> QED BY <1>1, <1>2, <1>3, <1>4, <1>5 DEF Lifecycle

LEMMA QuietlyKeepsCallInv ==
    ASSUME RuntimeInv, CallInv, MemoryKept, Quietly
    PROVE  CallInv'
<1> USE DEF CallInv, Quietly, Carrier
<1>0. \A b \in Block : Claimed(mem[b]) => Claimed(mem'[b]) BY DEF MemoryKept, Kept
<1>1. CallsAreClaimed' BY <1>0 DEF CallsAreClaimed
<1>2. \A q \in Caller : pc[q] \in Dispatched => blk[q] \in Block
  BY DEF RuntimeInv, WorksOnBlock, Dispatched
<1>3. CarriersAreClaimed' BY <1>0, <1>2 DEF CarriersAreClaimed, Dispatched
<1>4. ClaimIsExclusive' BY DEF ClaimIsExclusive
<1>5. AtMostOnceCall' BY DEF AtMostOnceCall
<1> QED BY <1>1, <1>3, <1>4, <1>5

\* The first claim of a sealed block: no other handler carries it.
LEMMA ClaimKeepsCallInv ==
    ASSUME RuntimeInv, CallInv, MemoryKept, NEW p \in Caller, Claim(p)
    PROVE  CallInv'
<1> USE DEF CallInv
<1>1. /\ blk[p] \in Block /\ mem[blk[p]].st = "sealed"
      /\ cmd.by = "nobody" /\ mem' = mem /\ calls' = calls
      /\ pc' = [pc EXCEPT ![p] = "claiming"] /\ blk' = blk
  BY DEF Claim, CanCommit, Goto, LockFree, RuntimeInv, WorksOnBlock
<1>2. \A q \in Caller : pc[q] \in Dispatched \cup {"claiming"} => blk[q] # blk[p]
  <2> SUFFICES ASSUME NEW q \in Caller, pc[q] \in Dispatched \cup {"claiming"}
               PROVE  blk[q] # blk[p]
    OBVIOUS
  <2>1. pc[q] # "claiming"
    BY <1>1, CallerAssumption DEF RuntimeInv, LockOwner, Saving
  <2>2. Claimed(mem[blk[q]]) BY <2>1 DEF CarriersAreClaimed
  <2> QED BY <1>1, <2>2 DEF Claimed
<1>3. pc \in [Caller -> PC] BY DEF RuntimeInv, TypeOK
<1>4. CallsAreClaimed' /\ AtMostOnceCall' BY <1>1 DEF CallsAreClaimed, AtMostOnceCall
<1>5. CarriersAreClaimed' BY <1>1, <1>3 DEF CarriersAreClaimed, Dispatched
<1>6. ClaimIsExclusive' BY <1>1, <1>2, <1>3 DEF ClaimIsExclusive
<1> QED BY <1>4, <1>5, <1>6

\* Handler p sends clean_area for a claimed block that was not sent before.
LEMMA SendKeepsCallInv ==
    ASSUME RuntimeInv, CallInv, MemoryKept, NEW p \in Caller,
           pc[p] \in {"claiming", "selecting"}, calls[blk[p]] = 0,
           Claimed(mem'[blk[p]]), Goto(p, "calling"), SendCleanArea(p)
    PROVE  CallInv'
<1> USE DEF CallInv
<1>0. \A b \in Block : Claimed(mem[b]) => Claimed(mem'[b]) BY DEF MemoryKept, Kept
<1>1. /\ blk[p] \in Block /\ blk' = blk
      /\ pc' = [pc EXCEPT ![p] = "calling"] /\ pc \in [Caller -> PC]
      /\ calls \in [Block -> Nat] /\ calls' = [calls EXCEPT ![blk[p]] = @ + 1]
  BY DEF Goto, SendCleanArea, RuntimeInv, TypeOK, WorksOnBlock
<1>2. \A q \in Caller : pc[q] \in Dispatched => blk[q] \in Block
  BY DEF RuntimeInv, WorksOnBlock, Dispatched
<1>3. \A q \in Caller \ {p} : pc[q] \in Dispatched => blk[q] # blk[p]
  BY DEF ClaimIsExclusive, Dispatched
<1>4. \A b \in Block : calls'[b] = IF b = blk[p] THEN 1 ELSE calls[b] BY <1>1
<1>5. CallsAreClaimed' BY <1>0, <1>4 DEF CallsAreClaimed
<1>6. AtMostOnceCall' BY <1>4 DEF AtMostOnceCall
<1>7. CarriersAreClaimed'
  BY <1>0, <1>1, <1>2, <1>3, <1>4 DEF CarriersAreClaimed, Dispatched
<1>8. ClaimIsExclusive' BY <1>1, <1>3 DEF ClaimIsExclusive, Dispatched
<1> QED BY <1>5, <1>6, <1>7, <1>8

LEMMA HandlerKeepsCallInv ==
    ASSUME RuntimeInv, CallInv, MemoryKept, NEW p \in Caller, Handler(p)
    PROVE  CallInv'
<1>0. pc \in [Caller -> PC] /\ blk \in [Caller -> Block \cup {NoBlock}]
  BY DEF RuntimeInv, TypeOK
<1>1. CASE Claim(p) BY <1>1, ClaimKeepsCallInv
<1>2. CASE ClaimDone(p)
  <2>1. /\ pc[p] = "claiming" /\ mem' = cmd.next /\ blk[p] \in Block
        /\ mem[blk[p]].st = "sealed" /\ Claimed(mem'[blk[p]])
    BY <1>2 DEF ClaimDone, Publish, RuntimeInv, ClaimIsSaved, WorksOnBlock, Claimed
  <2>2. calls[blk[p]] = 0
    BY <2>1 DEF CallInv, CallsAreClaimed, Claimed, RuntimeInv, TypeOK
  <2>3. CASE Goto(p, "calling") /\ SendCleanArea(p)
    BY <2>1, <2>2, <2>3, SendKeepsCallInv
  <2>4. CASE Goto(p, "selecting") /\ UNCHANGED calls
    <3> USE DEF CallInv
    <3>0. \A b \in Block : Claimed(mem[b]) => Claimed(mem'[b]) BY DEF MemoryKept, Kept
    <3>1. /\ pc' = [pc EXCEPT ![p] = "selecting"] /\ blk' = blk /\ calls' = calls
      BY <2>4 DEF Goto
    <3>2. \A q \in Caller : pc[q] \in Dispatched => blk[q] \in Block
      BY DEF RuntimeInv, WorksOnBlock, Dispatched
    <3>3. CallsAreClaimed' /\ AtMostOnceCall'
      BY <3>0, <3>1 DEF CallsAreClaimed, AtMostOnceCall
    <3>4. CarriersAreClaimed'
      BY <1>0, <2>1, <2>2, <3>0, <3>1, <3>2 DEF CarriersAreClaimed, Dispatched
    <3>5. ClaimIsExclusive' BY <1>0, <2>1, <3>1 DEF ClaimIsExclusive, Dispatched
    <3> QED BY <3>3, <3>4, <3>5
  <2> QED BY <1>2, <2>3, <2>4 DEF ClaimDone
<1>3. CASE SelectReturns(p) /\ CommandGuard(p)
  <2>1. pc[p] = "selecting" /\ Goto(p, "calling") /\ SendCleanArea(p) /\ mem' = mem
    BY <1>3 DEF SelectReturns
  <2>2. calls[blk[p]] = 0 /\ Claimed(mem[blk[p]])
    BY <2>1 DEF CallInv, CarriersAreClaimed, Dispatched
  <2> QED BY <2>1, <2>2, SendKeepsCallInv
<1>4. CASE ~(Claim(p) \/ ClaimDone(p) \/ (SelectReturns(p) /\ CommandGuard(p)))
  BY <1>4, HandlerIsQuiet, QuietlyKeepsCallInv
<1> QED BY <1>1, <1>2, <1>3, <1>4

LEMMA NextKeepsDurableInv ==
    ASSUME QuietReload, RuntimeInv, DurableInv, [Next]_vars
    PROVE  DurableInv' /\ MemoryKept /\ OnePhaseOn(mem, mem')
<1>1. TypeOK /\ StoreInv /\ CallInv /\ NothingOwed /\ OnePhaseAhead
  BY DEF RuntimeInv, DurableInv, StoreInv, CallInv
<1>2. CASE \E p \in Caller : Handler(p)
  <2>1. PICK p \in Caller : Handler(p) BY <1>2
  <2>2. StoreMove /\ stale' = <<>>
    BY <1>1, <2>1, HandlerMovesStore DEF NothingOwed, StoreMove
  <2>3. StoreInv' /\ MemoryKept /\ OnePhaseAhead' /\ OnePhaseOn(mem, mem')
    BY <1>1, <2>2, StoreMoveKeepsStoreInv, StoreMoveIsOnePhase
  <2>4. CallInv' BY <1>1, <2>1, <2>3, HandlerKeepsCallInv
  <2> QED BY <2>3, <2>4 DEF DurableInv, StoreInv, CallInv
<1>3. CASE WriteLands \/ SaveFails \/ Operator \/ Observer \/ Lifecycle
  <2>1. StoreMove /\ stale' = <<>>
    BY <1>1, <1>3, RestMovesStore, SetupRecovers, QuietEndOwesNothing
       DEF NothingOwed, StoreMove, LiveMove, Lifecycle
  <2>2. StoreInv' /\ MemoryKept /\ OnePhaseAhead' /\ OnePhaseOn(mem, mem')
    BY <1>1, <2>1, StoreMoveKeepsStoreInv, StoreMoveIsOnePhase
  <2>3. CallInv' BY <1>1, <1>3, <2>2, RestIsQuiet, QuietlyKeepsCallInv
  <2> QED BY <2>2, <2>3 DEF DurableInv, StoreInv, CallInv
<1>4. CASE UNCHANGED vars
  <2>1. OnePhaseAhead' /\ OnePhaseOn(mem, mem')
    BY <1>1, <1>4, NoMove DEF vars, OnePhaseAhead, LockFree
  <2> QED
    BY <1>4, <2>1 DEF vars, callVars, rtVars, DurableInv, NothingOwed, FileHoldsSave, LockFree,
       ProgressIsKept, CallsAreClaimed, CarriersAreClaimed, ClaimIsExclusive, OneOpenBlock,
       AtMostOneOpen, OpenBlocks, SaveIsOneOpen, AtMostOnceCall, MemoryKept, Kept
<1> QED BY <1>2, <1>3, <1>4 DEF Next

LEMMA InitDurableInv ==
    ASSUME Init
    PROVE  DurableInv
<1>1. \A b \in Block : EmptyLedger[b].st = "absent" BY DEF EmptyLedger, Absent
<1>2. OpenBlocks(EmptyLedger) = {} BY <1>1 DEF OpenBlocks, Open
<1>3. LockFree BY NobodyTyped DEF Init, LockFree
<1>4. NothingOwed /\ FileHoldsSave /\ SaveIsOneOpen
  BY <1>3 DEF Init, NothingOwed, FileHoldsSave, SaveIsOneOpen
<1>5. ProgressIsKept /\ CallsAreClaimed /\ AtMostOnceCall
  BY <1>3 DEF Init, ProgressIsKept, Kept, CallsAreClaimed, AtMostOnceCall
<1>6. CarriersAreClaimed /\ ClaimIsExclusive
  BY DEF Init, CarriersAreClaimed, ClaimIsExclusive, Dispatched
<1>7. OneOpenBlock BY <1>2 DEF Init, OneOpenBlock, AtMostOneOpen
<1>8. OnePhaseAhead BY <1>3, NoMove DEF Init, OnePhaseAhead
<1> QED BY <1>4, <1>5, <1>6, <1>7, <1>8 DEF DurableInv

\* LaneInv is invariant for every set of blocks, handlers and faults: its
\* runtime half always, its durable half when a reload leaves no write behind.
THEOREM LaneInvariant == Spec => []LaneInv
<1> DEFINE Durably == QuietReload => DurableInv
<1>1. Init => Durably BY InitDurableInv
<1>2. RuntimeInv /\ Durably /\ [Next]_vars => Durably' BY NextKeepsDurableInv
<1>3. RuntimeInv /\ Durably => LaneInv BY DEF LaneInv
<1> HIDE DEF Durably
<1> QED BY <1>1, <1>2, <1>3, RuntimeInvariant, PTL DEF Spec

\* clean_area is sent at most once for a block, whatever is restarted, retried
\* or repeated.
THEOREM LaneSafety ==
    ASSUME QuietReload
    PROVE  Spec => []AtMostOnceCall
<1>1. LaneInv => AtMostOnceCall BY DEF LaneInv, DurableInv
<1> QED BY <1>1, LaneInvariant, PTL

\* Of two start_next handlers at one sealed block only one ever carries its claim.
THEOREM ClaimsAreExclusive ==
    ASSUME QuietReload
    PROVE  Spec => []ClaimIsExclusive
<1>1. LaneInv => ClaimIsExclusive BY DEF LaneInv, DurableInv
<1> QED BY <1>1, LaneInvariant, PTL

\* The store file never loses a dispatch intent whose clean_area was sent.
THEOREM IntentsAreDurable ==
    ASSUME QuietReload
    PROVE  Spec => []IntentIsDurable
<1>1. LaneInv => IntentIsDurable
  BY DEF LaneInv, DurableInv, IntentIsDurable, ProgressIsKept, Kept, CallsAreClaimed, Claimed
<1> QED BY <1>1, LaneInvariant, PTL

\* Nor an outcome that was published: what a restart finds is what was done.
THEOREM FileKeepsWhatWasDone ==
    ASSUME QuietReload
    PROVE  Spec => []TerminalIsDurable
<1>1. LaneInv => TerminalIsDurable
  BY DEF LaneInv, DurableInv, TerminalIsDurable, ProgressIsKept, Kept
<1> QED BY <1>1, LaneInvariant, PTL

\* No step, a restart included, changes an outcome that was published.
THEOREM OutcomesAreFinal ==
    ASSUME QuietReload
    PROVE  Spec => TerminalIsFinal
<1>1. LaneInv /\ [Next]_vars
      => [\A b \in Block : mem[b].st \in TerminalBlock => mem'[b] = mem[b]]_vars
  BY NextKeepsDurableInv DEF LaneInv, MemoryKept, Kept
<1> QED BY <1>1, LaneInvariant, PTL DEF Spec, TerminalIsFinal

\* A block that was published as uncertain never counts as completed, whatever
\* is observed, resolved or restarted later (queue semantics, invariant 6).
THEOREM UncertainNeverCompletes ==
    ASSUME QuietReload
    PROVE  Spec => UncertainNeverSucceeds
<1> SUFFICES ASSUME NEW b \in Block
             PROVE  Spec => [](mem[b].st = "uncertain" => [](mem[b].st # "completed"))
  BY DEF UncertainNeverSucceeds
<1> DEFINE Doubt == Doubted(mem[b])
<1>1. mem[b].st = "uncertain" => Doubt BY DEF Doubted
<1>2. LaneInv /\ [Next]_vars => (Doubt => Doubt')
  BY NextKeepsDurableInv DEF LaneInv, MemoryKept, Kept
<1>3. LaneInv => (Doubt => mem[b].st # "completed")
  <2>1. LaneInv => mem[b] \in Entry BY DEF LaneInv, RuntimeInv, TypeOK, Ledger
  <2>2. \A e \in Entry : Doubted(e) => e.st # "completed"
    BY DEF Entry, Absent, Record, Coherent, Doubted
  <2> QED BY <2>1, <2>2
<1> HIDE DEF Doubt
<1> QED BY <1>1, <1>2, <1>3, LaneInvariant, PTL DEF Spec

-----------------------------------------------------------------------------
(* LaneDispatch implements DispatchContract.                               *)

\* A step sends nothing, or sends one block for the first time: a block that
\* was claimed before, or whose claim it publishes.
FirstSend(b) ==
    /\ calls[b] = 0 /\ calls' = [calls EXCEPT ![b] = 1]
    /\ \/ mem' = mem /\ Claimed(mem[b])
       \/ mem[b].st = "sealed" /\ Claimed(mem'[b])

LEMMA SendsOnce ==
    ASSUME RuntimeInv, CallInv, NEW p \in Caller, SendCleanArea(p),
           ClaimDone(p) \/ SelectReturns(p)
    PROVE  FirstSend(blk[p]) /\ blk[p] \in Block
<1>1. blk[p] \in Block /\ calls \in [Block -> Nat]
  BY DEF ClaimDone, SelectReturns, RuntimeInv, WorksOnBlock, TypeOK
<1>2. CASE ClaimDone(p)
  <2>1. /\ mem[blk[p]].st = "sealed" /\ Claimed(mem'[blk[p]])
    BY <1>2 DEF ClaimDone, Publish, RuntimeInv, ClaimIsSaved, Claimed
  <2>2. calls[blk[p]] = 0 BY <1>1, <2>1 DEF CallInv, CallsAreClaimed, Claimed
  <2> QED BY <1>1, <2>1, <2>2 DEF FirstSend, SendCleanArea
<1>3. CASE SelectReturns(p)
  <2>1. mem' = mem /\ calls[blk[p]] = 0 /\ Claimed(mem[blk[p]])
    BY <1>3 DEF SelectReturns, CallInv, CarriersAreClaimed, Dispatched
  <2> QED BY <1>1, <2>1 DEF FirstSend, SendCleanArea
<1> QED BY <1>2, <1>3

LEMMA StepSendsOnce ==
    ASSUME RuntimeInv, CallInv, [Next]_vars
    PROVE  calls' = calls \/ \E b \in Block : FirstSend(b)
<1>1. CASE \E p \in Caller : Handler(p)
  <2>1. PICK p \in Caller : Handler(p) BY <1>1
  <2>2. CASE (ClaimDone(p) \/ SelectReturns(p)) /\ SendCleanArea(p) BY <2>2, SendsOnce
  <2>3. CASE ~((ClaimDone(p) \/ SelectReturns(p)) /\ SendCleanArea(p))
    BY <2>1, <2>3 DEF Handler, StartSeals, StartCancelsDryRun, StartFindsExisting, SealDone,
       CancelDryRunDone, SaveRefused, PreflightFails, SelectorLost, Claim, ClaimLost,
       ClaimDone, SelectReturns, CallReturns, CallFails, AcceptBegins, AcceptSkipped,
       AcceptDone, QuarantineBegins, QuarantineSkipped, QuarantineDone
  <2> QED BY <2>2, <2>3
<1>2. CASE WriteLands \/ SaveFails \/ Operator \/ Observer \/ Lifecycle
  BY <1>2 DEF WriteLands, SaveFails, Operator, CancelBlock, ResolveUncertainRun, EditPlan,
     OperatorBegins, OperatorDone, Observer, Observe, FailClosed, ObservationApplies,
     ObservationDone, Lifecycle, Setup, UnloadBegins, UnloadFails, UnloadDone, StaleWrite,
     Crash
<1>3. CASE UNCHANGED vars BY <1>3 DEF vars
<1> QED BY <1>1, <1>2, <1>3 DEF Next

\* The phases of ledger L, as the contract sees them.
Phases(L) == [b \in Block |-> PhaseOf(L[b])]

LEMMA OnlyOneMoves ==
    ASSUME NEW L, NEW M, OnePhaseOn(L, M), NEW b \in Block, PhaseOf(M[b]) # PhaseOf(L[b])
    PROVE  Phases(M) = [Phases(L) EXCEPT ![b] = PhaseOf(M[b])]
<1> DEFINE moved == {c \in Block : PhaseOf(M[c]) # PhaseOf(L[c])}
<1>1. \A c, d \in moved : c = d BY DEF OnePhaseOn
<1>2. \A c \in Block \ {b} : PhaseOf(M[c]) = PhaseOf(L[c]) BY <1>1
<1>3. \A c \in Block : PhaseOf(M[c]) = [Phases(L) EXCEPT ![b] = PhaseOf(M[b])][c]
  BY <1>2 DEF Phases
<1> QED BY <1>3 DEF Phases

\* A contract block is unfinished exactly when its ledger entry is open.
LEMMA UnfinishedIsOpen == Contract!Unfinished = OpenBlocks(mem)
<1>1. \A b \in Block : PhaseOf(mem[b]) \in {"planned", "claimed"} <=> Open(mem[b])
  BY PhaseCases DEF Open, TerminalBlock
<1> QED BY <1>1 DEF Contract!Unfinished, OpenBlocks

\* One move of one block is a step of the contract or a stuttering step.
LEMMA OnePhaseIsContract ==
    ASSUME OnePhaseOn(mem, mem'), calls' = calls
    PROVE  [Contract!ContractNext]_Contract!cvars
<1>1. CASE \A b \in Block : PhaseOf(mem'[b]) = PhaseOf(mem[b])
  BY <1>1 DEF Contract!cvars
<1>2. CASE \E b \in Block : PhaseOf(mem'[b]) # PhaseOf(mem[b])
  <2>1. PICK b \in Block : PhaseOf(mem'[b]) # PhaseOf(mem[b]) BY <1>2
  <2>2. Phases(mem') = [Phases(mem) EXCEPT ![b] = PhaseOf(mem'[b])]
    BY <2>1, OnlyOneMoves
  <2>3. Contract!Move(b, PhaseOf(mem[b]), PhaseOf(mem'[b]))
    BY <2>2 DEF Phases, Contract!Move
  <2>4. CASE Onward(mem[b], mem'[b])
    BY <2>3, <2>4 DEF Onward, Contract!ContractNext, Contract!Drop, Contract!ClaimWork,
                      Contract!Finish
  <2>5. CASE OpenBlocks(mem) = {} /\ PhaseOf(mem[b]) = "none" /\ PhaseOf(mem'[b]) = "planned"
    BY <2>3, <2>5, UnfinishedIsOpen DEF Contract!ContractNext, Contract!Plan
  <2> QED BY <2>1, <2>4, <2>5 DEF OnePhaseOn
<1> QED BY <1>1, <1>2

\* A first call is a Send, or a ClaimAndSend when its claim is published with it.
LEMMA FirstSendIsContract ==
    ASSUME OnePhaseOn(mem, mem'), NEW b \in Block, FirstSend(b)
    PROVE  Contract!ContractNext
<1>1. CASE mem' = mem /\ Claimed(mem[b])
  <2>1. PhaseOf(mem[b]) \in {"claimed", "done"} BY <1>1, PhaseCases DEF Claimed
  <2>2. Contract!Send(b) BY <1>1, <2>1 DEF FirstSend, Contract!Send
  <2> QED BY <2>2 DEF Contract!ContractNext
<1>2. CASE mem[b].st = "sealed" /\ Claimed(mem'[b])
  <2>1. PhaseOf(mem[b]) = "planned" /\ PhaseOf(mem'[b]) \in {"claimed", "done"}
    BY <1>2, PhaseCases DEF Claimed
  <2>2. PhaseOf(mem'[b]) = "claimed" BY <2>1 DEF OnePhaseOn, Onward
  <2>3. Phases(mem') = [Phases(mem) EXCEPT ![b] = "claimed"]
    BY <2>1, <2>2, OnlyOneMoves
  <2>4. Contract!ClaimAndSend(b)
    BY <2>1, <2>3 DEF FirstSend, Phases, Contract!ClaimAndSend, Contract!Move
  <2> QED BY <2>4 DEF Contract!ContractNext
<1> QED BY <1>1, <1>2 DEF FirstSend

\* The lane, with its handlers, saves, crashes and reloads, does nothing that
\* the dispatch contract does not allow: plan, drop, claim, send once, finish.
THEOREM LaneKeepsContract ==
    ASSUME QuietReload
    PROVE  Spec => KeepsContract
<1>1. Init => Contract!ContractInit
  <2>1. \A b \in Block : PhaseOf(EmptyLedger[b]) = "none"
    BY PhaseCases DEF EmptyLedger, Absent
  <2> QED BY <2>1 DEF Init, Contract!ContractInit
<1>2. LaneInv /\ [Next]_vars => [Contract!ContractNext]_Contract!cvars
  <2> SUFFICES ASSUME LaneInv, [Next]_vars
               PROVE  [Contract!ContractNext]_Contract!cvars
    OBVIOUS
  <2>1. RuntimeInv /\ DurableInv /\ CallInv BY DEF LaneInv, DurableInv, CallInv
  <2>2. OnePhaseOn(mem, mem') BY <2>1, NextKeepsDurableInv
  <2> QED BY <2>1, <2>2, StepSendsOnce, OnePhaseIsContract, FirstSendIsContract
<1> QED BY <1>1, <1>2, LaneInvariant, PTL DEF Spec, KeepsContract, Contract!ContractSpec
=============================================================================
