--------------------------- MODULE LaneLifeProofs ---------------------------
(***************************************************************************)
(* What one runtime of LaneDispatch guarantees while it lives, also when   *)
(* runtimes detached before it still write to its store file: none of      *)
(* these theorems assumes QuietReload.                                     *)
(***************************************************************************)
EXTENDS LaneDispatchProofs

\* The part of LifeInv that is about memory, file and saves.
LifeStore == OneOpenBlock /\ SaveIsOneOpen /\ OwedIsOneOpen /\ SaveIsNext
\* What LifeIsOrderly says of a step.
Orderly == OnePhaseOn(mem, mem') /\ MemoryKept

-----------------------------------------------------------------------------
(* Every store step of a living runtime is orderly.                        *)

LEMMA EqualIsOrderly ==
    ASSUME mem' = mem
    PROVE  Orderly
BY NoMove DEF Orderly, MemoryKept, Kept

LEMMA LiveMoveIsOrderly ==
    ASSUME TypeOK, LifeStore, LiveMove
    PROVE  Orderly /\ OneOpenBlock' /\ SaveIsOneOpen' /\ SaveIsNext'
<1> USE DEF LifeStore, OneOpenBlock, SaveIsOneOpen, SaveIsNext, LockFree
<1>0. Nobody.by = "nobody" BY NobodyTyped
<1>1. CASE SaveBegins
  <2>1. AtMostOneOpen(cmd'.next) /\ OnePhaseOn(mem, cmd'.next)
        /\ \A b \in Block : Kept(mem[b], cmd'.next[b])
    BY <1>1 DEF SaveBegins, Follows
  <2> QED BY <1>1, <2>1, EqualIsOrderly DEF SaveBegins
<1>2. CASE SavePublished
  BY <1>0, <1>2 DEF SavePublished, Orderly, MemoryKept
<1>3. CASE SaveDropped BY <1>0, <1>3, EqualIsOrderly DEF SaveDropped
<1>4. CASE SaveLands BY <1>4, EqualIsOrderly DEF SaveLands
<1>5. CASE LockStays BY <1>5, EqualIsOrderly DEF LockStays
<1> QED BY <1>1, <1>2, <1>3, <1>4, <1>5 DEF LiveMove

\* What a detached runtime still writes has one open block at most.
LEMMA OwedHasOneOpen ==
    ASSUME TypeOK, LifeStore, NEW i \in DOMAIN Owed
    PROVE  AtMostOneOpen(Owed[i])
<1> DEFINE inFlight == IF LockFree \/ cmd.durable THEN <<>> ELSE <<cmd.next>>
           known == IF cmd.by = "observer" THEN cmd.next ELSE mem
           o == [kind |-> "uncertain", fresh |-> LatchIsFresh]
           latched == Apply(o, known)
<1>1. known \in Ledger /\ AtMostOneOpen(known)
  BY DEF TypeOK, LifeStore, OneOpenBlock, SaveIsOneOpen, LockFree
<1>2. o.kind \in Outcome /\ o.fresh \in BOOLEAN BY DEF Outcome, LatchIsFresh
<1>3. inFlight \in Seq(Ledger) /\ \A j \in DOMAIN inFlight : AtMostOneOpen(inFlight[j])
  BY EmptySeq DEF TypeOK, LifeStore, SaveIsOneOpen
<1>4. Owed = IF LatchPending /\ latched # known THEN Append(inFlight, latched) ELSE inFlight
  BY DEF Owed
<1> HIDE DEF inFlight, known, o
<1>5. latched \in Ledger /\ AtMostOneOpen(latched)
  BY <1>1, <1>2, ApplyFollows DEF Follows
<1> HIDE DEF latched
<1>6. \A j \in DOMAIN Append(inFlight, latched) :
        AtMostOneOpen(Append(inFlight, latched)[j])
  BY <1>3, <1>5, AppendProperties
<1> QED BY <1>3, <1>4, <1>6

LEMMA StepKeepsLifeStore ==
    ASSUME RuntimeInv, LifeStore, [Next]_vars
    PROVE  LifeStore' /\ (up # "down" => Orderly)
<1>0. TypeOK BY DEF RuntimeInv
<1>1. CASE LiveMove /\ stale' = stale
  BY <1>0, <1>1, LiveMoveIsOrderly DEF LifeStore, OwedIsOneOpen
<1>2. CASE Setup
  <2>1. Recovers /\ stale' = stale BY <1>2, SetupRecovers
  <2>2. AtMostOneOpen(Recover(disk))
    BY <1>0, RecoverFollows DEF TypeOK, Follows, LifeStore, OneOpenBlock
  <2> QED BY <1>2, <2>1, <2>2 DEF Recovers, Setup, LifeStore, OneOpenBlock, SaveIsOneOpen,
             OwedIsOneOpen, SaveIsNext, LockFree
<1>3. CASE UnloadDone
  <2>1. SaveDropped /\ stale' = stale \o Owed BY <1>3 DEF UnloadDone, SaveDropped
  <2>2. LiveMove BY <2>1 DEF LiveMove
  <2>3. stale \in Seq(Ledger) /\ Owed \in Seq(Ledger) BY <1>0, OwedIsLedgers DEF TypeOK
  <2>4. OwedIsOneOpen'
    BY <1>0, <2>1, <2>3, OwedHasOneOpen, ConcatProperties DEF LifeStore, OwedIsOneOpen
  <2> QED BY <1>0, <2>2, <2>4, LiveMoveIsOrderly DEF LifeStore
<1>4. CASE StaleWrite
  <2>1. /\ mem' = mem /\ cmd' = cmd /\ stale # <<>> /\ stale' = Tail(stale)
        /\ disk' \in {disk, Head(stale)}
    BY <1>4 DEF StaleWrite
  <2>2. stale \in Seq(Ledger) BY <1>0 DEF TypeOK
  <2>3. AtMostOneOpen(Head(stale)) /\ OwedIsOneOpen'
    BY <2>1, <2>2, HeadTailProperties DEF LifeStore, OwedIsOneOpen
  <2> QED BY <2>1, <2>3, EqualIsOrderly DEF LifeStore, OneOpenBlock, SaveIsOneOpen,
             SaveIsNext, LockFree
<1>5. CASE Crash
  <2>1. SaveDropped /\ stale' = <<>> BY <1>5 DEF Crash, SaveDropped
  <2>2. LiveMove /\ OwedIsOneOpen' BY <2>1 DEF LiveMove, OwedIsOneOpen
  <2> QED BY <1>0, <2>2, LiveMoveIsOrderly DEF LifeStore
<1>6. CASE UNCHANGED vars
  BY <1>0, <1>1, <1>6 DEF vars, LiveMove, LockStays
<1> QED BY <1>1, <1>2, <1>3, <1>4, <1>5, <1>6, HandlerMovesStore, RestMovesStore
        DEF Next, Lifecycle

\* LifeInv is invariant for every set of blocks, handlers and faults and
\* whatever runtimes were detached in the middle of a write.
THEOREM LifeInvariant == Spec => []LifeInv
<1>1. Init => LifeStore
  <2> SUFFICES ASSUME Init PROVE LifeStore OBVIOUS
  <2>1. OneOpenBlock /\ SaveIsOneOpen BY InitDurableInv DEF DurableInv
  <2>2. LockFree BY NobodyTyped DEF Init, LockFree
  <2>3. OwedIsOneOpen /\ SaveIsNext BY <2>2 DEF Init, OwedIsOneOpen, SaveIsNext
  <2> QED BY <2>1, <2>3 DEF LifeStore
<1>2. RuntimeInv /\ LifeStore /\ [Next]_vars => LifeStore' BY StepKeepsLifeStore
<1>3. RuntimeInv /\ LifeStore => LifeInv BY DEF LifeInv, LifeStore
<1> QED BY <1>1, <1>2, <1>3, RuntimeInvariant, PTL DEF Spec

\* A lane never has two open blocks, neither in memory nor in the file, not
\* even after a write of a detached runtime replaced the file.
THEOREM LaneHasOneBlock == Spec => []OneOpenBlock
<1>1. LifeInv => OneOpenBlock BY DEF LifeInv
<1> QED BY <1>1, LifeInvariant, PTL

\* While a runtime lives, no step loses a claim, a doubt or an outcome, and
\* each step makes at most one move of the dispatch contract.
THEOREM LifeOrderly == Spec => LifeIsOrderly
<1>1. LifeInv /\ [Next]_vars
      => [up # "down" => OnePhaseOn(mem, mem') /\ \A b \in Block : Kept(mem[b], mem'[b])]_vars
  BY StepKeepsLifeStore DEF LifeInv, LifeStore, Orderly, MemoryKept
<1> QED BY <1>1, LifeInvariant, PTL DEF Spec, LifeIsOrderly

\* What remains of OneCallInFlight, which the code does not keep: of the handlers of
\* one runtime that carry a block to the vacuum, one at most carries a block that is
\* still open, so that a second call leaves only after an event closed the block of
\* the first (start_due_block on the published ledger).
OpenCallIsAlone ==
    \A p, q \in Caller :
        /\ pc[p] \in Dispatched /\ cur[p] /\ Open(mem[blk[p]])
        /\ pc[q] \in Dispatched /\ cur[q] /\ Open(mem[blk[q]])
        => p = q

\* With every fault, and whatever detached runtimes still write, two handlers of one
\* runtime are never on their way with open blocks at the same time.
THEOREM OpenCallsAreAlone == Spec => []OpenCallIsAlone
<1>1. ASSUME LifeInv, NEW p \in Caller, NEW q \in Caller,
             pc[p] \in Dispatched, cur[p], Open(mem[blk[p]]),
             pc[q] \in Dispatched, cur[q], Open(mem[blk[q]])
      PROVE  p = q
  <2>1. blk[p] \in Block /\ blk[q] \in Block
    BY <1>1 DEF LifeInv, RuntimeInv, WorksOnBlock, Dispatched
  <2>2. blk[p] = blk[q]
    BY <1>1, <2>1 DEF LifeInv, OneOpenBlock, AtMostOneOpen, OpenBlocks
  <2> QED BY <1>1, <2>2 DEF LifeInv, RuntimeInv, CurrentIsExclusive
<1>2. LifeInv => OpenCallIsAlone BY <1>1 DEF OpenCallIsAlone
<1> QED BY <1>2, LifeInvariant, PTL

-----------------------------------------------------------------------------
(* The calls of one runtime.                                               *)

\* Handler p sends block b: with the claim it publishes, or after its selector.
SendsOf(p, b) ==
    /\ calls' = [calls EXCEPT ![b] = @ + 1]
    /\ cur[p] /\ topo /\ blk[p] = b /\ b \in Block /\ Goto(p, "calling")
    /\ \/ ClaimDone(p)
       \/ SelectReturns(p)

\* A step sends, or a handler goes to its selector, or it is quiet, or it claims.
LEMMA StepOfCalls ==
    ASSUME RuntimeInv, [Next]_vars
    PROVE  \/ \E p \in Caller, b \in Block : SendsOf(p, b)
           \/ \E p \in Caller : ClaimDone(p) /\ Goto(p, "selecting") /\ calls' = calls
           \/ \E p \in Caller : Claim(p) /\ calls' = calls
           \/ Quietly
<1>1. CASE \E p \in Caller : Handler(p)
  <2>1. PICK p \in Caller : Handler(p) BY <1>1
  <2>2. CASE Claim(p) BY <2>2 DEF Claim
  <2>3. CASE ClaimDone(p)
    <3>1. blk[p] \in Block /\ cur[p] /\ topo
      BY <2>3 DEF ClaimDone, CommandGuard, RuntimeInv, WorksOnBlock
    <3> QED BY <2>3, <3>1 DEF ClaimDone, SendsOf, SendCleanArea
  <2>4. CASE SelectReturns(p) /\ CommandGuard(p)
    <3>1. blk[p] \in Block /\ cur[p] /\ topo
      BY <2>4 DEF SelectReturns, CommandGuard, RuntimeInv, WorksOnBlock
    <3> QED BY <2>4, <3>1 DEF SelectReturns, SendsOf, SendCleanArea
  <2> QED BY <2>1, <2>2, <2>3, <2>4, HandlerIsQuiet
<1>2. CASE WriteLands \/ SaveFails \/ Operator \/ Observer \/ Lifecycle
  BY <1>2, RestIsQuiet
<1>3. CASE UNCHANGED vars
  BY <1>3 DEF vars, callVars, Quietly, Carrier, Dispatched
<1> QED BY <1>1, <1>2, <1>3 DEF Next

\* The block of a current handler that publishes its claim was sealed, and no
\* other current handler carries the block that is sent.
LEMMA SenderIsAlone ==
    ASSUME RuntimeInv, NEW p \in Caller, NEW b \in Block, blk[p] = b, cur[p],
           ClaimDone(p) \/ SelectReturns(p)
    PROVE  /\ ClaimDone(p) => mem[b].st = "sealed" /\ Claimed(mem'[b])
           /\ SelectReturns(p) => pc[p] = "selecting" /\ Claimed(mem[b]) /\ mem' = mem
           /\ \A q \in Caller \ {p} : cur[q] /\ pc[q] \in Dispatched => blk[q] # b
<1>1. ClaimDone(p) => mem[b].st = "sealed" /\ Claimed(mem'[b])
  BY DEF ClaimDone, Publish, RuntimeInv, ClaimIsSaved, Claimed
<1>2. \A q \in Caller : cur[q] /\ pc[q] \in Dispatched => Applies(mem[blk[q]])
  BY DEF RuntimeInv, ResultApplies
<1>3. \A e : Applies(e) => Claimed(e) /\ e.st # "sealed" BY DEF Applies, Settled, Claimed
<1>4. SelectReturns(p) => pc[p] = "selecting" /\ Claimed(mem[b]) /\ mem' = mem
  BY <1>2, <1>3 DEF SelectReturns, Dispatched
<1>5. CASE ClaimDone(p) BY <1>1, <1>2, <1>3, <1>4, <1>5
<1>6. CASE SelectReturns(p)
  BY <1>1, <1>4, <1>6 DEF RuntimeInv, CurrentIsExclusive, Dispatched
<1> QED BY <1>5, <1>6

\* clean_area leaves only a runtime that is set up and not latched, for a claim
\* that is published and that no other handler of this runtime carries.
THEOREM CallsUnderGuard == Spec => SendsUnderGuard
<1>1. ASSUME RuntimeInv, [Next]_vars, NEW b \in Block, calls'[b] # calls[b]
      PROVE  /\ up = "up" /\ topo /\ Claimed(mem'[b])
             /\ \E p \in Caller :
                  /\ cur[p] /\ blk[p] = b /\ pc'[p] = "calling"
                  /\ mem[b].st = "sealed" \/ pc[p] = "selecting"
                  /\ \A q \in Caller \ {p} : cur[q] /\ pc[q] \in Dispatched => blk[q] # b
  <2>1. PICK p \in Caller, c \in Block : SendsOf(p, c)
    BY <1>1, StepOfCalls DEF Quietly
  <2>2. c = b BY <1>1, <2>1 DEF SendsOf, RuntimeInv, TypeOK
  <2>3. up = "up" /\ topo /\ cur[p] /\ blk[p] = b
    BY <1>1, <2>1, <2>2 DEF SendsOf, RuntimeInv, CurrentIsUp
  <2>4. pc'[p] = "calling"
    BY <1>1, <2>1 DEF SendsOf, Goto, RuntimeInv, TypeOK
  <2>5. ClaimDone(p) \/ SelectReturns(p) BY <2>1 DEF SendsOf
  <2> QED BY <1>1, <2>3, <2>4, <2>5, SenderIsAlone
<1>2. RuntimeInv /\ [Next]_vars
      => [\A b \in Block : calls'[b] # calls[b] =>
            /\ up = "up" /\ topo /\ Claimed(mem'[b])
            /\ \E p \in Caller :
                 /\ cur[p] /\ blk[p] = b /\ pc'[p] = "calling"
                 /\ mem[b].st = "sealed" \/ pc[p] = "selecting"
                 /\ \A q \in Caller \ {p} : cur[q] /\ pc[q] \in Dispatched => blk[q] # b
         ]_vars
  BY <1>1
<1> QED BY <1>2, RuntimeInvariant, PTL DEF Spec, SendsUnderGuard

-----------------------------------------------------------------------------
(* LaneDispatch implements LaneWork.                                       *)

\* The work of a ledger whose only open entry became f.
WorkLeft(f) == IF Open(f) THEN WorkIn(f) ELSE "idle"

LEMMA WorkInCases ==
    ASSUME NEW e
    PROVE  /\ e.st = "sealed" => WorkIn(e) = "sealed"
           /\ e.st \in ActiveBlock /\ e.job \in ActiveJob => WorkIn(e) = "active"
           /\ e.st \in ActiveBlock /\ e.job \notin ActiveJob => WorkIn(e) = "resumed"
           /\ e.st = "uncertain" /\ e.job = "uncertain" => WorkIn(e) = "uncertain"
           /\ e.st = "uncertain" /\ e.job # "uncertain" => WorkIn(e) = "stranded"
BY DEF WorkIn, ActiveBlock

LEMMA FreeIsIdle ==
    ASSUME NEW L, \A c \in Block : ~Open(L[c])
    PROVE  WorkOf(L) = "idle"
BY DEF WorkOf, OpenBlocks

LEMMA OpenIsWork ==
    ASSUME NEW L, AtMostOneOpen(L), NEW b \in Block, Open(L[b])
    PROVE  WorkOf(L) = WorkIn(L[b])
<1>1. b \in OpenBlocks(L) BY DEF OpenBlocks
<1>2. (CHOOSE c \in OpenBlocks(L) : TRUE) = b BY <1>1 DEF AtMostOneOpen
<1> QED BY <1>1, <1>2 DEF WorkOf

\* An operation that opens no entry leaves the work of the one that was open.
LEMMA WorkAfter ==
    ASSUME NEW L, NEW M, AtMostOneOpen(L), \A c \in Block : Open(M[c]) => Open(L[c]),
           NEW b \in Block, Open(L[b])
    PROVE  WorkOf(L) = WorkIn(L[b]) /\ WorkOf(M) = WorkLeft(M[b])
<1>1. \A c \in Block : Open(M[c]) => c = b BY DEF AtMostOneOpen, OpenBlocks
<1>2. AtMostOneOpen(M) BY <1>1 DEF AtMostOneOpen, OpenBlocks
<1>3. WorkOf(L) = WorkIn(L[b]) BY OpenIsWork
<1>4. CASE Open(M[b])
  <2>1. WorkOf(M) = WorkIn(M[b]) BY <1>2, <1>4, OpenIsWork
  <2> QED BY <1>3, <1>4, <2>1 DEF WorkLeft
<1>5. CASE ~Open(M[b])
  <2>1. WorkOf(M) = "idle" BY <1>1, <1>5, FreeIsIdle
  <2> QED BY <1>3, <1>5, <2>1 DEF WorkLeft
<1> QED BY <1>4, <1>5

LEMMA WorkAfterPut ==
    ASSUME NEW L \in Ledger, AtMostOneOpen(L), NEW b \in Block, Open(L[b]), NEW f
    PROVE  WorkOf(L) = WorkIn(L[b]) /\ WorkOf([L EXCEPT ![b] = f]) = WorkLeft(f)
<1> DEFINE M == [L EXCEPT ![b] = f]
<1>1. \A c \in Block : M[c] = IF c = b THEN f ELSE L[c] BY DEF Ledger
<1>2. \A c \in Block : Open(M[c]) => Open(L[c]) BY <1>1
<1>3. M[b] = f BY <1>1
<1> HIDE DEF M
<1>4. WorkOf(L) = WorkIn(L[b]) /\ WorkOf(M) = WorkLeft(M[b]) BY <1>2, WorkAfter
<1> QED BY <1>3, <1>4 DEF M

\* The edges that lie between two ledgers.
SameWork(L, M) == WorkOf(M) = WorkOf(L)
ByReport(L, M) == <<WorkOf(L), WorkOf(M)>> \in Lane!ReportEdge
ByCommand(L, M) == <<WorkOf(L), WorkOf(M)>> \in Lane!CommandEdge

LEMMA SealIsCommand ==
    ASSUME NEW L \in Ledger, NEW b \in Block, NEW s, LaneIsFree(L)
    PROVE  ByCommand(L, SealNew(L, b, s))
<1> DEFINE M == SealNew(L, b, s)
           e == [st |-> "sealed", job |-> "pending", strat |-> s, com |-> FALSE]
<1>1. \A c \in Block : M[c] = IF c = b THEN e ELSE L[c] BY DEF SealNew, Ledger
<1>2. e.st = "sealed" OBVIOUS
<1> HIDE DEF M, e
<1>3. \A c \in Block : ~Open(L[c]) BY DEF LaneIsFree, OpenBlocks
<1>4. Open(M[b]) /\ AtMostOneOpen(M)
  BY <1>1, <1>2, <1>3 DEF Open, TerminalBlock, AtMostOneOpen, OpenBlocks
<1>5. WorkOf(M) = "sealed" BY <1>1, <1>2, <1>4, OpenIsWork, WorkInCases
<1>6. WorkOf(L) = "idle" BY <1>3, FreeIsIdle
<1> QED BY <1>5, <1>6 DEF ByCommand, Lane!CommandEdge, M

LEMMA CancelIsCommand ==
    ASSUME NEW L \in Ledger, AtMostOneOpen(L), NEW b \in Block, CanCancel(L, b)
    PROVE  ByCommand(L, Cancel(L, b))
<1> DEFINE f == Moved(L[b], "cancelled", "cancelled", L[b].com)
<1>1. Open(L[b]) /\ WorkIn(L[b]) = "sealed"
  BY WorkInCases DEF CanCancel, Open, TerminalBlock
<1>2. WorkLeft(f) = "idle" BY DEF Moved, WorkLeft, Open, TerminalBlock
<1>3. Cancel(L, b) = [L EXCEPT ![b] = f] BY DEF Cancel, Put
<1> HIDE DEF f
<1>4. WorkOf(L) = WorkIn(L[b]) /\ WorkOf([L EXCEPT ![b] = f]) = WorkLeft(f)
  BY <1>1, WorkAfterPut
<1> QED BY <1>1, <1>2, <1>3, <1>4 DEF ByCommand, Lane!CommandEdge

LEMMA ClaimIsCommand ==
    ASSUME NEW L \in Ledger, AtMostOneOpen(L), NEW b \in Block, CanCommit(L, b)
    PROVE  ByCommand(L, BeginCommit(L, b))
<1> DEFINE f == Moved(L[b], "committing", "dispatching", FALSE)
<1>1. Open(L[b]) /\ WorkIn(L[b]) = "sealed"
  BY WorkInCases DEF CanCommit, Open, TerminalBlock
<1>2. WorkLeft(f) = "active"
  BY WorkInCases DEF Moved, WorkLeft, Open, TerminalBlock, ActiveBlock, ActiveJob
<1>3. BeginCommit(L, b) = [L EXCEPT ![b] = f] BY DEF BeginCommit, Put
<1> HIDE DEF f
<1>4. WorkOf(L) = WorkIn(L[b]) /\ WorkOf([L EXCEPT ![b] = f]) = WorkLeft(f)
  BY <1>1, WorkAfterPut
<1> QED BY <1>1, <1>2, <1>3, <1>4 DEF ByCommand, Lane!CommandEdge

LEMMA AcceptKeepsWork ==
    ASSUME NEW L \in Ledger, AtMostOneOpen(L), NEW b \in Block, L[b].st = "committing"
    PROVE  SameWork(L, Accept(L, b))
<1> DEFINE f == Moved(L[b], "committed", "accepted", TRUE)
<1>1. L[b] \in Entry BY DEF Ledger
<1>2. Open(L[b]) /\ WorkIn(L[b]) = "active"
  BY <1>1, WorkInCases DEF Entry, Absent, Record, Coherent, Open, TerminalBlock, ActiveBlock,
              ActiveJob
<1>3. WorkLeft(f) = "active"
  BY WorkInCases DEF Moved, WorkLeft, Open, TerminalBlock, ActiveBlock, ActiveJob
<1>4. Accept(L, b) = [L EXCEPT ![b] = f] BY DEF Accept, Put
<1> HIDE DEF f
<1>5. WorkOf(L) = WorkIn(L[b]) /\ WorkOf([L EXCEPT ![b] = f]) = WorkLeft(f)
  BY <1>2, WorkAfterPut
<1> QED BY <1>2, <1>3, <1>4, <1>5 DEF SameWork

LEMMA QuarantineIsReport ==
    ASSUME NEW L \in Ledger, AtMostOneOpen(L), NEW b \in Block, CanQuarantine(L, b)
    PROVE  ByReport(L, QuarantineDispatch(L, b))
<1> DEFINE f == Moved(L[b], "uncertain", "uncertain", L[b].com)
<1>1. Open(L[b]) /\ WorkIn(L[b]) = "active"
  BY WorkInCases DEF CanQuarantine, Open, TerminalBlock, ActiveBlock, ActiveJob
<1>2. WorkLeft(f) = "uncertain"
  BY WorkInCases DEF Moved, WorkLeft, Open, TerminalBlock, ActiveBlock
<1>3. QuarantineDispatch(L, b) = [L EXCEPT ![b] = f] BY DEF QuarantineDispatch, Put
<1> HIDE DEF f
<1>4. WorkOf(L) = WorkIn(L[b]) /\ WorkOf([L EXCEPT ![b] = f]) = WorkLeft(f)
  BY <1>1, WorkAfterPut
<1> QED BY <1>1, <1>2, <1>3, <1>4 DEF ByReport, Lane!ReportEdge

LEMMA ResolveIsCommand ==
    ASSUME NEW L \in Ledger, AtMostOneOpen(L), NEW b \in Block, CanResolve(L, b)
    PROVE  ByCommand(L, Resolve(L, b))
<1> DEFINE f == Moved(L[b], ResolvedState(L[b]), "failed", L[b].com)
<1>1. L[b] \in Entry BY DEF Ledger
<1>2. Open(L[b]) /\ WorkIn(L[b]) = "uncertain"
  BY WorkInCases DEF CanResolve, Open, TerminalBlock, ActiveBlock
<1>3. ResolvedState(L[b]) \in {"running", "failed"}
  BY <1>1 DEF CanResolve, ResolvedState, Entry, Absent, Record, Coherent
<1>4. WorkLeft(f) \in {"idle", "resumed"}
  BY <1>3, WorkInCases DEF Moved, WorkLeft, Open, TerminalBlock, ActiveBlock, ActiveJob
<1>5. Resolve(L, b) = [L EXCEPT ![b] = f] BY DEF Resolve, Put
<1> HIDE DEF f
<1>6. WorkOf(L) = WorkIn(L[b]) /\ WorkOf([L EXCEPT ![b] = f]) = WorkLeft(f)
  BY <1>2, WorkAfterPut
<1> QED BY <1>2, <1>4, <1>5, <1>6 DEF ByCommand, Lane!CommandEdge

\* An observation ends or doubts active work, and moves nothing else.
LEMMA ApplyEntryReports ==
    ASSUME NEW o, o.kind \in Outcome, o.fresh \in BOOLEAN, NEW e \in Entry, Open(e)
    PROVE  \/ WorkLeft(ApplyEntry(o, e)) = WorkIn(e)
           \/ WorkIn(e) = "active" /\ WorkLeft(ApplyEntry(o, e)) \in {"idle", "uncertain"}
<1>1. ApplyEntry(o, e) \in {ApplyRunning(e, o.fresh), ApplyCompleted(e, o.fresh),
                            ApplyFailed(e, o.fresh), ApplyUncertain(e, o.fresh)}
  <2>1. CASE o.kind = "running" BY <2>1, Zenon DEF ApplyEntry
  <2>2. CASE o.kind = "completed" BY <2>2, Zenon DEF ApplyEntry
  <2>3. CASE o.kind = "failed" BY <2>3, Zenon DEF ApplyEntry
  <2>4. CASE o.kind = "uncertain" BY <2>4, Zenon DEF ApplyEntry
  <2> QED BY <2>1, <2>2, <2>3, <2>4 DEF Outcome
<1> DEFINE Fits(f) == \/ WorkLeft(f) = WorkIn(e)
                      \/ WorkIn(e) = "active" /\ WorkLeft(f) \in {"idle", "uncertain"}
<1> USE DEF Moved, Entry, Absent, Record, Coherent, TerminalBlock, Open, Dispatching,
            Reported, WorkLeft, WorkIn, ActiveBlock, ActiveJob
<1>2. Fits(ApplyRunning(e, o.fresh)) BY DEF ApplyRunning
<1>3. Fits(ApplyCompleted(e, o.fresh)) BY DEF ApplyCompleted
<1>4. Fits(ApplyFailed(e, o.fresh)) BY DEF ApplyFailed
<1>5. Fits(ApplyUncertain(e, o.fresh)) BY DEF ApplyUncertain
<1> HIDE DEF Fits
<1>6. Fits(ApplyEntry(o, e)) BY ONLY <1>1, <1>2, <1>3, <1>4, <1>5
<1> QED BY <1>6 DEF Fits

LEMMA ApplyReports ==
    ASSUME NEW o, o.kind \in Outcome, o.fresh \in BOOLEAN, NEW L \in Ledger,
           AtMostOneOpen(L)
    PROVE  SameWork(L, Apply(o, L)) \/ ByReport(L, Apply(o, L))
<1> DEFINE M == Apply(o, L)
<1>1. \A c \in Block : L[c] \in Entry BY DEF Ledger
<1>2. \A c \in Block : M[c] = ApplyEntry(o, L[c]) BY DEF Apply
<1>3. \A c \in Block : Open(M[c]) => Open(L[c])
  BY <1>1, <1>2, ApplyEntryAdvances DEF Advance
<1> HIDE DEF M
<1>4. CASE \E b \in Block : Open(L[b])
  <2>1. PICK b \in Block : Open(L[b]) BY <1>4
  <2>2. WorkOf(L) = WorkIn(L[b]) /\ WorkOf(M) = WorkLeft(M[b]) BY <1>3, <2>1, WorkAfter
  <2>3. \/ WorkLeft(M[b]) = WorkIn(L[b])
        \/ WorkIn(L[b]) = "active" /\ WorkLeft(M[b]) \in {"idle", "uncertain"}
    BY <1>1, <1>2, <2>1, ApplyEntryReports
  <2> QED BY <2>2, <2>3 DEF SameWork, ByReport, Lane!ReportEdge, M
<1>5. CASE \A b \in Block : ~Open(L[b])
  <2>1. WorkOf(L) = "idle" /\ WorkOf(M) = "idle" BY <1>3, <1>5, FreeIsIdle
  <2> QED BY <2>1 DEF SameWork, M
<1> QED BY <1>4, <1>5

\* A runtime begins without active work.
LEMMA RecoverQuiets ==
    ASSUME NEW L \in Ledger, AtMostOneOpen(L)
    PROVE  WorkOf(Recover(L)) \in Lane!Quiet
<1> DEFINE M == Recover(L)
<1>1. \A c \in Block : L[c] \in Entry BY DEF Ledger
<1>2. \A c \in Block : M[c] = RecoverEntry(L[c]) BY DEF Recover
<1>3. \A e \in Entry : /\ Open(RecoverEntry(e)) => Open(e)
                       /\ WorkLeft(RecoverEntry(e)) \in Lane!Quiet
  BY DEF RecoverEntry, Moved, Entry, Absent, Record, Coherent, TerminalBlock, Open,
         WorkLeft, WorkIn, ActiveBlock, ActiveJob, Lane!Quiet
<1> HIDE DEF M
<1>4. CASE \E b \in Block : Open(L[b])
  <2>1. PICK b \in Block : Open(L[b]) BY <1>4
  <2>2. WorkOf(M) = WorkLeft(M[b]) BY <1>1, <1>2, <1>3, <2>1, WorkAfter
  <2> QED BY <1>1, <1>2, <1>3, <2>2 DEF M
<1>5. CASE \A b \in Block : ~Open(L[b])
  <2>1. WorkOf(M) = "idle" BY <1>1, <1>2, <1>3, <1>5, FreeIsIdle
  <2> QED BY <2>1 DEF Lane!Quiet, M
<1> QED BY <1>4, <1>5

\* A save begins on an edge, for an owner who may move along it.
LEMMA HandlerSavesEdge ==
    ASSUME RuntimeInv, OneOpenBlock, NEW p \in Caller, Handler(p), LockFree, ~LockFree'
    PROVE  SaveIsEdge' /\ mem' = mem
<1> USE DEF RuntimeInv, TypeOK, OneOpenBlock, LockFree
<1>1. ASSUME NEW N, mem' = mem, cmd'.by = p, cmd'.next = N,
             \/ SameWork(mem, N) \/ ByReport(mem, N)
             \/ ByCommand(mem, N) /\ pc'[p] \in {"sealing", "cancelling", "claiming"}
      PROVE  SaveIsEdge'
  BY <1>1 DEF SaveIsEdge, SaveIsCommand, SameWork, ByReport, ByCommand
<1>2. CASE StartSeals(p)
  <2>1. PICK b \in Block :
          /\ BeginSave(p, SealNew(mem, b, IF dry THEN "planner_sequential" ELSE "native_batch"))
          /\ Enter(p, "sealing", b)
    BY <1>2 DEF StartSeals
  <2> DEFINE N == SealNew(mem, b, IF dry THEN "planner_sequential" ELSE "native_batch")
  <2>2. ByCommand(mem, N) BY <1>2, SealIsCommand DEF StartSeals
  <2>3. mem' = mem /\ BeginSave(p, N) /\ Enter(p, "sealing", b) BY <1>2, <2>1 DEF StartSeals
  <2> HIDE DEF N
  <2>4. pc'[p] = "sealing" BY <2>3 DEF Enter
  <2> QED BY <1>1, <2>2, <2>3, <2>4 DEF BeginSave
<1>3. CASE StartCancelsDryRun(p)
  <2>1. PICK b \in Block : /\ CanCancel(mem, b) /\ BeginSave(p, Cancel(mem, b))
                           /\ Enter(p, "cancelling", b)
    BY <1>3 DEF StartCancelsDryRun
  <2>2. ByCommand(mem, Cancel(mem, b)) BY <2>1, CancelIsCommand
  <2>3. mem' = mem /\ pc'[p] = "cancelling" BY <1>3, <2>1 DEF StartCancelsDryRun, Enter
  <2> QED BY <1>1, <2>1, <2>2, <2>3 DEF BeginSave
<1>4. CASE Claim(p)
  <2>1. blk[p] \in Block BY <1>4 DEF Claim, WorksOnBlock
  <2>2. ByCommand(mem, BeginCommit(mem, blk[p])) BY <1>4, <2>1, ClaimIsCommand DEF Claim
  <2>3. mem' = mem /\ pc'[p] = "claiming" BY <1>4 DEF Claim, Goto
  <2> QED BY <1>1, <1>4, <2>2, <2>3 DEF Claim, BeginSave
<1>5. CASE AcceptBegins(p)
  <2>1. blk[p] \in Block BY <1>5 DEF AcceptBegins, WorksOnBlock
  <2>2. mem[blk[p]].st = "committing"
    BY <1>5 DEF AcceptBegins, ResultApplies, Applies, CommandGuard, Dispatched
  <2>3. SameWork(mem, Accept(mem, blk[p])) BY <2>1, <2>2, AcceptKeepsWork
  <2> QED BY <1>1, <1>5, <2>3 DEF AcceptBegins, BeginSave
<1>6. CASE QuarantineBegins(p)
  <2>1. blk[p] \in Block BY <1>6 DEF QuarantineBegins, WorksOnBlock
  <2>2. ByReport(mem, QuarantineDispatch(mem, blk[p]))
    BY <1>6, <2>1, QuarantineIsReport DEF QuarantineBegins
  <2> QED BY <1>1, <1>6, <2>2 DEF QuarantineBegins, BeginSave
<1>7. CASE ~(StartSeals(p) \/ StartCancelsDryRun(p) \/ Claim(p) \/ AcceptBegins(p)
             \/ QuarantineBegins(p))
  <2>1. cmd' = cmd \/ cmd' = Nobody
    BY <1>7 DEF Handler, StartFindsExisting, SealDone, CancelDryRunDone, SaveRefused,
       PreflightFails, SelectorLost, ClaimLost, ClaimDone, SelectReturns, CallReturns,
       CallFails, AcceptSkipped, AcceptDone, QuarantineSkipped, QuarantineDone, Publish,
       Discard
  <2> QED BY <2>1, NobodyTyped
<1> QED BY <1>2, <1>3, <1>4, <1>5, <1>6, <1>7

LEMMA RestSavesEdge ==
    ASSUME RuntimeInv, OneOpenBlock, LockFree, ~LockFree',
           WriteLands \/ SaveFails \/ Operator \/ Observer \/ Lifecycle
    PROVE  SaveIsEdge' /\ mem' = mem
<1> USE DEF RuntimeInv, TypeOK, OneOpenBlock, LockFree
<1>1. CASE \E b \in Block : CancelBlock(b)
  <2>1. PICK b \in Block : CancelBlock(b) BY <1>1
  <2>2. ByCommand(mem, Cancel(mem, b)) BY <2>1, CancelIsCommand DEF CancelBlock
  <2> QED BY <2>1, <2>2 DEF CancelBlock, OperatorBegins, BeginSave, SaveIsEdge, SaveIsCommand,
                            ByCommand
<1>2. CASE \E b \in Block : ResolveUncertainRun(b)
  <2>1. PICK b \in Block : ResolveUncertainRun(b) BY <1>2
  <2>2. ByCommand(mem, Resolve(mem, b)) BY <2>1, ResolveIsCommand DEF ResolveUncertainRun
  <2> QED BY <2>1, <2>2 DEF ResolveUncertainRun, OperatorBegins, BeginSave, SaveIsEdge,
                            SaveIsCommand, ByCommand
<1>3. CASE EditPlan
  BY <1>3 DEF EditPlan, OperatorBegins, BeginSave, SaveIsEdge
<1>4. CASE ObservationApplies
  <2>1. Head(obs) \in Observation BY <1>4, HeadTailProperties DEF ObservationApplies
  <2> DEFINE N == Apply(Head(obs), mem)
  <2>2. SameWork(mem, N) \/ ByReport(mem, N) BY <2>1, ApplyReports DEF Observation
  <2>3. mem' = mem /\ (UNCHANGED cmd \/ BeginSave("observer", N))
    BY <1>4 DEF ObservationApplies
  <2> HIDE DEF N
  <2>4. ~UNCHANGED cmd OBVIOUS
  <2>5. cmd'.next = N BY <2>3, <2>4 DEF BeginSave
  <2>6. WorkOf(cmd'.next) = WorkOf(N) /\ WorkOf(mem)' = WorkOf(mem) BY <2>3, <2>5
  <2> QED BY <2>2, <2>3, <2>6 DEF SaveIsEdge, SameWork, ByReport
<1>5. CASE ~((\E b \in Block : CancelBlock(b) \/ ResolveUncertainRun(b))
             \/ EditPlan \/ ObservationApplies)
  <2>1. CASE UnloadBegins
    <3>1. cmd'.by = cmd.by BY <2>1 DEF UnloadBegins
    <3> QED BY <3>1
  <2>2. CASE ~UnloadBegins
    <3>1. cmd' = cmd \/ cmd' = Nobody
      BY <1>5, <2>2 DEF WriteLands, SaveFails, Operator, OperatorDone, Observer, Observe,
         FailClosed, ObservationDone, Lifecycle, Setup, UnloadFails, UnloadDone, StaleWrite,
         Crash, Publish, Discard
    <3> QED BY <3>1, NobodyTyped
  <2> QED BY <2>1, <2>2
<1> QED BY <1>1, <1>2, <1>3, <1>4, <1>5

\* While the lock is held memory stays, and so do the save and its owner.
HeldStays ==
    /\ mem' = mem /\ cmd'.next = cmd.next /\ cmd'.by = cmd.by
    /\ \A q \in Caller : cmd.by = q => pc'[q] = pc[q] /\ blk'[q] = blk[q]

LEMMA HandlerHolds ==
    ASSUME RuntimeInv, NEW p \in Caller, Handler(p), ~LockFree, ~LockFree'
    PROVE  HeldStays
<1> USE NobodyTyped DEF LockFree
<1>1. pc \in [Caller -> PC] /\ blk \in [Caller -> Block \cup {NoBlock}]
  BY DEF RuntimeInv, TypeOK
<1>2. cmd' # Nobody OBVIOUS
<1>3. cmd' = cmd /\ mem' = mem /\ pc[p] \notin Saving
  BY <1>2 DEF Handler, StartSeals, StartCancelsDryRun, StartFindsExisting, CanStart, SealDone,
     CancelDryRunDone, SaveRefused, PreflightFails, SelectorLost, Claim, ClaimLost,
     ClaimDone, SelectReturns, CallReturns, CallFails, AcceptBegins, AcceptSkipped,
     AcceptDone, QuarantineBegins, QuarantineSkipped, QuarantineDone, Publish, Discard,
     Saving, LockFree
<1>4. cmd.by # p BY <1>3 DEF RuntimeInv, LockOwner
<1>5. \A q \in Caller \ {p} : pc'[q] = pc[q] /\ blk'[q] = blk[q]
  BY <1>1 DEF Handler, StartSeals, StartCancelsDryRun, StartFindsExisting, SealDone,
     CancelDryRunDone, SaveRefused, PreflightFails, SelectorLost, Claim, ClaimLost,
     ClaimDone, SelectReturns, CallReturns, CallFails, AcceptBegins, AcceptSkipped,
     AcceptDone, QuarantineBegins, QuarantineSkipped, QuarantineDone, Ambiguous,
     Return, Goto, Enter
<1> QED BY <1>3, <1>4, <1>5 DEF HeldStays

LEMMA RestHolds ==
    ASSUME RuntimeInv, ~LockFree, ~LockFree',
           WriteLands \/ SaveFails \/ Operator \/ Observer \/ Lifecycle
    PROVE  HeldStays
<1> USE NobodyTyped DEF LockFree
<1>1. ~Setup BY DEF Setup, RuntimeInv, DownIsQuiet
<1>2. cmd' # Nobody OBVIOUS
<1>3. mem' = mem /\ pc' = pc /\ blk' = blk
  BY <1>1, <1>2 DEF WriteLands, SaveFails, Operator, CancelBlock, ResolveUncertainRun,
     EditPlan, OperatorBegins, OperatorDone, Observer, Observe, FailClosed,
     ObservationApplies, ObservationDone, Lifecycle, UnloadBegins, UnloadFails, UnloadDone,
     StaleWrite, Crash, Publish, Discard, callVars
<1>4. \/ cmd' = cmd
      \/ cmd' = [cmd EXCEPT !.durable = TRUE]
      \/ cmd' = [cmd EXCEPT !.cur = FALSE]
  BY <1>1, <1>2 DEF WriteLands, SaveFails, Operator, CancelBlock, ResolveUncertainRun,
     EditPlan, OperatorBegins, OperatorDone, Observer, Observe, FailClosed,
     ObservationApplies, ObservationDone, Lifecycle, UnloadBegins, UnloadFails, UnloadDone,
     StaleWrite, Crash, Publish, Discard
<1>5. cmd'.by = cmd.by /\ cmd'.next = cmd.next BY <1>4 DEF RuntimeInv, TypeOK
<1> QED BY <1>3, <1>5 DEF HeldStays

LEMMA NextKeepsEdge ==
    ASSUME RuntimeInv, OneOpenBlock, SaveIsEdge, [Next]_vars
    PROVE  SaveIsEdge'
<1>1. CASE LockFree' BY <1>1 DEF SaveIsEdge
<1>2. CASE LockFree /\ ~LockFree'
  BY <1>2, HandlerSavesEdge, RestSavesEdge DEF Next, vars, LockFree
<1>3. CASE ~LockFree /\ ~LockFree'
  <2>1. HeldStays \/ UNCHANGED vars BY <1>3, HandlerHolds, RestHolds DEF Next
  <2>2. HeldStays BY <2>1 DEF HeldStays, vars, callVars
  <2>3. SaveIsCommand => SaveIsCommand' BY <2>2 DEF HeldStays, SaveIsCommand
  <2> QED BY <1>3, <2>2, <2>3 DEF HeldStays, SaveIsEdge, LockFree
<1> QED BY <1>1, <1>2, <1>3

\* In a life memory moves only when the save in flight is published: that of a
\* command under a topology that is not lost, and not lost by that step.
LEMMA MemoryMoves ==
    ASSUME RuntimeInv, Next, up # "down", up' # "down", mem' # mem
    PROVE  ~LockFree /\ mem' = cmd.next /\ topo' = topo /\ (SaveIsCommand => topo)
<1> USE DEF LockFree
<1>0. /\ Nobody.by = "nobody" /\ "nobody" \notin Caller /\ "operator" \notin Caller
      /\ "observer" \notin Caller
  BY NobodyTyped, CallerAssumption
<1>1. CASE \E p \in Caller : Handler(p)
  <2>1. PICK p \in Caller : Handler(p) BY <1>1
  <2>2. /\ mem' = cmd.next /\ cmd.by = p /\ topo' = topo
        /\ topo \/ pc[p] = "quarantining"
    BY <2>1 DEF Handler, StartSeals, StartCancelsDryRun, StartFindsExisting, SealDone,
       CancelDryRunDone, SaveRefused, PreflightFails, SelectorLost, Claim, ClaimLost,
       ClaimDone, SelectReturns, CallReturns, CallFails, AcceptBegins, AcceptSkipped,
       AcceptDone, QuarantineBegins, QuarantineSkipped, QuarantineDone, Publish, Discard,
       Saved, CommandGuard, rtVars
  <2>3. SaveIsCommand => topo BY <1>0, <2>2 DEF SaveIsCommand
  <2> QED BY <1>0, <2>2, <2>3
<1>2. CASE WriteLands \/ SaveFails \/ Operator \/ Observer \/ Lifecycle
  <2>1. \/ OperatorDone /\ topo
        \/ ObservationDone
    BY <1>2 DEF WriteLands, SaveFails, Operator, CancelBlock, ResolveUncertainRun, EditPlan,
       OperatorBegins, OperatorDone, Observer, Observe, FailClosed, ObservationApplies,
       Lifecycle, Setup, UnloadBegins, UnloadFails, UnloadDone, StaleWrite, Crash, Discard
  <2>2. mem' = cmd.next /\ topo' = topo /\ cmd.by \in {"operator", "observer"}
    BY <2>1 DEF OperatorDone, ObservationDone, Publish, Discard, rtVars
  <2>3. SaveIsCommand => topo BY <1>0, <2>1 DEF SaveIsCommand, ObservationDone
  <2> QED BY <1>0, <2>2, <2>3
<1> QED BY <1>1, <1>2 DEF Next

\* The latch is set at most once in a life, by a step that leaves memory alone.
LEMMA LatchMoves ==
    ASSUME Next, up # "down", topo' # topo
    PROVE  topo /\ topo' = FALSE /\ mem' = mem
BY DEF Next, Handler, StartSeals, StartCancelsDryRun, StartFindsExisting, CanStart, SealDone,
   CancelDryRunDone, SaveRefused, PreflightFails, SelectorLost, Claim, ClaimLost, ClaimDone,
   SelectReturns, CallReturns, CallFails, AcceptBegins, AcceptSkipped, AcceptDone,
   QuarantineBegins, QuarantineSkipped, QuarantineDone, CommandGuard, WriteLands, SaveFails,
   Operator, CancelBlock, ResolveUncertainRun, EditPlan, OperatorBegins, OperatorDone,
   Observer, Observe, FailClosed, ObservationApplies, ObservationDone, Lifecycle, Setup,
   UnloadBegins, UnloadFails, UnloadDone, StaleWrite, Crash, rtVars

\* Only a setup brings a runtime up, with what it recovers from the file.
LEMMA SetupComesUp ==
    ASSUME RuntimeInv, Next, up = "down", up' # "down"
    PROVE  Setup
BY CallerAssumption DEF Next, Handler, StartSeals, StartCancelsDryRun, StartFindsExisting,
   CanStart, SealDone,
   CancelDryRunDone, SaveRefused, PreflightFails, SelectorLost, Claim, ClaimLost, ClaimDone,
   SelectReturns, CallReturns, CallFails, AcceptBegins, AcceptSkipped, AcceptDone,
   QuarantineBegins, QuarantineSkipped, QuarantineDone, CommandGuard, WriteLands, SaveFails,
   Operator, CancelBlock, ResolveUncertainRun, EditPlan, OperatorBegins, OperatorDone,
   Observer, Observe, FailClosed, ObservationApplies, ObservationDone, Lifecycle,
   UnloadBegins, UnloadFails, UnloadDone, StaleWrite, Crash, rtVars

LEMMA WorkIsNotDown ==
    ASSUME NEW L
    PROVE  WorkOf(L) # "down"
<1>1. \A e : WorkIn(e) # "down" BY DEF WorkIn
<1> QED BY <1>1 DEF WorkOf

LEMMA StepKeepsWork ==
    ASSUME LifeInv, SaveIsEdge, [Next]_vars
    PROVE  [Lane!LaneNext]_(Lane!lvars)
<1> USE DEF Lane!LaneNext, Lane!lvars
<1>0. RuntimeInv /\ topo \in BOOLEAN /\ disk \in Ledger /\ AtMostOneOpen(disk)
  BY DEF LifeInv, RuntimeInv, TypeOK, OneOpenBlock
<1>1. CASE UNCHANGED vars BY <1>1 DEF vars, rtVars
<1>2. CASE Next /\ up = "down" /\ up' # "down"
  <2>1. Setup BY <1>0, <1>2, SetupComesUp
  <2>2. WorkOf(mem') \in Lane!Quiet BY <1>0, <2>1, RecoverQuiets DEF Setup
  <2> QED BY <1>2, <2>1, <2>2 DEF Setup, Lane!Begins
<1>3. CASE up = "down" /\ up' = "down" BY <1>3
<1>4. CASE up # "down" /\ up' = "down"
  BY <1>4, WorkIsNotDown DEF Lane!Ends
<1>5. CASE Next /\ up # "down" /\ up' # "down" /\ mem' # mem
  <2>1. ~LockFree /\ mem' = cmd.next /\ topo' = topo /\ (SaveIsCommand => topo)
    BY <1>0, <1>5, MemoryMoves
  <2>2. \/ WorkOf(mem') = WorkOf(mem)
        \/ <<WorkOf(mem), WorkOf(mem')>> \in Lane!ReportEdge
        \/ topo /\ <<WorkOf(mem), WorkOf(mem')>> \in Lane!CommandEdge
    BY <2>1 DEF SaveIsEdge
  <2> QED BY <1>5, <2>1, <2>2 DEF Lane!Reports, Lane!Commands
<1>6. CASE Next /\ up # "down" /\ up' # "down" /\ mem' = mem
  <2>1. topo' = topo \/ (topo /\ topo' = FALSE) BY <1>6, LatchMoves
  <2> QED BY <1>6, <2>1, WorkIsNotDown DEF Lane!Latches
<1> QED BY <1>1, <1>2, <1>3, <1>4, <1>5, <1>6

\* The open work of the lane moves along the edges of LaneWork in the life of
\* every runtime, also when detached runtimes still write to the store file: a
\* setup begins with recovered work, the saves move it one edge at a time, and
\* the guard after every save keeps a latched runtime from publishing a command.
THEOREM LaneKeepsWork == Spec => KeepsLaneWork
<1>1. Init => Lane!LaneInit BY DEF Init, Lane!LaneInit
<1>2. Init => SaveIsEdge BY NobodyTyped DEF Init, SaveIsEdge, LockFree
<1>3. LifeInv /\ SaveIsEdge /\ [Next]_vars => SaveIsEdge'
  BY NextKeepsEdge DEF LifeInv
<1>4. LifeInv /\ SaveIsEdge /\ [Next]_vars => [Lane!LaneNext]_(Lane!lvars)
  BY StepKeepsWork
<1> QED BY <1>1, <1>2, <1>3, <1>4, LifeInvariant, PTL DEF Spec, KeepsLaneWork, Lane!LaneSpec

-----------------------------------------------------------------------------
(* Intents keep a handler.                                                 *)

\* The ledger operations other than the claim add no intent.
NoMoreIntents(L, N) == \A c \in Block : N[c].st = "committing" => L[c].st = "committing"
Intent(L, c) == L[c].st = "committing"

LEMMA PutAddsNoIntent ==
    ASSUME NEW L \in Ledger, NEW b \in Block, NEW e, e.st # "committing"
    PROVE  /\ NoMoreIntents(L, [L EXCEPT ![b] = e])
           /\ [L EXCEPT ![b] = e][b].st # "committing"
BY DEF Ledger, NoMoreIntents

LEMMA OperationsAddNoIntent ==
    ASSUME NEW L \in Ledger, NEW b \in Block
    PROVE  /\ \A s : NoMoreIntents(L, SealNew(L, b, s))
           /\ NoMoreIntents(L, Cancel(L, b))
           /\ NoMoreIntents(L, Accept(L, b)) /\ Accept(L, b)[b].st # "committing"
           /\ NoMoreIntents(L, QuarantineDispatch(L, b))
           /\ QuarantineDispatch(L, b)[b].st # "committing"
           /\ CanResolve(L, b) => NoMoreIntents(L, Resolve(L, b))
<1>1. ASSUME NEW s PROVE NoMoreIntents(L, SealNew(L, b, s))
  <2> DEFINE e == [st |-> "sealed", job |-> "pending", strat |-> s, com |-> FALSE]
  <2>1. e.st # "committing" OBVIOUS
  <2>2. SealNew(L, b, s) = [L EXCEPT ![b] = e] BY DEF SealNew
  <2> HIDE DEF e
  <2>3. NoMoreIntents(L, [L EXCEPT ![b] = e]) BY <2>1, PutAddsNoIntent
  <2> QED BY <2>2, <2>3
<1>2. ASSUME NEW s, NEW j, NEW c, s # "committing"
      PROVE  NoMoreIntents(L, Put(L, b, s, j, c)) /\ Put(L, b, s, j, c)[b].st # "committing"
  <2> DEFINE e == Moved(L[b], s, j, c)
  <2>1. e.st # "committing" BY <1>2 DEF Moved
  <2>2. Put(L, b, s, j, c) = [L EXCEPT ![b] = e] BY DEF Put
  <2> HIDE DEF e
  <2>3. NoMoreIntents(L, [L EXCEPT ![b] = e]) /\ [L EXCEPT ![b] = e][b].st # "committing"
    BY <2>1, PutAddsNoIntent
  <2> QED BY <2>2, <2>3
<1>3. NoMoreIntents(L, Cancel(L, b)) BY <1>2 DEF Cancel
<1>4. NoMoreIntents(L, Accept(L, b)) /\ Accept(L, b)[b].st # "committing" BY <1>2 DEF Accept
<1>5. NoMoreIntents(L, QuarantineDispatch(L, b)) /\ QuarantineDispatch(L, b)[b].st # "committing"
  BY <1>2 DEF QuarantineDispatch
<1>6. CanResolve(L, b) => NoMoreIntents(L, Resolve(L, b))
  <2>1. CanResolve(L, b) => ResolvedState(L[b]) # "committing"
    BY DEF Ledger, CanResolve, ResolvedState, Entry, Absent, Record, Coherent
  <2> QED BY <1>2, <2>1 DEF Resolve
<1> QED BY <1>1, <1>3, <1>4, <1>5, <1>6

LEMMA ApplyAddsNoIntent ==
    ASSUME NEW o, o.kind \in Outcome, NEW L
    PROVE  NoMoreIntents(L, Apply(o, L))
<1>1. ASSUME NEW e PROVE ApplyEntry(o, e) = e \/ ApplyEntry(o, e).st # "committing"
  <2>1. CASE o.kind = "running" BY <2>1 DEF ApplyEntry, ApplyRunning, Moved
  <2>2. CASE o.kind = "completed" BY <2>2 DEF ApplyEntry, ApplyCompleted, Moved
  <2>3. CASE o.kind = "failed" BY <2>3 DEF ApplyEntry, ApplyFailed, Moved
  <2>4. CASE o.kind = "uncertain" BY <2>4 DEF ApplyEntry, ApplyUncertain, Moved
  <2> QED BY <2>1, <2>2, <2>3, <2>4 DEF Outcome
<1>2. \A c \in Block : Apply(o, L)[c] = ApplyEntry(o, L[c]) BY DEF Apply
<1> QED BY <1>1, <1>2 DEF NoMoreIntents

LEMMA HandlerSavesIntents ==
    ASSUME RuntimeInv, NEW p \in Caller, Handler(p), LockFree, ~LockFree'
    PROVE  SaveKeepsIntents'
<1> USE DEF LockFree
<1>0. /\ mem \in Ledger /\ pc \in [Caller -> PC] /\ blk \in [Caller -> Block \cup {NoBlock}]
      /\ p # "nobody"
  BY CallerAssumption DEF RuntimeInv, TypeOK
<1>1. ASSUME NEW N, mem' = mem, cmd'.by = p, cmd'.next = N, NoMoreIntents(mem, N),
             pc'[p] \in {"accepting", "quarantining"} => ~Intent(N, blk'[p])
      PROVE  SaveKeepsIntents'
  BY <1>1 DEF SaveKeepsIntents, NoMoreIntents, Intent
<1>2. CASE StartSeals(p)
  <2>1. PICK b \in Block, s \in {"planner_sequential", "native_batch"} :
          BeginSave(p, SealNew(mem, b, s)) /\ Enter(p, "sealing", b)
    BY <1>2 DEF StartSeals
  <2>2. mem' = mem /\ pc'[p] = "sealing" BY <1>0, <1>2, <2>1 DEF StartSeals, Enter
  <2>3. NoMoreIntents(mem, SealNew(mem, b, s)) BY <1>0, OperationsAddNoIntent
  <2> QED BY <1>1, <2>1, <2>2, <2>3 DEF BeginSave
<1>3. CASE StartCancelsDryRun(p)
  <2>1. PICK b \in Block : BeginSave(p, Cancel(mem, b)) /\ Enter(p, "cancelling", b)
    BY <1>3 DEF StartCancelsDryRun
  <2>2. mem' = mem /\ pc'[p] = "cancelling" BY <1>0, <1>3, <2>1 DEF StartCancelsDryRun, Enter
  <2>3. NoMoreIntents(mem, Cancel(mem, b)) BY <1>0, OperationsAddNoIntent
  <2> QED BY <1>1, <2>1, <2>2, <2>3 DEF BeginSave
<1>4. CASE Claim(p)
  <2> DEFINE N == BeginCommit(mem, blk[p])
  <2>1. blk[p] \in Block /\ mem[blk[p]].st = "sealed"
    BY <1>4 DEF Claim, RuntimeInv, WorksOnBlock, CanCommit
  <2>2. \A c \in Block : c # blk[p] => N[c] = mem[c] BY <1>0 DEF BeginCommit, Put, Ledger
  <2>3. cmd'.by = p /\ cmd'.next = N /\ mem' = mem /\ pc'[p] = "claiming" /\ blk' = blk
    BY <1>0, <1>4 DEF Claim, BeginSave, Goto
  <2> HIDE DEF N
  <2> QED BY <2>1, <2>2, <2>3 DEF SaveKeepsIntents
<1>5. CASE AcceptBegins(p)
  <2>1. blk[p] \in Block BY <1>5 DEF AcceptBegins, RuntimeInv, WorksOnBlock
  <2>2. NoMoreIntents(mem, Accept(mem, blk[p])) /\ ~Intent(Accept(mem, blk[p]), blk[p])
    BY <1>0, <2>1, OperationsAddNoIntent DEF Intent
  <2> QED BY <1>1, <1>5, <2>2 DEF AcceptBegins, BeginSave, Goto
<1>6. CASE QuarantineBegins(p)
  <2>1. blk[p] \in Block BY <1>6 DEF QuarantineBegins, RuntimeInv, WorksOnBlock
  <2>2. /\ NoMoreIntents(mem, QuarantineDispatch(mem, blk[p]))
        /\ ~Intent(QuarantineDispatch(mem, blk[p]), blk[p])
    BY <1>0, <2>1, OperationsAddNoIntent DEF Intent
  <2> QED BY <1>1, <1>6, <2>2 DEF QuarantineBegins, BeginSave, Goto
<1>7. CASE ~(StartSeals(p) \/ StartCancelsDryRun(p) \/ Claim(p) \/ AcceptBegins(p)
             \/ QuarantineBegins(p))
  <2>1. cmd' = cmd \/ cmd' = Nobody
    BY <1>7 DEF Handler, StartFindsExisting, SealDone, CancelDryRunDone, SaveRefused,
       PreflightFails, SelectorLost, ClaimLost, ClaimDone, SelectReturns, CallReturns,
       CallFails, AcceptSkipped, AcceptDone, QuarantineSkipped, QuarantineDone, Publish,
       Discard
  <2> QED BY <2>1, NobodyTyped
<1> QED BY <1>2, <1>3, <1>4, <1>5, <1>6, <1>7

LEMMA RestSavesIntents ==
    ASSUME RuntimeInv, LockFree, ~LockFree',
           WriteLands \/ SaveFails \/ Operator \/ Observer \/ Lifecycle
    PROVE  SaveKeepsIntents'
<1> USE DEF LockFree
<1>0. mem \in Ledger /\ obs \in Seq(Observation) /\ "operator" \notin Caller
      /\ "observer" \notin Caller
  BY CallerAssumption DEF RuntimeInv, TypeOK
<1>1. ASSUME NEW N, mem' = mem, cmd'.by \in {"operator", "observer"}, cmd'.next = N,
             NoMoreIntents(mem, N)
      PROVE  SaveKeepsIntents'
  BY <1>0, <1>1 DEF SaveKeepsIntents, NoMoreIntents
<1>2. CASE \E b \in Block : CancelBlock(b)
  <2>1. PICK b \in Block : CancelBlock(b) BY <1>2
  <2>2. NoMoreIntents(mem, Cancel(mem, b)) BY <1>0, OperationsAddNoIntent
  <2> QED BY <1>1, <2>1, <2>2 DEF CancelBlock, OperatorBegins, BeginSave
<1>3. CASE \E b \in Block : ResolveUncertainRun(b)
  <2>1. PICK b \in Block : ResolveUncertainRun(b) BY <1>3
  <2>2. NoMoreIntents(mem, Resolve(mem, b))
    BY <1>0, <2>1, OperationsAddNoIntent DEF ResolveUncertainRun
  <2> QED BY <1>1, <2>1, <2>2 DEF ResolveUncertainRun, OperatorBegins, BeginSave
<1>4. CASE EditPlan
  <2>1. NoMoreIntents(mem, mem) BY DEF NoMoreIntents
  <2> QED BY <1>1, <1>4, <2>1 DEF EditPlan, OperatorBegins, BeginSave
<1>5. CASE ObservationApplies
  <2>1. Head(obs) \in Observation BY <1>0, <1>5, HeadTailProperties DEF ObservationApplies
  <2> DEFINE N == Apply(Head(obs), mem)
  <2>2. NoMoreIntents(mem, N) BY <2>1, ApplyAddsNoIntent DEF Observation
  <2>3. mem' = mem /\ (UNCHANGED cmd \/ BeginSave("observer", N))
    BY <1>5 DEF ObservationApplies
  <2> HIDE DEF N
  <2>4. ~UNCHANGED cmd OBVIOUS
  <2>5. cmd'.next = N /\ cmd'.by = "observer" BY <2>3, <2>4 DEF BeginSave
  <2> QED BY <1>1, <2>2, <2>3, <2>5
<1>6. CASE ~((\E b \in Block : CancelBlock(b) \/ ResolveUncertainRun(b))
             \/ EditPlan \/ ObservationApplies)
  <2>1. CASE UnloadBegins
    <3>1. cmd'.by = cmd.by BY <2>1 DEF UnloadBegins, RuntimeInv, TypeOK
    <3> QED BY <3>1
  <2>2. CASE ~UnloadBegins
    <3>1. cmd' = cmd \/ cmd' = Nobody
      BY <1>6, <2>2 DEF WriteLands, SaveFails, Operator, OperatorDone, Observer, Observe,
         FailClosed, ObservationDone, Lifecycle, Setup, UnloadFails, UnloadDone, StaleWrite,
         Crash, Publish, Discard
    <3> QED BY <3>1, NobodyTyped
  <2> QED BY <2>1, <2>2
<1> QED BY <1>2, <1>3, <1>4, <1>5, <1>6

LEMMA NextSavesIntents ==
    ASSUME RuntimeInv, SaveKeepsIntents, [Next]_vars
    PROVE  SaveKeepsIntents'
<1>1. CASE LockFree' BY <1>1 DEF SaveKeepsIntents
<1>2. CASE LockFree /\ ~LockFree'
  BY <1>2, HandlerSavesIntents, RestSavesIntents DEF Next, vars, LockFree
<1>3. CASE ~LockFree /\ ~LockFree'
  <2>1. HeldStays \/ UNCHANGED vars BY <1>3, HandlerHolds, RestHolds DEF Next
  <2>2. HeldStays BY <2>1 DEF HeldStays, vars, callVars
  <2> QED BY <1>3, <2>2 DEF HeldStays, SaveKeepsIntents, LockFree
<1> QED BY <1>1, <1>2, <1>3

\* A step of one handler leaves the place of every other handler alone.
LEMMA OthersStay ==
    ASSUME RuntimeInv, NEW p \in Caller, NEW q \in Caller \ {p}, Handler(p)
    PROVE  pc'[q] = pc[q] /\ blk'[q] = blk[q] /\ cur'[q] = cur[q]
<1>1. /\ pc \in [Caller -> PC] /\ blk \in [Caller -> Block \cup {NoBlock}]
      /\ cur \in [Caller -> BOOLEAN]
  BY DEF RuntimeInv, TypeOK
<1>2. \/ UNCHANGED callVars
      \/ \E where \in PC : Goto(p, where)
      \/ Return(p)
      \/ \E where \in PC, b \in Block : Enter(p, where, b)
  BY DEF PC, Saving, Dispatched, Handler, StartSeals, StartCancelsDryRun, StartFindsExisting,
     OpenBlocks, SealDone, CancelDryRunDone, SaveRefused, PreflightFails, SelectorLost, Claim,
     ClaimLost, ClaimDone, SelectReturns, CallReturns, CallFails, AcceptBegins, AcceptSkipped,
     AcceptDone, QuarantineBegins, QuarantineSkipped, QuarantineDone, Ambiguous
<1> QED BY <1>1, <1>2 DEF Goto, Return, Enter, callVars

\* Where p carries block b and the block stays an intent, p goes on with it.
GoesOn(p, b) == cur[p] /\ blk[p] = b /\ pc[p] \in Dispatched

LEMMA HandlerGoesOn ==
    ASSUME RuntimeInv, SaveKeepsIntents, NEW p \in Caller, NEW b \in Block, Handler(p),
           GoesOn(p, b), mem[b].st = "committing", mem'[b].st = "committing"
    PROVE  GoesOn(p, b)'
<1> USE DEF GoesOn, Dispatched
<1>0. /\ pc \in [Caller -> PC] /\ blk \in [Caller -> Block \cup {NoBlock}]
      /\ cur \in [Caller -> BOOLEAN] /\ mem \in Ledger /\ p # "nobody"
  BY CallerAssumption DEF RuntimeInv, TypeOK
<1>1. ASSUME NEW where \in Dispatched, Goto(p, where) PROVE GoesOn(p, b)'
  BY <1>0, <1>1 DEF Goto
<1>2. Ambiguous(p) => GoesOn(p, b)' BY <1>1 DEF Ambiguous, RuntimeGuard
<1>3. ~(/\ cmd.by = p /\ mem' = cmd.next /\ pc[p] \in {"accepting", "quarantining"})
  BY <1>0 DEF SaveKeepsIntents, LockFree
<1>4. CASE SelectReturns(p) BY <1>1, <1>2, <1>4 DEF SelectReturns
<1>5. CASE CallReturns(p) \/ CallFails(p) \/ AcceptBegins(p) \/ QuarantineBegins(p)
  BY <1>1, <1>5 DEF CallReturns, CallFails, AcceptBegins, QuarantineBegins
<1>6. CASE AcceptSkipped(p) BY <1>2, <1>6 DEF AcceptSkipped, Settled
<1>7. CASE AcceptDone(p) BY <1>2, <1>3, <1>7 DEF AcceptDone, Saved, Publish
<1>8. CASE QuarantineSkipped(p)
  <2>1. CanQuarantine(mem, b) BY <1>0 DEF CanQuarantine, Ledger, Entry, Absent, Record, Coherent
  <2> QED BY <2>1, <1>8 DEF QuarantineSkipped, RuntimeGuard
<1>9. CASE QuarantineDone(p) BY <1>3, <1>9 DEF QuarantineDone, Saved, RuntimeGuard, Publish
<1>10. ~(\/ StartSeals(p) \/ StartCancelsDryRun(p) \/ StartFindsExisting(p) \/ SealDone(p)
        \/ CancelDryRunDone(p) \/ SaveRefused(p) \/ PreflightFails(p) \/ SelectorLost(p)
        \/ Claim(p) \/ ClaimLost(p) \/ ClaimDone(p))
  BY DEF StartSeals, StartCancelsDryRun, StartFindsExisting, CanStart, SealDone,
     CancelDryRunDone, SaveRefused, PreflightFails, SelectorLost, Claim, ClaimLost, ClaimDone
<1> QED BY <1>4, <1>5, <1>6, <1>7, <1>8, <1>9, <1>10 DEF Handler

LEMMA CarrierGoesOn ==
    ASSUME RuntimeInv, SaveKeepsIntents, Next, up = "up", up' = "up", ~QuarantineFails,
           NEW p \in Caller, NEW b \in Block,
           GoesOn(p, b), mem[b].st = "committing", mem'[b].st = "committing"
    PROVE  GoesOn(p, b)'
<1>0. /\ pc \in [Caller -> PC] /\ blk \in [Caller -> Block \cup {NoBlock}]
      /\ cur \in [Caller -> BOOLEAN]
  BY DEF RuntimeInv, TypeOK
<1>1. CASE Handler(p) BY <1>1, HandlerGoesOn
<1>2. CASE \E q \in Caller \ {p} : Handler(q)
  <2>1. PICK q \in Caller \ {p} : Handler(q) BY <1>2
  <2>2. pc'[p] = pc[p] /\ blk'[p] = blk[p] /\ cur'[p] = cur[p] BY <2>1, OthersStay
  <2> QED BY <2>2 DEF GoesOn
<1>3. CASE SaveFails
  <2>1. CASE cmd.by = p
    <3>1. pc[p] = "accepting"
      BY <1>3, <2>1 DEF QuarantineFails, GoesOn, Dispatched, SaveFails, LockFree, RuntimeInv,
         LockOwner, Saving
    <3>2. Goto(p, "quarantine") BY <1>3, <2>1, <3>1 DEF SaveFails
    <3> QED BY <1>0, <3>2 DEF Goto, GoesOn, Dispatched
  <2>2. CASE cmd.by # p BY <1>0, <1>3, <2>2 DEF SaveFails, Goto, Return, GoesOn, callVars
  <2> QED BY <2>1, <2>2
<1>4. CASE WriteLands \/ Operator \/ Observer \/ Lifecycle
  <2>1. UNCHANGED callVars
    BY <1>4 DEF WriteLands, Operator, CancelBlock, ResolveUncertainRun, EditPlan,
       OperatorBegins, OperatorDone, Observer, Observe, FailClosed, ObservationApplies,
       ObservationDone, Lifecycle, Setup, UnloadBegins, UnloadFails, UnloadDone, StaleWrite,
       Crash
  <2> QED BY <2>1 DEF callVars, GoesOn
<1> QED BY <1>1, <1>2, <1>3, <1>4 DEF Next

\* A new intent comes from the publication of its claim, and the handler goes on.
LEMMA ClaimBringsHandler ==
    ASSUME RuntimeInv, SaveKeepsIntents, Next, up = "up", up' = "up",
           NEW b \in Block, mem[b].st # "committing", mem'[b].st = "committing"
    PROVE  HasHandler(b)'
<1>1. ~LockFree /\ mem' = cmd.next BY MemoryMoves
<1>2. PICK p \in Caller : cmd.by = p /\ pc[p] = "claiming" /\ blk[p] = b
  BY <1>1 DEF SaveKeepsIntents
<1>3. /\ pc \in [Caller -> PC] /\ blk \in [Caller -> Block \cup {NoBlock}]
      /\ cur \in [Caller -> BOOLEAN]
  BY DEF RuntimeInv, TypeOK
<1>4. ClaimDone(p)
  <2>1. CASE \E q \in Caller : Handler(q)
    <3>1. PICK q \in Caller : Handler(q) BY <2>1
    <3>2. mem' # mem OBVIOUS
    <3>3. cmd.by = q
      BY <3>1, <3>2 DEF Handler, StartSeals, StartCancelsDryRun, StartFindsExisting, SealDone,
         CancelDryRunDone, SaveRefused, PreflightFails, SelectorLost, Claim, ClaimLost,
         ClaimDone, SelectReturns, CallReturns, CallFails, AcceptBegins, AcceptSkipped,
         AcceptDone, QuarantineBegins, QuarantineSkipped, QuarantineDone, Discard, Saved,
         rtVars
    <3> QED
      BY <1>2, <3>1, <3>2, <3>3 DEF Handler, StartSeals, StartCancelsDryRun, StartFindsExisting,
         CanStart, SealDone,
         CancelDryRunDone, SaveRefused, PreflightFails, SelectorLost, Claim, ClaimLost,
         SelectReturns, CallReturns, CallFails, AcceptBegins, AcceptSkipped,
         AcceptDone, QuarantineBegins, QuarantineSkipped, QuarantineDone, Discard
  <2>2. CASE WriteLands \/ SaveFails \/ Operator \/ Observer \/ Lifecycle
    <3>1. OperatorDone \/ ObservationDone
      BY <2>2 DEF WriteLands, SaveFails, Operator, CancelBlock, ResolveUncertainRun, EditPlan,
         OperatorBegins, Observer, Observe, FailClosed, ObservationApplies, Lifecycle, Setup,
         UnloadBegins, UnloadFails, UnloadDone, StaleWrite, Crash
    <3> QED BY <1>2, <3>1, CallerAssumption DEF OperatorDone, ObservationDone
  <2> QED BY <2>1, <2>2 DEF Next
<1>5. GoesOn(p, b)'
  BY <1>2, <1>3, <1>4 DEF ClaimDone, CommandGuard, Goto, GoesOn, Dispatched
<1> QED BY <1>5 DEF HasHandler, GoesOn

LEMMA StepKeepsHandlers ==
    ASSUME RuntimeInv, SaveKeepsIntents, Next
    PROVE  HandlersStay
<1> SUFFICES ASSUME up = "up", up' = "up", ~QuarantineFails, NEW b \in Block,
                    mem'[b].st = "committing", mem[b].st = "committing" => HasHandler(b)
             PROVE  HasHandler(b)'
  BY DEF HandlersStay
<1>1. CASE mem[b].st = "committing"
  <2>1. PICK p \in Caller : GoesOn(p, b) BY <1>1 DEF HasHandler, GoesOn
  <2>2. GoesOn(p, b)' BY <1>1, <2>1, CarrierGoesOn
  <2> QED BY <2>2 DEF HasHandler, GoesOn
<1>2. CASE mem[b].st # "committing" BY <1>2, ClaimBringsHandler
<1> QED BY <1>1, <1>2

\* A published intent keeps a handler on its way to report or quarantine its
\* result, whatever fails in a runtime that stays up, but for the failed save of
\* the quarantine itself: refused guards and failed acceptances end in it.
THEOREM IntentsKeepHandlers == Spec => IntentKeepsHandler
<1>1. Init => SaveKeepsIntents BY NobodyTyped DEF Init, SaveKeepsIntents, LockFree
<1>2. RuntimeInv /\ SaveKeepsIntents /\ [Next]_vars => SaveKeepsIntents'
  BY NextSavesIntents
<1>3. RuntimeInv /\ SaveKeepsIntents /\ [Next]_vars => [HandlersStay]_vars
  BY StepKeepsHandlers
<1> QED BY <1>1, <1>2, <1>3, RuntimeInvariant, PTL DEF Spec, IntentKeepsHandler

\* Where no save fails and no unload is refused, every intent of a runtime that is
\* up has its handler, which is why such an intent settles under fair handlers.
NoIntentIsOrphan ==
    up = "up" => \A b \in Block : mem[b].st = "committing" => HasHandler(b)

THEOREM IntentsAreCarried ==
    ASSUME "save" \notin Faults, "unload" \notin Faults
    PROVE  Spec => []NoIntentIsOrphan
<1>1. Init => SaveKeepsIntents /\ NoIntentIsOrphan
  BY NobodyTyped DEF Init, SaveKeepsIntents, LockFree, NoIntentIsOrphan
<1>2. RuntimeInv /\ SaveKeepsIntents /\ [Next]_vars => SaveKeepsIntents'
  BY NextSavesIntents
<1>3. ASSUME RuntimeInv, SaveKeepsIntents, NoIntentIsOrphan, [Next]_vars
      PROVE  NoIntentIsOrphan'
  <2>1. CASE UNCHANGED vars
    BY <1>3, <2>1 DEF vars, callVars, rtVars, NoIntentIsOrphan, HasHandler
  <2>2. CASE Next /\ up = "up"
    <3>1. ~QuarantineFails BY DEF QuarantineFails, SaveFails
    <3>2. HandlersStay BY <1>3, <2>2, <3>1, StepKeepsHandlers
    <3> QED BY <1>3, <2>2, <3>1, <3>2 DEF HandlersStay, NoIntentIsOrphan
  <2>3. CASE Next /\ up # "up" /\ up' = "up"
    <3>1. up = "down"
      BY <2>3 DEF Next, Handler, StartSeals, StartCancelsDryRun, StartFindsExisting,
         SealDone, CancelDryRunDone, SaveRefused, PreflightFails, SelectorLost, CanStart, Claim,
         ClaimLost, ClaimDone, SelectReturns, CallReturns, CallFails, AcceptBegins,
         AcceptSkipped, AcceptDone, QuarantineBegins, QuarantineSkipped, QuarantineDone,
         WriteLands, SaveFails, Operator, CancelBlock, ResolveUncertainRun, EditPlan,
         OperatorBegins, OperatorDone, Observer, Observe, FailClosed, ObservationApplies,
         ObservationDone, Lifecycle, Setup, UnloadBegins, UnloadFails, UnloadDone, StaleWrite,
         Crash, rtVars
    <3>2. mem' = Recover(disk) /\ disk \in Ledger
      BY <1>3, <2>3, <3>1, SetupComesUp DEF Setup, RuntimeInv, TypeOK
    <3>3. \A b \in Block : Recover(disk)[b].st # "committing"
      BY DEF Recover, RecoverEntry, ActiveBlock, Moved
    <3> QED BY <3>2, <3>3 DEF NoIntentIsOrphan
  <2>4. CASE up' # "up" BY <2>4 DEF NoIntentIsOrphan
  <2> QED BY <1>3, <2>1, <2>2, <2>3, <2>4
<1> QED BY <1>1, <1>2, <1>3, RuntimeInvariant, PTL DEF Spec

-----------------------------------------------------------------------------
(* One call per life, with the blocks of this life as a history variable.  *)

VARIABLE sent    \* history: blocks whose clean_area this runtime sent

lifeVars == <<vars, sent>>
LifeInit == Init /\ sent = {}
\* Whatever the lane does, a runtime that ends takes its history with it.
LifeNext ==
    /\ Next
    /\ sent' = IF up' = "down" THEN {}
               ELSE sent \cup {b \in Block : calls'[b] # calls[b]}
LifeSpec == LifeInit /\ [][LifeNext]_lifeVars

\* One runtime never sends clean_area twice for a block, and never for two
\* blocks in one step.
SendsNew == \A b \in Block : calls'[b] # calls[b] =>
                b \notin sent /\ calls' = [calls EXCEPT ![b] = calls[b] + 1]
OncePerLife == [][SendsNew]_lifeVars

\* What was sent in this life is claimed, and no selector still waits to send it.
SentInv ==
    /\ sent \subseteq Block
    /\ up = "down" => sent = {}
    /\ \A b \in sent : Claimed(mem[b])
    /\ \A p \in Caller : cur[p] /\ pc[p] = "selecting" => blk[p] \notin sent

LEMMA SendIsNew ==
    ASSUME RuntimeInv, SentInv, NEW p \in Caller, NEW b \in Block, SendsOf(p, b)
    PROVE  b \notin sent
<1>1. cur[p] /\ blk[p] = b /\ (ClaimDone(p) \/ SelectReturns(p)) BY DEF SendsOf
<1>2. CASE ClaimDone(p)
  <2>1. mem[b].st = "sealed" BY <1>1, <1>2, SenderIsAlone
  <2> QED BY <2>1 DEF SentInv, Claimed
<1>3. CASE SelectReturns(p) BY <1>1, <1>3 DEF SentInv, SelectReturns
<1> QED BY <1>1, <1>2, <1>3

LEMMA StepKeepsSentInv ==
    ASSUME LifeInv, SentInv, LifeNext
    PROVE  SentInv'
<1>0. /\ RuntimeInv /\ Next /\ calls \in [Block -> Nat]
      /\ pc \in [Caller -> PC] /\ cur \in [Caller -> BOOLEAN]
  BY DEF LifeInv, LifeNext, RuntimeInv, TypeOK
<1>1. CASE up' = "down" BY <1>1 DEF LifeNext, SentInv
<1>2. CASE up' # "down"
  <2> DEFINE new == {b \in Block : calls'[b] # calls[b]}
  <2>1. sent' = sent \cup new BY <1>2 DEF LifeNext
  <2>2. up # "down" => \A b \in Block : Claimed(mem[b]) => Claimed(mem'[b])
    BY <1>0, StepKeepsLifeStore DEF LifeInv, LifeStore, Orderly, MemoryKept, Kept
  <2>3. \A b \in sent : Claimed(mem'[b]) BY <2>2 DEF SentInv
  <2>4. CASE \E p \in Caller, b \in Block : SendsOf(p, b)
    <3>1. PICK p \in Caller, b \in Block : SendsOf(p, b) BY <2>4
    <3>2. new = {b} BY <1>0, <3>1 DEF SendsOf
    <3>3. /\ cur[p] /\ blk[p] = b /\ (ClaimDone(p) \/ SelectReturns(p))
          /\ pc' = [pc EXCEPT ![p] = "calling"] /\ blk' = blk /\ cur' = cur
      BY <3>1 DEF SendsOf, Goto
    <3>4. /\ Claimed(mem'[b])
          /\ \A q \in Caller \ {p} : cur[q] /\ pc[q] \in Dispatched => blk[q] # b
      BY <1>0, <3>3, SenderIsAlone
    <3>5. \A q \in Caller : cur'[q] /\ pc'[q] = "selecting" => blk'[q] \notin sent'
      BY <1>0, <2>1, <3>2, <3>3, <3>4 DEF SentInv, Dispatched
    <3> HIDE DEF new
    <3> QED BY <1>2, <2>1, <2>3, <3>2, <3>4, <3>5 DEF SentInv
  <2>5. CASE \E p \in Caller : ClaimDone(p) /\ Goto(p, "selecting") /\ calls' = calls
    <3>1. PICK p \in Caller : ClaimDone(p) /\ Goto(p, "selecting") /\ calls' = calls
      BY <2>5
    <3>2. sent' = sent BY <2>1, <3>1
    <3>3. mem[blk[p]].st = "sealed"
      BY <1>0, <3>1 DEF ClaimDone, RuntimeInv, ClaimIsSaved
    <3>4. blk[p] \notin sent BY <3>3 DEF SentInv, Claimed
    <3>5. \A q \in Caller : cur'[q] /\ pc'[q] = "selecting" => blk'[q] \notin sent'
      BY <1>0, <3>1, <3>2, <3>4 DEF SentInv, Goto
    <3> QED BY <1>2, <2>3, <3>2, <3>5 DEF SentInv
  <2>6. CASE \E p \in Caller : Claim(p) /\ calls' = calls
    <3>1. PICK p \in Caller : Claim(p) /\ calls' = calls BY <2>6
    <3>2. sent' = sent BY <2>1, <3>1
    <3>3. pc' = [pc EXCEPT ![p] = "claiming"] /\ blk' = blk /\ cur' = cur
      BY <3>1 DEF Claim, Goto
    <3> QED BY <1>0, <1>2, <2>3, <3>2, <3>3 DEF SentInv
  <2>7. CASE Quietly
    <3>1. sent' = sent BY <2>1, <2>7 DEF Quietly
    <3>2. \A q \in Caller : cur'[q] /\ pc'[q] = "selecting" => blk'[q] \notin sent'
      BY <2>7, <3>1 DEF SentInv, Quietly, Carrier, Dispatched
    <3> QED BY <1>2, <2>3, <3>1, <3>2 DEF SentInv
  <2> QED BY <1>0, <2>4, <2>5, <2>6, <2>7, StepOfCalls
<1> QED BY <1>1, <1>2

\* AtMostOnceCall without QuietReload: what a late write can bring about is a
\* second call by a later runtime, never one by the runtime that sent the first.
THEOREM OneCallPerLife == LifeSpec => OncePerLife
<1>1. LifeSpec => Spec
  <2>1. LifeInit => Init BY DEF LifeInit
  <2>2. [LifeNext]_lifeVars => [Next]_vars BY DEF LifeNext, lifeVars
  <2> QED BY <2>1, <2>2, PTL DEF LifeSpec, Spec
<1>2. LifeInit => SentInv BY DEF LifeInit, Init, SentInv
<1>3. LifeInv /\ SentInv /\ [LifeNext]_lifeVars => SentInv'
  <2>1. LifeInv /\ SentInv /\ UNCHANGED lifeVars => SentInv'
    BY DEF lifeVars, vars, callVars, rtVars, SentInv
  <2> QED BY <2>1, StepKeepsSentInv
<1>4. ASSUME LifeInv, SentInv, [LifeNext]_lifeVars, NEW b \in Block, calls'[b] # calls[b]
      PROVE  b \notin sent /\ calls' = [calls EXCEPT ![b] = calls[b] + 1]
  <2>1. RuntimeInv /\ [Next]_vars /\ calls \in [Block -> Nat]
    BY <1>4 DEF LifeInv, LifeNext, lifeVars, vars, RuntimeInv, TypeOK
  <2>2. PICK p \in Caller, c \in Block : SendsOf(p, c)
    BY <1>4, <2>1, StepOfCalls DEF Quietly
  <2>3. c = b BY <1>4, <2>1, <2>2 DEF SendsOf
  <2> QED BY <1>4, <2>1, <2>2, <2>3, SendIsNew DEF SendsOf
<1>5. LifeInv /\ SentInv /\ [LifeNext]_lifeVars => [SendsNew]_lifeVars
  BY <1>4 DEF SendsNew
<1> QED BY <1>1, <1>2, <1>3, <1>5, LifeInvariant, PTL DEF LifeSpec, OncePerLife
=============================================================================
