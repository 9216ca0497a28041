---------------------------- MODULE LaneDispatch ----------------------------
(***************************************************************************)
(* One robot lane of the Vacuum Planner: the ledger of one-job blocks that *)
(* start_next materialises, the coordinator that serialises and persists   *)
(* every mutation, the concurrent start_next handlers that claim a block   *)
(* and call the vacuum, the observer callbacks, the topology latch, and    *)
(* the unload, reload and crash of the integration.                        *)
(*                                                                         *)
(* A step is the code between two awaits.  Waiting points are: the         *)
(* coordinator lock, store.async_save, the two external service calls and  *)
(* the unloading of the platforms.                                         *)
(***************************************************************************)
EXTENDS Naturals, Sequences

CONSTANTS
    Block,        \* identities a block may receive (uuid4)
    Caller,       \* concurrent start_next handlers
    NoBlock,      \* a handler that works on no block
    MaxObs,       \* bound: observation tasks waiting for the lock
    Faults,       \* which faults the environment may inject
    QuietReload,  \* TRUE: a runtime is detached only when it owes no write
    MaxStale      \* bound: writes owed by detached runtimes

ASSUME NoBlockAssumption == NoBlock \notin Block
ASSUME MaxObsAssumption == MaxObs \in Nat \ {0}
ASSUME FaultsAssumption == Faults \subseteq {"crash", "save", "call", "unload"}
ASSUME QuietAssumption == QuietReload \in BOOLEAN
ASSUME MaxStaleAssumption == MaxStale \in Nat
ASSUME CallerAssumption == {"nobody", "operator", "observer"} \cap Caller = {}

VARIABLES
    mem,      \* coordinator._state: the published ledger (kept when down)
    disk,     \* the ledger in the store file
    cmd,      \* the command that holds the coordinator lock while it saves
    stale,    \* writes a detached runtime still owes to the store file
    pc,       \* where each start_next handler waits
    blk,      \* the block a handler works on
    cur,      \* the command generation a handler captured is the current one
    up,       \* "up", "unloading" (platforms being unloaded) or "down"
    topo,     \* runtime.topology_ready
    dry,      \* runtime.dry_run
    obs,      \* observation tasks waiting for the lock, in firing order
    calls     \* history: clean_area calls sent for each block

rtVars == <<up, topo, dry>>
callVars == <<pc, blk, cur>>
vars == <<mem, disk, cmd, stale, pc, blk, cur, up, topo, dry, obs, calls>>

-----------------------------------------------------------------------------
(* The ledger: a block and its single job, as one record.                  *)

Strategy == {"native_batch", "planner_sequential"}

\* An identity that no block of the ledger has.
Absent == [st |-> "absent", job |-> "absent", strat |-> "none", com |-> FALSE]

\* The job states and committed_at (com) that each block state allows on the
\* shipped path.  Work that may have been sent is always native_batch.
BlockState == {"sealed", "committing", "committed", "running", "uncertain",
               "completed", "failed", "cancelled"}
JobState == {"pending", "dispatching", "accepted", "running", "uncertain",
             "completed", "failed", "cancelled"}
Record == [st : BlockState, job : JobState, strat : Strategy, com : BOOLEAN]
Coherent(e) ==
    \/ e.st = "sealed" /\ e.job = "pending" /\ ~e.com
    \/ e.st = "cancelled" /\ e.job = "cancelled" /\ ~e.com
    \/ /\ e.strat = "native_batch"
       /\ \/ e.st = "committing" /\ e.job = "dispatching" /\ ~e.com
          \/ e.st = "committed" /\ e.job = "accepted" /\ e.com
          \/ e.st = "running" /\ e.job \in {"running", "failed"} /\ e.com
          \/ e.st = "uncertain" /\ e.job = "uncertain"
          \/ e.st = "uncertain" /\ e.job = "failed" /\ e.com
          \/ e.st = "completed" /\ e.job = "completed" /\ e.com
          \/ e.st = "failed" /\ e.job = "failed"
Entry == {Absent} \cup {e \in Record : Coherent(e)}
Ledger == [Block -> Entry]
EmptyLedger == [b \in Block |-> Absent]

TerminalBlock == {"completed", "failed", "cancelled"}
TerminalJob == {"completed", "failed", "cancelled"}
ActiveBlock == {"committing", "committed", "running"}
ActiveJob == {"dispatching", "accepted", "running"}

\* A block whose dispatch intent was recorded.
Claimed(e) == e.st \notin {"absent", "sealed", "cancelled"}
Open(e) == e.st \notin TerminalBlock \cup {"absent"}
OpenBlocks(L) == {b \in Block : Open(L[b])}

\* replace_block_state with replace_job_state of its only job.
Moved(e, state, job, committed) ==
    [st |-> state, job |-> job, strat |-> e.strat, com |-> committed]
Put(L, b, state, job, committed) ==
    [L EXCEPT ![b] = Moved(L[b], state, job, committed)]

\* start_due_block: a sealed block with one pending job.
SealNew(L, b, strategy) ==
    [L EXCEPT ![b] = [st |-> "sealed", job |-> "pending",
                      strat |-> strategy, com |-> FALSE]]

\* The open-block check of start_due_block.  (Mutant: sealed blocks only.)
LaneIsFree_SealedOnly(L) == \A b \in Block : L[b].st # "sealed"
LaneIsFree(L) == OpenBlocks(L) = {}

\* begin_native_batch_commit: preconditions and effect.
\* (Mutant: a claim that does not look at the states.)
CanCommit_AnyState(L, b) ==
    L[b].strat = "native_batch" /\ OpenBlocks(L) \subseteq {b}
CanCommit(L, b) ==
    /\ L[b].st = "sealed" /\ L[b].strat = "native_batch" /\ L[b].job = "pending"
    /\ OpenBlocks(L) \subseteq {b}
BeginCommit(L, b) == Put(L, b, "committing", "dispatching", FALSE)

\* _record_dispatch_acceptance leaves a block alone that already moved on.
\* (Mutant: an acceptance overwrites an uncertain block.)
Settled_NotUncertain == {"running", "completed", "failed"}
Settled == {"running", "completed", "failed", "uncertain"}
Accept(L, b) == Put(L, b, "committed", "accepted", TRUE)

\* quarantine_block_dispatch, once its preconditions hold.
CanQuarantine(L, b) ==
    /\ L[b].st = "committing" /\ L[b].strat = "native_batch"
    /\ L[b].job = "dispatching"
QuarantineDispatch(L, b) == Put(L, b, "uncertain", "uncertain", L[b].com)

\* cancel_pending_block: only a sealed block whose job is pending.
\* (Mutant: any open block may be cancelled.)
CanCancel_AnyOpen(L, b) == Open(L[b])
CanCancel(L, b) == L[b].st = "sealed" /\ L[b].job = "pending"
Cancel(L, b) == Put(L, b, "cancelled", "cancelled", L[b].com)

\* resolve_uncertain_job with retry_safe, on a block of one job.
CanResolve(L, b) == L[b].st = "uncertain" /\ L[b].job = "uncertain"
\* (Mutants: a commit that failed is resumed; the block is sealed again.)
ResolvedState_Resumes(e) == IF e.com THEN "running" ELSE "committing"
ResolvedState(e) ==
    IF e.com THEN "running"
    ELSE IF e.strat = "native_batch" THEN "failed" ELSE "committing"
Resolve_Reseals(L, b) == Put(L, b, "sealed", "pending", FALSE)
Resolve(L, b) == Put(L, b, ResolvedState(L[b]), "failed", L[b].com)

\* quarantine_ambiguous_dispatches: no shipped path persists a run id or a
\* token, so every active state lacks restart correlation.
RecoverEntry(e) ==
    IF e.st \in ActiveBlock
    THEN Moved(e, "uncertain", IF e.job \in ActiveJob THEN "uncertain" ELSE e.job, e.com)
    ELSE e
Recover(L) == [b \in Block |-> RecoverEntry(L[b])]

-----------------------------------------------------------------------------
(* Observations.  "fresh" stands for observed_at >= sent_at: the event was *)
(* fired after the latest claim took its sent_at.  An outcome that would   *)
(* give a job a timestamp before its sent_at, or a block one before its    *)
(* committed_at, raises in the domain model and changes nothing.           *)

Outcome == {"running", "completed", "failed", "uncertain"}
Observation == [kind : Outcome, fresh : BOOLEAN, latch : BOOLEAN]

Dispatching(e, fresh) == fresh /\ e.st = "committing" /\ e.job = "dispatching"
Reported(e, fresh) == e.job \in {"accepted", "running"} \/ Dispatching(e, fresh)

ApplyRunning(e, fresh) ==
    IF Dispatching(e, fresh) \/ (fresh /\ e.st = "committed")
    THEN Moved(e, "running", "running", TRUE)
    ELSE e
ApplyCompleted(e, fresh) ==
    IF fresh /\ e.job = "running"
    THEN Moved(e, "completed", "completed", e.com) ELSE e
ApplyFailed(e, fresh) ==
    IF fresh /\ Reported(e, fresh)
    THEN Moved(e, "failed", "failed", e.com) ELSE e
\* (Mutants: every sent job; a running job only.)
ApplyUncertain_AnySent(e, fresh) ==
    IF e.job \notin {"absent", "pending", "cancelled"}
    THEN Moved(e, "uncertain", "uncertain", e.com) ELSE e
ApplyUncertain_RunningOnly(e, fresh) ==
    IF e.job = "running" THEN Moved(e, "uncertain", "uncertain", e.com) ELSE e
ApplyUncertain(e, fresh) ==
    IF Reported(e, fresh)
    THEN Moved(e, "uncertain", "uncertain", e.com) ELSE e

ApplyEntry(o, e) ==
    CASE o.kind = "running" -> ApplyRunning(e, o.fresh)
      [] o.kind = "completed" -> ApplyCompleted(e, o.fresh)
      [] o.kind = "failed" -> ApplyFailed(e, o.fresh)
      [] o.kind = "uncertain" -> ApplyUncertain(e, o.fresh)
Apply(o, L) == [b \in Block |-> ApplyEntry(o, L[b])]
\* An outcome fired while the accepted call was still out may be older than the
\* committed_at of its block.  No time of the commit is kept here.
MayPrecedeCommit(o, L) ==
    /\ o.kind \in {"completed", "failed"}
    /\ \E b \in Block : L[b].com /\ L[b].job \in {"accepted", "running"}

\* has_active_external_work
ActiveWork(L) == \E b \in Block : L[b].st \in ActiveBlock \/ L[b].job \in ActiveJob
LatchPending == \E i \in DOMAIN obs : obs[i].latch
LatchIsFresh == \E i \in DOMAIN obs : obs[i].latch /\ obs[i].fresh

-----------------------------------------------------------------------------
(* The coordinator: async_command under the lock, cut at async_save.       *)

Nobody == [by |-> "nobody", next |-> EmptyLedger, durable |-> FALSE, cur |-> FALSE]
LockFree == cmd.by = "nobody"

\* The command computed a different state and starts to save it.
BeginSave(who, next) ==
    cmd' = [by |-> who, next |-> next, durable |-> FALSE, cur |-> TRUE]

\* require_runtime_generation and require_command_generation of a handler.
\* (Mutant: the second as the first.)
RuntimeGuard(p) == cur[p]
CommandGuard_NoLatch(p) == cur[p]
CommandGuard(p) == cur[p] /\ topo

Goto(p, where) == pc' = [pc EXCEPT ![p] = where] /\ UNCHANGED <<blk, cur>>
Return(p) ==
    /\ pc' = [pc EXCEPT ![p] = "idle"]
    /\ blk' = [blk EXCEPT ![p] = NoBlock]
    /\ cur' = [cur EXCEPT ![p] = FALSE]
Enter(p, where, b) ==
    /\ pc' = [pc EXCEPT ![p] = where]
    /\ blk' = [blk EXCEPT ![p] = b]
    /\ cur' = [cur EXCEPT ![p] = TRUE]

Saving == {"sealing", "cancelling", "claiming", "accepting", "quarantining"}
\* The handler that holds the lock resumes after its save.
\* (Mutant: it does not wait for the file.)
Saved_NotAwaited(p) == cmd.by = p
Saved(p) == cmd.by = p /\ cmd.durable
Publish == mem' = cmd.next /\ cmd' = Nobody
Discard == cmd' = Nobody /\ UNCHANGED mem

\* store.async_save replaces the file.
WriteLands ==
    /\ ~LockFree /\ ~cmd.durable
    /\ disk' = cmd.next
    /\ cmd' = [cmd EXCEPT !.durable = TRUE]
    /\ UNCHANGED <<mem, stale, callVars, rtVars, obs, calls>>

\* async_save raises, or the saving handler is cancelled, before or after the
\* file was replaced.  An acceptance is then ambiguous; the rest just raises.
\* (Mutant: the state was assigned before the save.)
SaveFails_AfterPublish ==
    /\ "save" \in Faults /\ ~LockFree
    /\ Publish
    /\ IF cmd.by \in Caller THEN Return(cmd.by) ELSE UNCHANGED callVars
    /\ UNCHANGED <<disk, stale, rtVars, obs, calls>>
SaveFails ==
    /\ "save" \in Faults /\ ~LockFree
    /\ cmd' = Nobody
    /\ IF cmd.by \in Caller
       THEN IF pc[cmd.by] = "accepting" THEN Goto(cmd.by, "quarantine")
                                        ELSE Return(cmd.by)
       ELSE UNCHANGED callVars
    /\ UNCHANGED <<mem, disk, stale, rtVars, obs, calls>>

-----------------------------------------------------------------------------
(* start_next: the planning command.                                       *)

CanStart(p) == pc[p] = "idle" /\ up = "up" /\ topo /\ LockFree
Fresh(b) ==
    /\ mem[b] = Absent /\ disk[b] = Absent /\ calls[b] = 0
    /\ \A i \in DOMAIN stale : stale[i][b] = Absent

\* Due work and no open block: seal the first due job as a one-job block.
StartSeals(p) ==
    /\ CanStart(p)
    /\ LaneIsFree(mem)
    /\ \E b \in Block :
        /\ Fresh(b)
        /\ BeginSave(p, SealNew(mem, b, IF dry THEN "planner_sequential"
                                               ELSE "native_batch"))
        /\ Enter(p, "sealing", b)
    /\ UNCHANGED <<mem, disk, stale, rtVars, obs, calls>>

\* A live start finds a block sealed by a dry run: cancel it and refuse.
StartCancelsDryRun(p) ==
    /\ CanStart(p) /\ ~dry
    /\ \E b \in Block :
        /\ mem[b].st = "sealed" /\ mem[b].strat = "planner_sequential"
        /\ CanCancel(mem, b)
        /\ BeginSave(p, Cancel(mem, b))
        /\ Enter(p, "cancelling", b)
    /\ UNCHANGED <<mem, disk, stale, rtVars, obs, calls>>

\* A live start finds a sealed native block to recover, or an open block with
\* its own idempotency key: it proceeds to the claim without saving.
StartFindsExisting(p) ==
    /\ CanStart(p) /\ ~dry
    /\ \E b \in OpenBlocks(mem) :
        /\ mem[b].st = "sealed" => mem[b].strat = "native_batch"
        /\ Enter(p, "claim", b)
    /\ UNCHANGED <<mem, disk, cmd, stale, rtVars, obs, calls>>

SealDone(p) ==
    /\ pc[p] = "sealing" /\ Saved(p) /\ CommandGuard(p)
    /\ Publish
    /\ IF dry THEN Return(p) ELSE Goto(p, "claim")
    /\ UNCHANGED <<disk, stale, rtVars, obs, calls>>

CancelDryRunDone(p) ==
    /\ pc[p] = "cancelling" /\ Saved(p) /\ CommandGuard(p)
    /\ Publish /\ Return(p)
    /\ UNCHANGED <<disk, stale, rtVars, obs, calls>>

\* The guard after the save refuses to publish: the handler raises.
SaveRefused(p) ==
    /\ pc[p] \in {"sealing", "cancelling", "claiming"} /\ Saved(p) /\ ~CommandGuard(p)
    /\ Discard /\ Return(p)
    /\ UNCHANGED <<disk, stale, rtVars, obs, calls>>

-----------------------------------------------------------------------------
(* _async_dispatch_created_block: preflight, claim, external call,         *)
(* acceptance, quarantine.                                                 *)

\* The vacuum, its selector or the preflight is not usable: nothing was sent.
PreflightFails(p) ==
    /\ pc[p] = "claim"
    /\ Return(p)
    /\ UNCHANGED <<mem, disk, cmd, stale, rtVars, obs, calls>>

\* _resolve_command_cleaning_mode finds the required selector gone, in the
\* planning command or before the claim: it latches and quarantines nothing.
SelectorLost(p) ==
    /\ \/ CanStart(p) /\ (dry \/ \A b \in Block : mem[b].st # "sealed")
       \/ pc[p] = "claim" /\ CommandGuard(p)
    /\ topo' = FALSE
    /\ obs' = <<>>
    /\ Return(p)
    /\ UNCHANGED <<mem, disk, cmd, stale, up, dry, calls>>

\* _NativeDispatchClaim: a later sent_at makes every queued observation stale.
Claim(p) ==
    /\ pc[p] = "claim" /\ LockFree /\ CommandGuard(p)
    /\ CanCommit(mem, blk[p])
    /\ BeginSave(p, BeginCommit(mem, blk[p]))
    /\ Goto(p, "claiming")
    /\ obs' = [i \in DOMAIN obs |-> [obs[i] EXCEPT !.fresh = FALSE]]
    /\ UNCHANGED <<mem, disk, stale, rtVars, calls>>

ClaimLost(p) ==
    /\ pc[p] = "claim" /\ LockFree
    /\ ~CommandGuard(p) \/ ~CanCommit(mem, blk[p])
    /\ Return(p)
    /\ UNCHANGED <<mem, disk, cmd, stale, rtVars, obs, calls>>

SendCleanArea(p) == calls' = [calls EXCEPT ![blk[p]] = @ + 1]

\* The claim is durable and published; the first side effect begins at once.
ClaimDone(p) ==
    /\ pc[p] = "claiming" /\ Saved(p) /\ CommandGuard(p)
    /\ Publish
    /\ \/ Goto(p, "selecting") /\ UNCHANGED calls
       \/ Goto(p, "calling") /\ SendCleanArea(p)
    /\ UNCHANGED <<disk, stale, rtVars, obs>>

\* Where the result of an ambiguous operation leads when a guard rejects it.
\* (Mutant: it just raises.)
Ambiguous_Raises(p) == Return(p)
Ambiguous(p) == IF RuntimeGuard(p) THEN Goto(p, "quarantine") ELSE Return(p)

SelectReturns(p) ==
    /\ pc[p] = "selecting"
    /\ IF CommandGuard(p) THEN Goto(p, "calling") /\ SendCleanArea(p)
                          ELSE Ambiguous(p) /\ UNCHANGED calls
    /\ UNCHANGED <<mem, disk, cmd, stale, rtVars, obs>>

CallReturns(p) ==
    /\ pc[p] = "calling"
    /\ Goto(p, "accept")
    /\ UNCHANGED <<mem, disk, cmd, stale, rtVars, obs, calls>>

\* An exception of a service call, or a cancellation of the waiting handler.
CallFails(p) ==
    /\ "call" \in Faults
    /\ pc[p] \in {"selecting", "calling", "accept"}
    /\ Goto(p, "quarantine")
    /\ UNCHANGED <<mem, disk, cmd, stale, rtVars, obs, calls>>

AcceptBegins(p) ==
    /\ pc[p] = "accept" /\ LockFree /\ CommandGuard(p)
    /\ mem[blk[p]].st \notin Settled
    /\ BeginSave(p, Accept(mem, blk[p]))
    /\ Goto(p, "accepting")
    /\ UNCHANGED <<mem, disk, stale, rtVars, obs, calls>>

\* An observation was faster, or the guard rejects the acceptance.
AcceptSkipped(p) ==
    /\ pc[p] = "accept" /\ LockFree
    /\ \/ CommandGuard(p) /\ mem[blk[p]].st \in Settled /\ Return(p)
       \/ ~CommandGuard(p) /\ Ambiguous(p)
    /\ UNCHANGED <<mem, disk, cmd, stale, rtVars, obs, calls>>

AcceptDone(p) ==
    /\ pc[p] = "accepting" /\ Saved(p)
    /\ IF CommandGuard(p) THEN Publish /\ Return(p)
                          ELSE Discard /\ Ambiguous(p)
    /\ UNCHANGED <<disk, stale, rtVars, obs, calls>>

QuarantineBegins(p) ==
    /\ pc[p] = "quarantine" /\ LockFree /\ RuntimeGuard(p)
    /\ CanQuarantine(mem, blk[p])
    /\ BeginSave(p, QuarantineDispatch(mem, blk[p]))
    /\ Goto(p, "quarantining")
    /\ UNCHANGED <<mem, disk, stale, rtVars, obs, calls>>

\* The block already moved on, the runtime is gone, or the domain raises.
\* (Mutant: it waits until the block can be quarantined.)
QuarantineSkipped_NotYet(p) ==
    /\ pc[p] = "quarantine" /\ LockFree /\ ~RuntimeGuard(p)
    /\ Return(p)
    /\ UNCHANGED <<mem, disk, cmd, stale, rtVars, obs, calls>>
QuarantineSkipped(p) ==
    /\ pc[p] = "quarantine" /\ LockFree
    /\ ~RuntimeGuard(p) \/ ~CanQuarantine(mem, blk[p])
    /\ Return(p)
    /\ UNCHANGED <<mem, disk, cmd, stale, rtVars, obs, calls>>

QuarantineDone(p) ==
    /\ pc[p] = "quarantining" /\ Saved(p)
    /\ IF RuntimeGuard(p) THEN Publish ELSE Discard
    /\ Return(p)
    /\ UNCHANGED <<disk, stale, rtVars, obs, calls>>

-----------------------------------------------------------------------------
(* The operator's commands: cancel_block, resolve_uncertain_run, and the   *)
(* plan edits (skip, postpone, interval), which save the ledger unchanged. *)

OperatorBegins(next) ==
    /\ up = "up" /\ topo /\ LockFree
    /\ BeginSave("operator", next)
    /\ UNCHANGED <<mem, disk, stale, callVars, rtVars, obs, calls>>

CancelBlock(b) == CanCancel(mem, b) /\ OperatorBegins(Cancel(mem, b))
ResolveUncertainRun(b) == CanResolve(mem, b) /\ OperatorBegins(Resolve(mem, b))
EditPlan == OperatorBegins(mem)

OperatorDone ==
    /\ cmd.by = "operator" /\ cmd.durable
    /\ IF cmd.cur /\ topo THEN Publish ELSE Discard
    /\ UNCHANGED <<disk, stale, callVars, rtVars, obs, calls>>

-----------------------------------------------------------------------------
(* The observer: state events, their application, and fail_closed.         *)

Observe(kind) ==
    /\ up # "down" /\ topo /\ Len(obs) < MaxObs
    /\ obs' = Append(obs, [kind |-> kind, fresh |-> TRUE, latch |-> FALSE])
    /\ UNCHANGED <<mem, disk, cmd, stale, callVars, rtVars, calls>>

\* fail_closed: latch, drop the queued observations of this binding, and let
\* an unguarded task quarantine the work that is active now.  It reports the
\* event that was met, which a dispatch may have overtaken.
FailClosed ==
    /\ up # "down" /\ topo
    /\ topo' = FALSE
    /\ IF ActiveWork(mem)
       THEN \E fresh \in BOOLEAN :
               obs' = <<[kind |-> "uncertain", fresh |-> fresh, latch |-> TRUE]>>
       ELSE obs' = <<>>
    /\ UNCHANGED <<mem, disk, cmd, stale, callVars, up, dry, calls>>

ObservationApplies ==
    /\ obs # <<>> /\ LockFree
    /\ obs' = Tail(obs)
    /\ LET next == Apply(Head(obs), mem)
       IN \/ next # mem /\ BeginSave("observer", next)
          \/ (next = mem \/ MayPrecedeCommit(Head(obs), mem)) /\ UNCHANGED cmd
    /\ UNCHANGED <<mem, disk, stale, callVars, rtVars, calls>>

ObservationDone ==
    /\ cmd.by = "observer" /\ cmd.durable
    /\ Publish
    /\ UNCHANGED <<disk, stale, callVars, rtVars, obs, calls>>

-----------------------------------------------------------------------------
(* Setup, unload, and the loss of the process.                             *)

\* _async_load_planner_state: recover the stored ledger durably, then publish.
Setup ==
    /\ up = "down"
    /\ mem' = Recover(disk) /\ disk' = Recover(disk)
    /\ up' = "up" /\ topo' \in BOOLEAN /\ dry' \in BOOLEAN
    /\ UNCHANGED <<cmd, stale, callVars, obs, calls>>

\* async_unload_entry: invalidate_commands, then await the platforms.
UnloadBegins ==
    /\ up = "up"
    /\ up' = "unloading"
    /\ cur' = [p \in Caller |-> FALSE]
    /\ cmd' = [cmd EXCEPT !.cur = FALSE]
    /\ UNCHANGED <<mem, disk, stale, pc, blk, topo, dry, obs, calls>>

\* The platforms refuse: activate_commands, and no captured command revives.
UnloadFails ==
    /\ "unload" \in Faults /\ up = "unloading"
    /\ up' = "up"
    /\ UNCHANGED <<mem, disk, cmd, stale, callVars, topo, dry, obs, calls>>

\* What the detached runtime may still write: the save in flight, then the
\* unguarded quarantine of fail_closed, computed on what it has in memory.
Owed ==
    LET inFlight == IF LockFree \/ cmd.durable THEN <<>> ELSE <<cmd.next>>
        known == IF cmd.by = "observer" THEN cmd.next ELSE mem
        latched == Apply([kind |-> "uncertain", fresh |-> LatchIsFresh], known)
    IN IF LatchPending /\ latched # known THEN Append(inFlight, latched)
                                          ELSE inFlight

\* shutdown_runtime: observations and listeners are detached.  A handler that
\* waits for its save or for the old lock will be rejected by its guard.
UnloadDone ==
    /\ up = "unloading"
    /\ QuietReload => LockFree /\ ~LatchPending
    /\ up' = "down"
    /\ stale' = stale \o Owed /\ Len(stale') <= MaxStale
    /\ cmd' = Nobody
    /\ obs' = <<>>
    /\ pc' = [p \in Caller |-> IF pc[p] \in Saving THEN "idle" ELSE pc[p]]
    /\ blk' = [p \in Caller |-> IF pc[p] \in Saving THEN NoBlock ELSE blk[p]]
    /\ UNCHANGED <<mem, disk, cur, topo, dry, calls>>

\* A write of a detached runtime lands in the shared store file, or fails.
StaleWrite ==
    /\ stale # <<>>
    /\ stale' = Tail(stale)
    /\ disk' \in {disk, Head(stale)}
    /\ UNCHANGED <<mem, cmd, callVars, rtVars, obs, calls>>

\* Home Assistant dies: only the store file and the calls made survive.
Crash ==
    /\ "crash" \in Faults /\ up # "down"
    /\ up' = "down"
    /\ cmd' = Nobody /\ stale' = <<>> /\ obs' = <<>>
    /\ pc' = [p \in Caller |-> "idle"]
    /\ blk' = [p \in Caller |-> NoBlock]
    /\ cur' = [p \in Caller |-> FALSE]
    /\ UNCHANGED <<mem, disk, topo, dry, calls>>

-----------------------------------------------------------------------------
Init ==
    /\ mem = EmptyLedger /\ disk = EmptyLedger
    /\ cmd = Nobody /\ stale = <<>> /\ obs = <<>>
    /\ pc = [p \in Caller |-> "idle"]
    /\ blk = [p \in Caller |-> NoBlock]
    /\ cur = [p \in Caller |-> FALSE]
    /\ up = "down" /\ topo = FALSE /\ dry = TRUE
    /\ calls = [b \in Block |-> 0]

Handler(p) ==
    \/ StartSeals(p) \/ StartCancelsDryRun(p) \/ StartFindsExisting(p)
    \/ SealDone(p) \/ CancelDryRunDone(p) \/ SaveRefused(p)
    \/ PreflightFails(p) \/ SelectorLost(p)
    \/ Claim(p) \/ ClaimLost(p) \/ ClaimDone(p)
    \/ SelectReturns(p) \/ CallReturns(p) \/ CallFails(p)
    \/ AcceptBegins(p) \/ AcceptSkipped(p) \/ AcceptDone(p)
    \/ QuarantineBegins(p) \/ QuarantineSkipped(p) \/ QuarantineDone(p)

Operator ==
    \/ \E b \in Block : CancelBlock(b) \/ ResolveUncertainRun(b)
    \/ EditPlan \/ OperatorDone

Observer ==
    \/ \E kind \in Outcome : Observe(kind)
    \/ FailClosed \/ ObservationApplies \/ ObservationDone

Lifecycle ==
    \/ Setup \/ UnloadBegins \/ UnloadFails \/ UnloadDone \/ StaleWrite \/ Crash

Next ==
    \/ \E p \in Caller : Handler(p)
    \/ WriteLands \/ SaveFails
    \/ Operator \/ Observer \/ Lifecycle

Spec == Init /\ [][Next]_vars

-----------------------------------------------------------------------------
(* Fairness: the event loop runs what is ready, asyncio.Lock serves its    *)
(* waiters in turn (hence strong fairness for a lock request), a save and  *)
(* a blocking service call end, and so does the unloading of platforms.    *)

\* The command that holds the lock goes on.
Resumes(p) ==
    SealDone(p) \/ CancelDryRunDone(p) \/ SaveRefused(p)
    \/ ClaimDone(p) \/ AcceptDone(p) \/ QuarantineDone(p)
HolderGoesOn == WriteLands \/ OperatorDone \/ ObservationDone \/ \E p \in Caller : Resumes(p)

\* A handler that waits for the lock is served.
IsServed(p) ==
    \/ Claim(p) \/ ClaimLost(p)
    \/ AcceptBegins(p) \/ AcceptSkipped(p)
    \/ QuarantineBegins(p) \/ QuarantineSkipped(p)

Fairness ==
    /\ WF_vars(HolderGoesOn)
    /\ SF_vars(ObservationApplies)
    /\ WF_vars(UnloadFails \/ UnloadDone)
    /\ \A p \in Caller :
        /\ WF_vars(SelectReturns(p) \/ CallReturns(p))
        /\ SF_vars(IsServed(p))

FairSpec == Spec /\ Fairness

-----------------------------------------------------------------------------
(* Properties.                                                             *)

AtMostOneOpen(L) == \A b, c \in OpenBlocks(L) : b = c
Dispatched == {"selecting", "calling", "accept", "accepting",
               "quarantine", "quarantining"}
PC == {"idle", "claim"} \cup Saving \cup Dispatched

\* Type invariant: every variable keeps its shape (PlannerState, runtime data).
TypeOK ==
    /\ mem \in Ledger /\ disk \in Ledger
    /\ cmd \in [by : Caller \cup {"nobody", "operator", "observer"},
                next : Ledger, durable : BOOLEAN, cur : BOOLEAN]
    /\ stale \in Seq(Ledger)
    /\ pc \in [Caller -> PC] /\ cur \in [Caller -> BOOLEAN]
    /\ blk \in [Caller -> Block \cup {NoBlock}]
    /\ up \in {"up", "unloading", "down"} /\ topo \in BOOLEAN /\ dry \in BOOLEAN
    /\ obs \in Seq(Observation)
    /\ calls \in [Block -> Nat]

\* A lane never has two open blocks, in memory or on disk, whatever starts,
\* aborted saves and restarts interleave (start_due_block, LaneAlreadyOpenError).
OneOpenBlock == AtMostOneOpen(mem) /\ AtMostOneOpen(disk)

\* clean_area is sent at most once for a block, across concurrent handlers,
\* failures, reloads and restarts.
AtMostOnceCall == \A b \in Block : calls[b] <= 1

\* Whenever clean_area was sent, the store file holds the dispatch intent, so
\* a restart finds neither an unsent nor a cancelled block to send again.
IntentIsDurable ==
    \A b \in Block :
        calls[b] > 0 => disk[b].st \notin {"absent", "sealed", "cancelled"}

\* Two handlers never carry the same claimed block to the vacuum.
ClaimIsExclusive ==
    \A p, q \in Caller :
        /\ pc[p] \in Dispatched \cup {"claiming"} /\ pc[q] \in Dispatched \cup {"claiming"}
        /\ blk[p] = blk[q]
        => p = q

\* While its runtime lives, a handler that reports or quarantines a result
\* meets a state the ledger code accepts: record_uncertain and
\* _record_dispatch_acceptance never raise.
ResultIsApplicable ==
    \A p \in Caller :
        pc[p] \in Dispatched /\ cur[p] =>
            mem[blk[p]].st \in Settled \/ CanQuarantine(mem, blk[p])

\* A published terminal outcome is in the store file, also after aborted saves.
TerminalIsDurable ==
    \A b \in Block : mem[b].st \in TerminalBlock => disk[b] = mem[b]

\* A published terminal outcome never changes, across crashes and reloads too.
TerminalIsFinal ==
    [][\A b \in Block : mem[b].st \in TerminalBlock => mem'[b] = mem[b]]_vars

\* Once published as uncertain, a block never counts as completed
\* (queue semantics, invariant 6).
UncertainNeverSucceeds ==
    \A b \in Block :
        [](mem[b].st = "uncertain" => [](mem[b].st # "completed"))

\* Refinement: the lane keeps the dispatch contract.
PhaseOf(e) ==
    CASE e.st = "absent" -> "none"
      [] e.st = "sealed" -> "planned"
      [] e.st = "cancelled" -> "cancelled"
      [] e.st \in {"completed", "failed"} -> "done"
      [] OTHER -> "claimed"
Contract == INSTANCE DispatchContract
            WITH phase <- [b \in Block |-> PhaseOf(mem[b])], sent <- calls
KeepsContract == Contract!ContractSpec

-----------------------------------------------------------------------------
(* The inductive invariant of the proofs.  RuntimeInv holds whatever a     *)
(* detached runtime still writes; the durable parts need QuietReload.      *)

\* A captured generation is current only while its runtime is up.
CurrentIsUp == \A p \in Caller : cur[p] => up = "up"
\* A handler waits for a save exactly while it holds the coordinator lock.
LockOwner == \A p \in Caller : pc[p] \in Saving <=> cmd.by = p
\* Between two runtimes nobody saves and no observation waits.
DownIsQuiet == up = "down" => LockFree /\ obs = <<>>
\* A handler under way works on a block of the lane.
WorksOnBlock == \A p \in Caller : pc[p] # "idle" => blk[p] \in Block
\* What the acceptance and the quarantine of a block find.
Applies(e) == e.st \in Settled \cup {"committing"}
ResultApplies ==
    \A p \in Caller : pc[p] \in Dispatched /\ cur[p] =>
        /\ Applies(mem[blk[p]])
        /\ ~LockFree /\ cmd.by # p => Applies(cmd.next[blk[p]])
\* The save of a claim holds the intent that memory does not show yet.
ClaimIsSaved ==
    \A p \in Caller : pc[p] = "claiming" =>
        mem[blk[p]].st = "sealed" /\ cmd.next[blk[p]].st = "committing"
CurrentIsExclusive ==
    \A p, q \in Caller :
        /\ pc[p] \in Dispatched /\ pc[q] \in Dispatched
        /\ cur[p] /\ cur[q] /\ blk[p] = blk[q]
        => p = q

RuntimeInv ==
    /\ TypeOK /\ CurrentIsUp /\ LockOwner /\ DownIsQuiet /\ WorksOnBlock
    /\ ResultApplies /\ ClaimIsSaved /\ CurrentIsExclusive

NothingOwed == stale = <<>>
FileHoldsSave == ~LockFree /\ cmd.durable => disk = cmd.next
\* An entry that was uncertain: it stays so, or its job was resolved as failed.
Doubted(e) == e.st = "uncertain" \/ e.job = "failed"
\* Claims, doubts and outcomes of e are also those of f.
Kept(e, f) ==
    /\ Claimed(e) => Claimed(f)
    /\ Doubted(e) => Doubted(f)
    /\ e.st \in TerminalBlock => f = e
\* Neither the file nor a save in flight loses a claim, a doubt or an outcome.
ProgressIsKept ==
    \A b \in Block : Kept(mem[b], disk[b]) /\ (~LockFree => Kept(mem[b], cmd.next[b]))
CallsAreClaimed == \A b \in Block : calls[b] > 0 => Claimed(mem[b])
CarriersAreClaimed ==
    \A p \in Caller :
        /\ pc[p] \in Dispatched => Claimed(mem[blk[p]])
        /\ pc[p] = "selecting" => calls[blk[p]] = 0
SaveIsOneOpen == ~LockFree => AtMostOneOpen(cmd.next)
\* Between the entries e and f of a block lies one move of the contract.
Onward(e, f) ==
    \/ PhaseOf(e) = "planned" /\ PhaseOf(f) \in {"cancelled", "claimed"}
    \/ PhaseOf(e) = "claimed" /\ PhaseOf(f) = "done"
OnePhaseOn(L, M) ==
    LET moved == {b \in Block : PhaseOf(M[b]) # PhaseOf(L[b])}
    IN /\ \A b, c \in moved : b = c
       /\ \A b \in moved :
            \/ Onward(L[b], M[b])
            \/ OpenBlocks(L) = {} /\ PhaseOf(L[b]) = "none" /\ PhaseOf(M[b]) = "planned"
\* The file, and a save in flight, are one move of the contract ahead at most.
OnePhaseAhead == OnePhaseOn(mem, disk) /\ (~LockFree => OnePhaseOn(mem, cmd.next))

DurableInv ==
    /\ NothingOwed /\ FileHoldsSave /\ ProgressIsKept
    /\ CallsAreClaimed /\ CarriersAreClaimed
    /\ ClaimIsExclusive /\ OneOpenBlock /\ SaveIsOneOpen /\ AtMostOnceCall
    /\ OnePhaseAhead

\* Inductive invariant: what the coordinator's lock, its durable saves and its
\* generations together maintain at every await of every handler.
LaneInv == RuntimeInv /\ (QuietReload => DurableInv)

-----------------------------------------------------------------------------
(* What holds within the life of one runtime, whatever an earlier one still *)
(* owes to the store file: no part of it needs QuietReload.                 *)

\* A save in flight is one move of the contract ahead and forgets nothing.
SaveIsNext ==
    ~LockFree => /\ OnePhaseOn(mem, cmd.next)
                 /\ \A b \in Block : Kept(mem[b], cmd.next[b])
OwedIsOneOpen == \A i \in DOMAIN stale : AtMostOneOpen(stale[i])

\* Inductive invariant, also for runtimes detached in the middle of a write.
LifeInv ==
    /\ RuntimeInv /\ OneOpenBlock /\ SaveIsOneOpen /\ OwedIsOneOpen /\ SaveIsNext

\* From setup to detachment every step makes at most one move of the contract
\* and loses no claim, doubt or outcome: only a setup that reads a file which a
\* detached runtime wrote may lose one.
LifeIsOrderly ==
    [][up # "down" => /\ OnePhaseOn(mem, mem')
                      /\ \A b \in Block : Kept(mem[b], mem'[b])]_vars

\* clean_area leaves only a runtime that is set up, not unloading and not
\* latched, with the claim published, for a block that was sealed until this
\* step or whose selector call this handler awaited, and that no other handler
\* of this runtime carries.
SendsUnderGuard ==
    [][\A b \in Block : calls'[b] # calls[b] =>
         /\ up = "up" /\ topo /\ Claimed(mem'[b])
         /\ \E p \in Caller :
              /\ cur[p] /\ blk[p] = b /\ pc'[p] = "calling"
              /\ mem[b].st = "sealed" \/ pc[p] = "selecting"
              /\ \A q \in Caller \ {p} : cur[q] /\ pc[q] \in Dispatched => blk[q] # b
      ]_vars

\* A published intent keeps a handler that will report or quarantine its result:
\* in a runtime that stays up no step leaves a block committing with nobody on its
\* way, but for the failed save of the quarantine itself, after which nobody tries
\* again.  (An unload ends every handler's commands, also one that is refused.)
HasHandler(b) == \E p \in Caller : cur[p] /\ blk[p] = b /\ pc[p] \in Dispatched
QuarantineFails == SaveFails /\ \E p \in Caller : cmd.by = p /\ pc[p] = "quarantining"
HandlersStay ==
    up = "up" /\ up' = "up" /\ ~QuarantineFails =>
        \A b \in Block : mem'[b].st = "committing" /\ (mem[b].st = "committing" => HasHandler(b))
                        => HasHandler(b)'
IntentKeepsHandler == [][HandlersStay]_vars

\* A save adds no intent but the one that its claim publishes, and that of a
\* result leaves none on its block.
SaveKeepsIntents ==
    ~LockFree =>
        \A b \in Block : cmd.next[b].st = "committing" =>
            IF mem[b].st = "committing"
            THEN \A p \in Caller :
                    cmd.by = p /\ pc[p] \in {"accepting", "quarantining"} => blk[p] # b
            ELSE \E p \in Caller : cmd.by = p /\ pc[p] = "claiming" /\ blk[p] = b

-----------------------------------------------------------------------------
(* The lane as EntryRuntime sees it: the open work of the published ledger. *)

WorkIn(e) ==
    CASE e.st = "sealed" -> "sealed"
      [] e.st \in ActiveBlock -> IF e.job \in ActiveJob THEN "active" ELSE "resumed"
      [] OTHER -> IF e.job = "uncertain" THEN "uncertain" ELSE "stranded"
WorkOf(L) ==
    IF OpenBlocks(L) = {} THEN "idle" ELSE WorkIn(L[CHOOSE b \in OpenBlocks(L) : TRUE])
Lane == INSTANCE LaneWork
        WITH work <- IF up = "down" THEN "down" ELSE WorkOf(mem),
             latched <- up # "down" /\ ~topo
\* Refinement: in the life of every runtime the open work moves along the edges
\* of LaneWork, whatever runtimes before it still write; once latched no
\* command moves it.
KeepsLaneWork == Lane!LaneSpec

\* A save in flight holds the next edge, which the latch can still refuse when
\* it is a command's.
SaveIsCommand ==
    \/ cmd.by = "operator"
    \/ \E p \in Caller : cmd.by = p /\ pc[p] \in {"sealing", "cancelling", "claiming"}
SaveIsEdge ==
    ~LockFree =>
        \/ WorkOf(cmd.next) = WorkOf(mem)
        \/ <<WorkOf(mem), WorkOf(cmd.next)>> \in Lane!ReportEdge
        \/ SaveIsCommand /\ <<WorkOf(mem), WorkOf(cmd.next)>> \in Lane!CommandEdge

-----------------------------------------------------------------------------
(* Liveness, under FairSpec.                                               *)

\* Every start_next handler returns to its caller: no lock, save or
\* quarantine keeps it waiting for ever.
HandlersReturn == \A p \in Caller : pc[p] # "idle" ~> pc[p] = "idle"

\* A durable dispatch intent does not stay without a result while the runtime
\* lives: it is accepted, observed, failed or quarantined (start protocol, 8).
IntentSettles ==
    \A b \in Block :
        mem[b].st = "committing" ~> mem[b].st # "committing" \/ up = "down"

\* fail_closed: after the latch no job stays active in the ledger for ever.
LatchedWorkIsQuarantined ==
    LatchPending ~> (\A b \in Block : mem[b].job \notin ActiveJob) \/ up = "down"

-----------------------------------------------------------------------------
(* What the documentation or a table of the code says and the code does    *)
(* not keep; each is refuted by a run of its own.                          *)

\* strings.json: "explicitly resolve the uncertain job before retrying": an
\* open block has a job that can still move, so the lane can be used again.
OpenBlockCanMove == \A b \in OpenBlocks(mem) : mem[b].job \notin TerminalJob

\* architecture.md: within a lane there is at most one commit at a time.
OneCallInFlight ==
    \A p, q \in Caller : pc[p] = "calling" /\ pc[q] = "calling" => p = q

\* capabilities.md: foreign and manual runs are interference, hence no success
\* of a block whose clean_area was never sent.
CompletedWasSent == \A b \in Block : mem[b].st = "completed" => calls[b] > 0
=============================================================================
