# Vacuum Planner: specification, model checking and proofs

TLA+ modules, TLC configurations and TLAPS proofs for the Home Assistant
integration `custom_components/vacuum_planner`. Paths below are relative to that
directory unless they start with `docs/` or `tests/`. `PROJECT.json` maps every
definition to the lines it models.

| Module | What it is |
| --- | --- |
| `LaneDispatch` | one robot lane: ledger, coordinator and store, `start_next` handlers, operator, observer, setup and unload |
| `DispatchContract` | the abstract promise of the dispatch path, implemented by `LaneDispatch` |
| `LaneWork` | the abstract life of the open work of a lane, implemented by `LaneDispatch` and by `EntryRuntime` |
| `LaneDispatchProofs`, `LaneLifeProofs` | theorems about `LaneDispatch` for every value of its constants; those about the life of one runtime, whatever earlier ones still write |
| `RoomSchedule` | the room plans and the jobs made from them: due selection, completion credit, user edits |
| `CleaningContract` | the user's book of plans and runs, in which every step is one whole operation, implemented by `RoomSchedule` |
| `RoomScheduleProofs`, `RoomOrderProofs`, `RoomPassingProofs`, `RoomContractProofs` | theorems about `RoomSchedule`: credit and edits; times and order; order under edits of settings; the refinement |
| `Topology`, `StoreCodec` | the registries with the validators of the integration; the payload of the store file with its codec |
| `EntryRuntime` | the life of a config entry over both: setup, topology latch, Repairs issues, planning switch, unload, removal |
| `EntryRuntimeProofs` | theorems about `EntryRuntime` |
| `ConfigFlow`, `ConfigFlowProofs` | the config dialogs up to the created entry, over `Topology`; theorems about them |
| `MCLaneDispatch`, `MCRoomSchedule`, `MCEntryRuntime`, `MCConfigFlow` | small instances for TLC |

## 1. The system

A config entry is one robot, called a lane. Its whole state is one
`PlannerState`: a `PlanRevision` (a `RoomPlan` per area) and a `QueueLedger`
(blocks and jobs). Everything runs in the asyncio event loop of Home Assistant.

| Part | State it keeps | Operations | Who calls it |
| --- | --- | --- | --- |
| Coordinator (`coordinator.py`) | `_state`, `_command_lock`, listeners | `async_command`: lock, guard, compute, guard, save, guard, publish | every part that changes the state |
| Store (`store.py`) | the store file | load, save (atomic replace), remove | coordinator, setup, removal |
| Queue domain (`domain/queue.py`, `domain/models.py`) | none: pure functions over the ledger | seal, claim, accept, complete, quarantine, resolve, recover; validation of every record | commands under the lock |
| Planning (`domain/planning.py`) | none | due snapshot: candidates, their order | `start_next`, sensors |
| `start_next` (`__init__.py:485-687`) | where it waits, its block, the generation it captured | seal or find a block, preflight, claim, select mode, `clean_area`, accept or quarantine | a service call or the button, several at once |
| Native adapter (`adapters/native_area.py`) | none | preflight; blocking service calls | `start_next` |
| Public actions (`public_actions.py`, `number.py`) | none | skip, postpone, cancel, resolve; interval and priority | service calls, number entities |
| Observer (`__init__.py:1037-1164`, `integration_observer.py`) | tasks waiting for the lock; the topology latch | running, completed, failed, uncertain; `fail_closed` | state and registry events |
| Runtime (`const.py`, `__init__.py`) | `topology_ready`, `dry_run`, `planning_enabled`, command and observation generations | setup, recovery, unload, refused unload, reload | Home Assistant |
| Topology (`topology.py`, `adapters/native_area.py`) | none | validate vacuum, area mapping and selector against the registries | setup, config flow, listeners, dispatch |
| Codec (`domain/serialization.py`) | none | serialize, migrate, deserialize | store |
| Planning switch (`switch.py`) | `entry.options`, `planning_enabled` | commit, roll back, pause | user |
| Repairs (`repairs.py`) | issues | reconcile with ledger, latch and store | setup, listeners, coordinator |
| Entities, diagnostics | attributes | read the state | coordinator listeners |
| Config flow (`config_flow.py`) | form data of each open dialog | validate, create entry, options | user |

What is hard here, and hence what the properties are about:

- A handler crosses five awaits between sealing a block and reporting its result.
  Another handler, an observation, the operator, a topology event, an unload or a
  crash can come in at each.
- The external call is not transactional with the file. Intent must be durable
  before the call, and its result must meet a ledger that may have moved on.
- `async_command` can fail with the file replaced and the memory not, and a save
  of a detached runtime can land after the next one has loaded the file.
- Observations carry the time of their event and wait for the lock; the commands of
  the user take their time before they wait for it.
- One command changes plan and ledger. Completion credit, an edit of the user and
  the next start must not undo each other.
- The setup crosses up to four awaits between reading the registries and listening to
  them, and two saves between reading the file and using it.
- The planning option lives in another store than the planner state: its commit can
  fail, and so can the rollback of a failed commit.
- A dialog keeps what an earlier form said about a robot that has changed since.

`PROJECT.json` lists each of these at its line under "hazards".

What makes each part correct: the queue, that a lane has one open block and a
terminal outcome is final; dispatch, that a block is sent at most once and never
without a durable intent; the observer, that an outcome is applied to this run
only and uncertainty never becomes success; the lifecycle, that a runtime that
was detached changes nothing and recovery quarantines what it cannot know;
planning, that a room is cleaned when it is due, credited exactly for what was
completed, and not passed over for ever; the entry, that a lost topology latches at
once, a pause and an unreadable store are respected and the user is told of exactly
what is wrong; the config flow, that a robot has one entry, which its setup accepts.

## 2. LaneDispatch

A step is the code between two awaits. The waiting points are the lock,
`store.async_save`, the two service calls and the unloading of the platforms.

| Variable | Code |
| --- | --- |
| `mem`, `disk` | the ledger of `coordinator._state` and of the store file: per block its state, the state of its only job, its strategy and whether `committed_at` is set |
| `cmd` | the command that holds the lock during its save: its owner, the next ledger, whether the file was already replaced, whether its generation is still current |
| `stale` | writes that a detached runtime still owes to the file |
| `pc`, `blk`, `cur` | where a handler waits, its block, whether the generation it captured is current |
| `up`, `topo`, `dry` | runtime loaded, being unloaded or gone; `topology_ready`; `dry_run` |
| `obs` | observation tasks in firing order, each with whether it is younger than the claim and whether it is the quarantine of the latch |
| `calls` | history: `clean_area` calls per block |

`start_next` seals one job per block (`due_snapshot.jobs[:1]`), so the ledger
maps a block to one record. The `id_factory` gives identities that no block of the
ledger has (`Fresh`). A save takes up to three steps: `BeginSave` (guards, command),
`WriteLands` (the file is replaced), and the `...Done` action of its owner
(guard, publish); `SaveFails` may come before or after `WriteLands`. Every
`...Done` action checks the generation as the code's guard does, and takes the
branch of `RuntimeInactiveError` when it fails.

| Actions | Code |
| --- | --- |
| `StartSeals`, `StartCancelsDryRun`, `StartFindsExisting` | the three outcomes of `command` in `async_start_next` |
| `Claim`, `ClaimLost`, `ClaimDone` | `_NativeDispatchClaim` between preflight and the calls |
| `PreflightFails`, `SelectorLost` | the adapter preflight; a cleaning-mode selector that is gone |
| `SelectReturns`, `CallReturns`, `CallFails` | the two blocking calls, with `_async_run_ambiguous_operation` around them |
| `AcceptBegins`, `AcceptSkipped`, `AcceptDone` | `_record_dispatch_acceptance` |
| `QuarantineBegins`, `QuarantineSkipped`, `QuarantineDone` | `_async_quarantine_dispatch`, shielded from cancellation |
| `CancelBlock`, `ResolveUncertainRun`, `EditPlan` | public actions; an edit of a plan is a save that leaves the ledger alone |
| `Observe`, `FailClosed`, `ObservationApplies`, `ObservationDone` | the state callback, the latch, and the tasks they create |
| `Setup`, `UnloadBegins`, `UnloadFails`, `UnloadDone`, `StaleWrite`, `Crash` | load and recovery; unload; what a detached runtime still writes; the process dies |

Abstractions:

- Any waiter may take the lock next, observations in their own order. `asyncio.Lock`
  is first come first served, so the model has more behaviours than the code.
- `planning_enabled`, a missing runtime and a validation error refuse a start before
  it changes anything: such a start is no step. The idempotency key only decides
  how a second start of an open block is answered.
- A preflight that meets a vacuum that is gone is `FailClosed` followed by the
  handler's refusal. A rolled back setup is `Setup` followed by an unload.
- Setup loads, recovers and saves in one step: nothing else runs for the entry yet.
- Which registry change invalidates the topology is left open.
- The late write of a save whose handler was cancelled belongs to the save itself.
- The one time of a block that matters, `committed_at`, is not kept: an outcome of work
  that was accepted may be older than it, and then raises and changes nothing
  (`domain/models.py:348`), so `ObservationApplies` may refuse one (`MayPrecedeCommit`).
  An observation, and the event that a latch reports, is younger than the claim or not
  (`fresh`); an older one says nothing of a dispatch under way (`integration_observer.py:30`).

`QuietReload` says whether a runtime may be detached while it owes a write. Home
Assistant does not wait for service calls or tasks on unload, so `FALSE` is what the
code permits; `TRUE` describes an unload or options reload at a quiet moment. What
needs it is stated with it, and the run `reload` shows why. What holds without it is
what one runtime does with what it has loaded, from its setup to its end: `LifeInv`,
`LifeIsOrderly`, `SendsUnderGuard`, and the refinement of `LaneWork`.

`DispatchContract` looks at the phases of every block and at the calls, `LaneWork` at
the open work of the lane only (`WorkOf`): what it may become while a runtime lives,
by commands and, latched or not, by what comes back from the vacuum. It has no block,
handler, file or registry, and is what `EntryRuntime` keeps of a dispatch.

## 3. RoomSchedule

The plan of a lane and the jobs made from it, with the clock. `mem`, `disk` and
`saving` are the coordinator's state, the file and the save under way; `waiting`
holds commands with the moment they were asked at. `Effects(c, S)` is what a command
makes of the state under the lock; each may also be refused (a guard, a missing
area binding, a paused planner), which adds behaviours and hides none.

| Definition | Code |
| --- | --- |
| `DueAt`, `Candidate`, `Precedes`, `StartNext` | `_select_due`, `build_due_snapshot`, the `jobs[:1]` of `start_next` |
| `ReportCompleted`, `Credit` | `_completed`, `complete_job_and_advance_plan` |
| `ReportRunning`, `ReportFailed`, `ReportUncertain`, `Sent`, `Runs` | `integration_observer.py` with the age of an event, and the chronology that `_validate_job_lifecycle` demands: an outcome older than the run raises and changes nothing |
| `Rests`, `NextMidnight` | `postpone_area`, `skip_area_today` |
| `Ask`, `Execute`, `WriteLands`, `Publish`, `SaveFails`, `Restart` | `async_command` and `_async_load_planner_state` |

Abstractions: the mode of a room never changes (no command changes it), so a plan has
the interval of its preferred mode only; every configured room is enabled; midnight is
a multiple of `Day` (no zone, no daylight saving); revision identities and
`created_at` are left out; whether a resolved block stays open ("stuck") is a choice,
since `committed_at` is in `LaneDispatch`; a restart finds nothing in flight, as with
`QuietReload`. The times of a block (`domain/models.py:348`) are left out too: where they
make an outcome raise, the command is refused, as any may be.

`CleaningContract` is what the user may rely on: a book of plans and runs, without
commands, lock, file, crash or vacuum, in which planning, trying, ending and crediting a
run, and setting one value of one room, are each one step, asked for at some moment up
to now. `RoomSchedule` implements it under `Book`, which reads the phase of each job
from its state (`Phase`, `RunOf`) and the plans as they are: the save and the file are not
in the book, so a publication takes up the operation that the save holds, and a
restart either none or the one that the file is ahead (`FileOneAhead`).

## 4. EntryRuntime

One config entry from its first setup to its removal, in a world that changes. A
`World` (`Topology`) is one moment of the registries as the validators see them: is
the vacuum usable, which entity id has it, which areas are mapped, which exist, which
cleaning-mode selector is usable. A `Payload` (`StoreCodec`) is what the codec tells
apart in a store file: three schema versions, the retired values it migrates, the part
that is broken, the state it carries. The lane is reduced to what the entry looks at:
the open block is `idle`, `sealed`, `active`, `uncertain`, `resumed` or `stranded`
(the last two are the block of `wedged`, section 6, before and after a restart). That
this reduction is the right one is the refinement `KeepsLaneWork`, which both modules
prove: the open block moves along the same edges here and in `LaneDispatch`.

| Variable | Code |
| --- | --- |
| `world` | what the registries and states of Home Assistant say now |
| `unheard` | what events have left to the four listeners: a condition the event carries, or a registry to read again |
| `planning`, `edited` | the stored option; whether the options flow changed it after the runtime read it |
| `phase`, `seen` | the await that the setup or unload is at; `active_issue_conditions` of the setup |
| `issues` | the Repairs issues of the entry |
| `file`, `state`, `owed` | the store file; `coordinator._state`; saves that detached runtimes may still finish |
| `rt` | `topology_ready`, `planning_enabled`, `requires_vacuum_and_mop`, the entity id and the selector bound at setup |
| `held`, `starting`, `waiting`, `latch` | the command that saves; how far a dispatch is before its claim; switch calls that wait for the lock; `quarantine_then_detach` that waits for it |

| Actions | Code |
| --- | --- |
| `SetupBegins`, `LoadReads`, `LoadUnreadable`, `SetupIOFails`, `SetupSaved`, `ForwardDone`, `ForwardFails` | `async_setup_entry`, cut at the load, the rewrite of a migrated payload, the save of the first or recovered state and the forward to the platforms |
| `WorldChanges` | one event; `Heard` is what it leaves to the four listeners |
| `ListenerRuns` | one listener, later: what it finds then (`Conditions`) latches (`FailClosed`) |
| `DispatchMeetsMissingVacuum`, `CommandMeetsLostSelector` | the two latches inside a command |
| `StartSeals`, `StartFindsSealed`, `DispatchChecked`, `Claim`, `ClaimGivesUp`, `CancelBlock`, `ResolveUncertainRun`, `QuarantineDispatch`, `ObservationApplies`, `LatchQuarantines` | commands and observations by their effect on the open block |
| `SaveReturns`, `SaveFails` | the end of the save, with the guard of who began it |
| `ToggleArrives`, `ToggleRuns`, `ToggleOutcome` | the switch, `async_update_projection`, and commit, rollback or neither |
| `OptionsEdited`, `UnloadBegins`, `UnloadRefused`, `UnloadDone`, `Detach`, `OwedLands`, `Remove`, `Crash` | options reload, unload, removal, process loss |

Abstractions: the inside of a dispatch is `LaneDispatch`; one handler at a time waits
for its claim (two are in `LaneDispatch`); an event changes one field of the world;
listeners are not marked `@callback`, so they run after the step of their event, in any
order, one step each, and not after their runtime is detached; the code checks vacuum,
selector and preflight before it waits for the lock, and the claim looks at the generation
and the latch alone (`starting`: "checks", then "claims"); the quarantine of the latch may
spare a dispatch that is younger than the event it reports, which times would decide;
errors of formatting and of typing in a payload are one flaw per envelope. The fault
`"moves"` lets the world change while a setup reads the store, `"late"` lets a runtime
be detached with a save in flight, `"commit"` and `"rollback"` let the write of an option
and that of its rollback fail. A vacuum that is `"silent"` has a state without
`supported_features`: the validators refuse it, the state listener lets it pass
(`__init__.py:1132`).

## 5. ConfigFlow

`flows` holds each open dialog (its form, the registry identity it chose, areas, plans
so far, index, modes on offer), `entries` the config entries, `worlds` one `World` per
robot, with unique entity ids and one area registry. Every handler of the flow runs
without a suspension, so it is one step: `UserPicks`, `AreasChosen`, `PlanGiven`,
`FormRefreshed`, `FlowAborts`; `Finish` is the end of the last form with its second
validation and `AbortConfigured` what Home Assistant's unique-id check does. `moved` is
history: the dialogs whose robot changed since they chose it. That Home Assistant also
ends a second dialog for one robot is not relied on. Interval and priority of a plan
are left out: no later step looks at them. That a mapped area still exists is not asked by
any form (`topology.py:63`), only by the setup (`__init__.py:878`), and the model follows
both. The options flow is `OptionsEdited` of
`EntryRuntime`.

## 6. Properties and runs

`LaneDispatch`:

| Run | Properties | Shows |
| --- | --- | --- |
| `safety` | `OneOpenBlock`, `AtMostOnceCall`, `IntentIsDurable`, `ClaimIsExclusive`, `TerminalIsDurable`, `LaneInv` (with `TypeOK`), `TerminalIsFinal`, `KeepsContract` | two blocks, two handlers, crashes, reloads and failed saves: no block is sent twice, no intent or outcome is lost or changed; the lane implements `DispatchContract`; the inductive invariant holds |
| `life` | `ResultIsApplicable`, `LifeIsOrderly`, `KeepsLaneWork`, `IntentKeepsHandler` | every fault, and runtimes detached while they owe a write (`QuietReload = FALSE`): a handler meets no ledger operation that raises, no step of a live runtime loses a claim, doubt or outcome or the handler of an intent (but by the failed save of its quarantine), and a latched one publishes no command (one block, one handler) |
| `settles` | `UncertainNeverSucceeds`, `HandlersReturn`, `IntentSettles`, `LatchedWorkIsQuarantined` | an uncertain block never becomes completed; every handler returns; an intent gets a result; a latch ends with no active job (one block, two handlers, crashes and failing calls) |

`RoomSchedule` with two rooms:

| Run | Properties | Shows |
| --- | --- | --- |
| `credit` | `TypeOK`, `CreditMatchesLedger`, `CleanedAtMostDaily`, `TurnInv`, `ImplementsContract` | last cleaning = latest completed job of the same ledger, in memory and on disk; a completed room is not planned again within a day, whatever interval is set meanwhile; every step is one operation of `CleaningContract` or none; an inductive invariant holds |
| `order` | `NotPassedTwice`, `OrderInv` | a room that was cleaned before is passed over once at most by a room of no higher priority; the inductive invariant of its proof holds |
| `edits` | `FileOneAhead`, `ScheduleInv`, `EditsDoNotCollide` | no edit or completion undoes another; the file and the save are one operation ahead of what is published at most; an inductive invariant holds |

`EntryRuntime` and `ConfigFlow`:

| Run | Properties | Shows |
| --- | --- | --- |
| `entry` | `RepairsMatchRuntime`, `ReadyMeansUsable`, `EntryInv` (with `TypeOK`), `SwitchAgrees`, `PauseWins`, `RecoveryIsDurable`, `UnreadableIsKept`, `KeepsLaneWork` | every fault but `"moves"`: the issues say exactly what is wrong, the stored option and the preference of the planner are parted only by a failed rollback, which pauses it, or by the stale rollback of a second waiting call, a pause stops what has not been sealed, recovered work is on disk before use, an unreadable store is kept, a ready planner whose listeners have run can do its work, the open block moves as in the lane |
| `flow` | `OneEntryPerVacuum`, `PlansCoverAreas`, `FlowInv` (with `TypeOK`), `CreatedOnLiveRobot`, `CreatedIsUsable`, `OneBatchMode` | two dialogs, two robots that may swap names: one entry per robot, on a live robot, complete, with one mode unless its selector was lost after a first plan with mop, and accepted by its own setup but for an area that no longer exists |

Runs that TLC refutes, each with a sentence of the repository that the code does not
keep (quoted under "findings" in `PROJECT.json`):

| Run | Refuted | What happens |
| --- | --- | --- |
| `wedged` | `OpenBlockCanMove` | accept, go uncertain, resolve as `retry_safe`: the block becomes `running` with a failed job, nothing closes it, the lane refuses every start |
| `overlap` | `OneCallInFlight` | an error event closes a block while its `clean_area` is awaited; the next start calls too |
| `reload` | `AtMostOnceCall` | a write of a detached runtime overwrites a newer claim; after a crash the block is sent again |
| `stale` | `ReadyMeansUsable` | the setup reads the registries, then the store, and listens last: a mapping lost in between leaves an entry that reports ready |

More disagreements of the same kind, without a run of their own:

- A manual run while the selector call is awaited makes the block `running` and then
  `completed`, though it was never sent; `docs/capabilities.md:89` calls such runs
  interference. `CompletedWasSent` in `LaneDispatch` states it and does not hold.
- A refused unload invalidates the generation of a handler whose call then succeeds:
  nobody records the result (`docs/queue-semantics.md:126`), the block stays
  `committing` until the next setup. `IntentSettles` fails with the fault `"unload"`.
- Two switch calls that wait together, the second of which fails to commit: its
  rollback restores the option the first one had replaced, while the runtime follows
  the first (`tests/test_public_platforms.py:163` wants an atomic rollback).
  `SwitchAgrees` names this step (`RollsBackStale`), and the run `entry` reaches it.
- A pause does not stop a block that is sealed already: the claim of a dispatch that waits
  for the lock does not look at the switch (`Claim`). No document says that it should.
- A selector that is lost between two plan forms, after a first plan with mop, makes the
  later plans dry ones, so the batch is mixed, where `tests/test_config_flow.py:511`
  demands one homogeneous mode. `OneBatchMode` names these dialogs as its exception; it
  holds for a selector that is found in between and for batches that began without mop.
- The dialog accepts a mapped area that does not exist any more; the first setup of the
  entry reports it as removed, as `CreatedIsUsable` says. Nor is the mapping validated again
  at creation (`docs/config-flow-and-dashboard.md:35` asks for it): its premise.
- A state that stops naming its features passes the state listener and is refused by the
  setup: the planner stays ready until the next event. `ReadyMeansUsable` fails with such
  a world, no run has one, and `ReadyIsUsable` assumes there is none.
- `_running` and `_failed` replace blocks directly and so move them along edges that
  `_BLOCK_TRANSITIONS` (`domain/models.py:360`) does not list (committing to running,
  committed to failed). The model does what the code does.

### Bounds

- `Block`: a second block can be sealed only when the first is closed, so two show
  every interaction of a block with its successor; identities are symmetric.
- `Caller`: two handlers race for the claim. `life` has one: the other waiters for the
  lock are the observer and the operator, which it keeps.
- Faults: each run has those its questions turn on. A failing call ends like a
  selector that fails, so `safety` leaves it to `life` and `settles`; a refused unload
  is in `life`. `settles` leaves out failing saves and late writes; `HandlersReturn` was
  checked with both, for one block and one handler, in a run that is not kept.
- `MaxStale`: one owed write in `life`, two in `reload`; none is owed elsewhere.
  `life` leaves the history `calls` out of the state (`VIEW`): only the choice of
  a new identity reads it. The invariants of one life that no run has (`LifeInv`,
  `SendsUnderGuard`) were checked with two blocks and one handler, and with one block
  and two handlers, before they were proved.
- `MaxObs`: one waiting observation and one that is being saved.
- `Room`: the order of the snapshot compares two rooms. `Day` is one tick where time
  passes and two where midnight differs from a day later.
- `Modes`: `credit` has "vacuum_and_mop", which credits both kinds of cleaning; the other
  runs have "vacuum", whose due time depends on both.
- `MaxTime`, `MaxJobs`: `order` needs both rooms cleaned once and then two more
  blocks, hence four; the others need a job and its successor.
- `MaxWaiting`: two in `credit`, so that an observation waits behind the claim it is
  older than. One elsewhere.
- `Worlds` in `stale`: one good world and the six that one event makes of it, one per
  field and per listener. `entry` has one world for each way to lose the topology: no
  vacuum, no area, no selector; the others were checked in longer runs, and the theorems
  hold for every set of worlds. A good world is in between two bad ones, since an event
  changes one field. One area, two names, one selector. `Stored`: no file, ambiguous
  work of the first schema, a later schema, a plan that is not migrated.
- `MaxToggles`, `MaxOwed`: two switch calls wait behind a save, so that one commits while
  the other waits; with one waiting call the stale rollback does not happen. One write is
  owed.
- `WithoutRefused`, the `VIEW` of `entry`, leaves out the waiting calls and the dispatch of
  a runtime that is latched: nothing takes the latch off, so both are refused, and no
  property reads them there.
- `flow`: two robots that may swap their names, two areas and the orders and
  repetitions of two, two dialogs. The first robot is whole, lacks an area, lacks the
  selector or is gone; the second area exists or not, whatever the robots map.
- `Edits` is empty in `order` and everything in `edits`. `NotPassedTwice` compares
  with the present settings, so a shorter interval or a raised priority breaks it; the
  theorems of `RoomPassingProofs` say which edits it allows.
- `Faults` of `RoomSchedule`: restarts in `credit` and `order`, failing saves too in
  `edits`. One priority in `order` and one interval in `edits`: priorities are edited in
  `edits`, intervals in `credit`.

Every property has a mutant in `PROJECT.json`: a plausible mistake in one definition
under which the same run finds it violated.

### Fairness

`FairSpec` of `LaneDispatch` assumes what the event loop gives: a task that is ready
runs (weak fairness of the `...Done` actions), a save ends, a blocking service call
ends, the unloading of platforms ends. A request for the lock has strong fairness:
`asyncio.Lock` wakes its waiters in turn, so a waiter that is passed by others is
served in the end. One condition covers all commands that hold the lock
(`HolderGoesOn`): there is one holder at a time, and it leaves the lock only by such a
step, so the condition is that of each of them. The same goes for the two ways in which
a handler waits for the vacuum, and for the request of a handler at its three places
(`IsServed`): the handler is at one of them at a time, so the condition is that of this
place. Nothing is assumed of starts, operators, events, faults or setup.
`IntentSettles` and `LatchedWorkIsQuarantined` end with the runtime
(`up = "down"`): the next setup quarantines what it finds.

## 7. What is proved

`LaneDispatchProofs`, for any number of blocks, handlers and waiting observations and
every set of faults, from the named assumptions on the constants:

| Theorem | Statement |
| --- | --- |
| `TypeCorrect` | `Spec => []TypeOK`, also with `QuietReload = FALSE` |
| `ResultsApply` | `Spec => []ResultIsApplicable`, also with `QuietReload = FALSE` |
| `LaneInvariant` | `Spec => []LaneInv` |
| `LaneSafety`, `ClaimsAreExclusive` | with `QuietReload`: at most one call, exclusive claims |
| `IntentsAreDurable`, `FileKeepsWhatWasDone` | with `QuietReload`: durable intents and durable outcomes |
| `OutcomesAreFinal`, `UncertainNeverCompletes` | with `QuietReload`: `TerminalIsFinal`, `UncertainNeverSucceeds` |
| `LaneKeepsContract` | with `QuietReload`: `KeepsContract`, that the lane implements `DispatchContract` |

None of these properties is inductive. Between the save of a claim and its
publication the file is ahead of the memory, and after an aborted save it stays so;
what makes the protocol right is the relation of memory, file and the save in flight.
`LaneInv` states it in two parts.

`RuntimeInv` holds whatever a detached runtime does: the handler that owns the lock is
the one that waits for a save; a generation is current only while the runtime is up;
what a live handler is about to report meets an applicable state, in memory and in
the save in flight (`ResultApplies`); a claim that is being saved is still sealed in
memory (`ClaimIsSaved`); two live handlers never carry one block.

`DurableInv` needs `QuietReload`: claims and outcomes in memory are also in the file
and in the save in flight (`ProgressIsKept`), which by `FileHoldsSave` is what the
file holds once it was replaced. A handler that carries a block carries a claimed
one and has not called yet while it selects the mode (`CarriersAreClaimed`). File and save
are one move of the contract ahead of the memory at most (`OnePhaseAhead`): otherwise a
publication or a restart would show two moves as one.

The proof goes in three layers. Lemmas about the ledger operations show that each one
only advances every entry (`Follows`: claims and terminal outcomes are kept, no second
block opens) and keeps what handlers still have to report (`StillApplies`).
`RuntimeInv` is preserved action by action. The durable part follows from classes of
steps: every action begins a save of a follower of `mem`, lands it, publishes it,
drops it or restarts from the file, and as to calls it is quiet, moves one handler
along, or sends a call for a block it has claimed. The step simulation of
`LaneKeepsContract` combines the two: memory moves by one move of the contract at most,
and the one step that also sends is the one that publishes the claim or follows it.
`UncertainNeverCompletes` follows a block that once was uncertain: its state is
`uncertain` or its job is failed (`Doubted`), in all three places, and no operation
completes such a block.

`LaneLifeProofs`, from the same assumptions and for both values of `QuietReload`, that is,
whatever detached runtimes still write and whenever it lands:

| Theorem | Statement |
| --- | --- |
| `LifeInvariant`, `LaneHasOneBlock` | `Spec => []LifeInv`, `[]OneOpenBlock` |
| `LifeOrderly` | `LifeIsOrderly`: between setup and end, a step is one move of the contract at most and loses no claim, doubt or outcome |
| `CallsUnderGuard` | `SendsUnderGuard`: a call leaves a live, unlatched runtime, with the claim published, from the only handler that carries the block |
| `OpenCallsAreAlone` | `[]OpenCallIsAlone`: of the handlers of one runtime that carry a block, one at most carries an open one |
| `OneCallPerLife` | `LifeSpec => OncePerLife`: one runtime never sends a block twice |
| `LaneKeepsWork` | `KeepsLaneWork`: the lane implements `LaneWork` |
| `IntentsKeepHandlers` | `IntentKeepsHandler`: a runtime that stays up never leaves an intent without a handler, unless the save of its quarantine fails |
| `IntentsAreCarried` | without the faults `"save"` and `"unload"`: `[]NoIntentIsOrphan`, every intent of a runtime that is up has a handler |

`LifeInv` adds to `RuntimeInv` what memory, save and owed writes have in common even when
the file is not what memory was computed from: each holds one open block at most, and
the save in flight is one move ahead of memory and forgets nothing (`SaveIsNext`). What
lands late is one whole ledger that some runtime computed, so the file never gets two
open blocks either. `OneCallPerLife` is what remains of `AtMostOnceCall` with late writes.
Its history variable `sent` holds the blocks that this runtime has sent, which stay
claimed in memory for the rest of its life (`SentInv`): a second call takes a second
runtime, as in the run `reload`. `OpenCallsAreAlone` is what remains of `OneCallInFlight`,
which the run `overlap` refutes: a second call leaves only after an event has closed the
block of the first. `LaneKeepsWork` needs that a save in flight holds the
next edge, one of a command only if its owner is a command (`SaveIsEdge`), and that the
save of a command is published only by a step whose guard sees no latch (`MemoryMoves`); a
setup begins with recovered work because its file has one open block at most
(`RecoverQuiets`).

`IntentsKeepHandlers` rests on `SaveKeepsIntents`: a save in flight adds no intent but the
one of its claim, and that of an acceptance or a quarantine leaves none on its block.
So an intent appears only by the publication of its claim, whose handler goes on to call,
and a handler leaves a block that is still an intent by no path: what its guards
reject and what an acceptance cannot save goes to the quarantine, which applies to every
intent. Only a quarantine whose own save fails ends there
(`_async_quarantine_dispatch` does not retry); that intent then waits for an observation,
a topology loss or the next setup.

`RoomScheduleProofs`, `RoomOrderProofs`, `RoomPassingProofs` and `RoomContractProofs`, for
any finite set of rooms, any clock and settings and any number of jobs and waiting commands:

| Theorem | Statement |
| --- | --- |
| `ScheduleInvariant` | `Spec => []ScheduleInv` |
| `CreditsMatch`, `RoomsAreSpaced` | `[]CreditMatchesLedger`, `[]CleanedAtMostDaily` |
| `EditsKeepApart` | `EditsDoNotCollide` |
| `TurnInvariant`, `TimesFit` | `[]TurnInv`, `[]TypeOK` |
| `OrderInvariant`, `NobodyIsPassedTwice` | with no edits but skip and postpone: `[]OrderInv`, `[]NotPassedTwice` |
| `OnceUnlessItGains` | as long as no edit helps room `r` against room `q` (`KeepsPlace`): `[]PassedOnce`, `q` passes `r` once at most |
| `OnceFromNowOn` | the same from any moment of any behaviour on, for jobs planned after it |
| `WaitIsBounded` | from any moment on, as long as no edit helps `r`: the completed jobs that passed `r` are no more than the rooms of no higher priority |
| `NobodyIsPassedTwiceByEdits` | `[]NotPassedTwice` with every edit that helps no room |
| `FileIsOneAhead` | `[]FileOneAhead` |
| `ContractImplemented` | `ImplementsContract`: the planner implements `CleaningContract` |

`CreditMatchesLedger` is not inductive: a completion is credited rightly only if it is
the latest, which it is because only the last job can be open (`OnlyLastOpen`) and a
new one is planned no earlier than a day after the completion it follows. `ScheduleInv`
says this of the memory, the file and the save in flight, since each of them becomes
the memory, and that the last two are one edit or completion away from the first.
`FirstExists` shows that the order of the snapshot has a first room, so that the choice
of `start_next` is never void.

`TypeOK` says that the times of a job are in order, and what threatens it is a command
whose time is older than the job it meets. The queue is sorted by time (`Sorted`), so
only the claim can be out of line: it reads the clock under the lock. A resolution that
was asked for before a claim must not act on the job claimed. `TurnInv` shows why it
cannot: while a job runs no resolution waits, while one is uncertain no claim waits
behind a resolution, and otherwise no resolution behind a claim (`InTurn`), for what is
published and for what is being saved, which differ by one move (`NextInTurn`).

`NotPassedTwice` follows from `OrderInv`: if a room is planned while a cleaned one of no
lower priority is due, it was due before that one, so its own last completion, and the
planning of that job, lie before that moment too. A completion moves its room behind
every job planned so far, by `TurnInv`. A room that rests claims no turn until its
rest ends, and a rest that the user sets now lies after every job planned so far
(`MidnightIsLater`), so skip and postpone keep the invariant. The due moment is compared
under the settings of now: a shorter interval or a raised priority lets a room claim a
turn it did not have, and `NobodyIsPassedTwice` assumes that nobody edits them
(`NoSettings`).

`RoomPassingProofs` says what such edits cost. For a pair of rooms the only edits that
matter are a shorter interval of `r`, and a priority that comes up to that of `q`
(`GainsNothing`); any other moves the claim of `r` later, if at all (`LongerIsLater`). The
invariant of the pair, `PlaceInv`, holds of what is published, and of the file and the
save unless they hold an edit by which `r` gains: it counts once it is published, also
by a restart. No job lies in the future, so at every moment the invariant holds for the jobs
that are planned from then on, whatever was edited before: an edit that helps `r` costs
no more than a new count (`OnceFromNowOn`). `WaitIsBounded` adds the rooms up: every pass
belongs to a room of its own. Only completed jobs count, and only rooms that do not have
the higher priority: a room may wait for ever behind more urgent ones, or while jobs fail.

`ContractImplemented` takes three facts. Each effect of a command is one operation of the
book at a moment up to now, and no operation if it changes nothing. What is being saved,
and what the file holds, are one operation ahead of what is published at most
(`FileIsOneAhead`): an aborted save leaves the file ahead, and the next command computes
from memory again. The recovery of a restart moves no job to another phase of the book.
That no room which wants a cleaning outranks the planned one is the order of the snapshot
(`FirstIsNotOutranked`); that a completion ends one run and credits its room alone is the
one open job of `ScheduleInv`; that it comes no earlier than its planning is `TurnInv`.

`EntryRuntimeProofs`, for every set of areas, worlds, stored payloads and faults and any
number of waiting switch calls and owed writes:

| Theorem | Statement |
| --- | --- |
| `EntryInvariant`, `TypeCorrect`, `RepairsFollowRuntime` | `Spec => []EntryInv`, `[]TypeOK`, `[]RepairsMatchRuntime` |
| `PausesWin`, `RecoveryComesFirst`, `UnreadableOutlives` | `PauseWins`, `RecoveryIsDurable`, `UnreadableIsKept` |
| `ReadyIsUsable` | without `"moves"` and without a vacuum that is `"silent"`: `[]ReadyMeansUsable`. The run `stale` shows that the first assumption is needed |
| `SwitchStaysTrue` | `SwitchAgrees`, for any number of waiting calls |
| `CommittedSwitchAgrees` | without `"commit"`: `[]Agree`, the option and the preference never part |
| `EntryKeepsWork` | `KeepsLaneWork`: the entry implements `LaneWork` |

`RepairsMatchRuntime` is not inductive: the issues of a runtime are right only if
nothing else was left over from the setup (`IdleOutside`). `PauseWins` rests on
`SealIsPlanned`: a save that seals began while planning was on, and the switch takes
the same lock. `UnreadableIsKept` rests on `UnreadableIsAlone`: a detached runtime owes
a write only if it read the file. `RecoveryIsDurable` rests on `RecoveredBeforeUse`.
`ReadyIsUsable` adds to `EntryInv` that a usable topology at the end of the setup is
the one `seen` at its beginning, and that from then on whatever makes the topology
unusable has a listener that has not run (`LossIsUnheard`): a listener that finds nothing
leaves nothing to find. `EntryKeepsWork` goes the way of `LaneKeepsWork`: the save that is
held is the next edge (`HeldIsEdge`), and its guard decides. `SwitchStaysTrue` follows the
pair of the option and the runtime flag through every step: a setup reads the option, an
edit of the options counts once it is read (`edited`), and a call under the lock sets both,
or neither, but for the two named outcomes (`ToggleAgrees`).

`ConfigFlowProofs`, for any number of robots, dialogs, areas and worlds:
`FlowInvariant`, `TypesHold`, `RobotsAreUnique`, `PlansAreComplete`, `CreationIsLive`,
`CreationIsUsable` and `ModesAgree` prove each property of the run `flow`. `FlowInv`
adds that the plans of a dialog are those of the areas before its index
(`PlansInOrder`); that, unless its robot changed, what it was offered and has given
is what the robot can do (`ChosenIsCurrent`); and that a batch which began without mop goes
on without it, whatever the robot does, since no robot loses `"vacuum"` (`VacuumStays`).

Only model-checked: the liveness properties, which are out of reach of the prover. Every
other property of a passing run is a theorem; of the induction invariants that only proofs
use, `LifeInv`, `SaveIsEdge`, `SaveKeepsIntents`, `HeldIsEdge` and `PlaceInv` were checked
by TLC before.

## 8. What is not modelled

- Blocks of several jobs, `PARTIAL` and `REJECTED`, and the operations that no shipped
  path calls (`fail_block_commit`, `resolve_uncertain_block`, job retries):
  `start_next` seals `due_snapshot.jobs[:1]`, so the program is never in such a state.
- The text table that normalises raw vacuum states; the models start from its four
  outcomes.
- Field by field formatting of the store payload, wording of issues, the Repairs fix
  flow, entities other than the two binary sensors of `EntryRuntime`, diagnostics:
  they format the state and decide nothing.
- Time zones and daylight saving in "today".

## 9. What is left

1. Liveness of the schedule: under which conditions a due room gets its turn.
   `WaitIsBounded` says how many jobs may come before it, not that there are any, and
   the never-cleaned rooms are left out.
2. One composition of `EntryRuntime` and `LaneDispatch`, with several handlers across a
   topology loss; now both implement `LaneWork`, and each abstracts the other.
