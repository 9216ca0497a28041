----------------------------- MODULE EntryRuntime -----------------------------
(***************************************************************************)
(* The life of one config entry: setup, its store load with migration and  *)
(* recovery, the topology latch and its listeners, the Repairs issues, the *)
(* planning switch with its option write, commands and observations seen   *)
(* only by what they do to the open block of the lane, unload, removal and *)
(* crash.  LaneDispatch has the inside of a dispatch; here the world the   *)
(* planner depends on changes under it.                                    *)
(*                                                                         *)
(* A step is the code between two awaits.                                  *)
(***************************************************************************)
EXTENDS Topology, StoreCodec, Naturals, Sequences

CONSTANTS
    Configured,  \* entry.data[area_ids]
    EntryMop,    \* the entry's plans hold vacuum_and_mop work
    Live,        \* not options[dry_run], which nothing below tells apart
    Worlds,      \* bound: the worlds the registries go through
    Stored,      \* bound: what the store file may hold at first
    NoFile,      \* no store file
    Faults,      \* which faults the environment may inject
    MaxToggles,  \* bound: switch calls waiting for the coordinator lock
    MaxOwed      \* bound: writes owed by detached runtimes

ASSUME ConfiguredAssumption == Configured \subseteq Area
ASSUME FlagsAssumption == EntryMop \in BOOLEAN /\ Live \in BOOLEAN
ASSUME WorldsAssumption == Worlds \subseteq World /\ Worlds # {}
ASSUME StoredAssumption == Stored \subseteq Payload \cup {NoFile} /\ NoFile \notin Payload
ASSUME BoundsAssumption == MaxToggles \in Nat /\ MaxOwed \in Nat

VARIABLES
    world,     \* what the registries and states say now
    planning,  \* entry.options[planning_enabled]
    edited,    \* the options flow wrote options the runtime has not read
    phase,     \* where the entry is
    seen,      \* active_issue_conditions of the setup under way
    issues,    \* the Repairs issues of the entry
    file,      \* the store file
    state,     \* the state being set up, then coordinator._state
    rt,        \* the runtime data
    held,      \* the command that holds the coordinator lock while it saves
    starting,  \* how far the dispatch of a started block has come
    waiting,   \* switch calls waiting for the lock, in their order
    latch,     \* quarantine_then_detach waits for the lock
    owed,      \* states that detached runtimes may still write
    unheard    \* what events have left to listeners that have not run yet

setupVars == <<phase, seen>>
lockVars == <<held, starting, waiting, latch>>
vars == <<world, planning, edited, phase, seen, issues, file, state, rt,
          held, starting, waiting, latch, owed, unheard>>

Issue == TopologyIssue \cup {"unresolved_external_run", "corrupt_store", "future_store"}
\* "rewriting" and "saving" are the setup's two saves: the canonical form of a
\* migrated payload, then the first or the recovered state.
Phase == {"unloaded", "loading", "rewriting", "saving", "forwarding", "loaded",
          "unloading", "removed"}
Toggle == [want : BOOLEAN, prev : BOOLEAN, cur : BOOLEAN]
Runtime == [topo : BOOLEAN, enabled : BOOLEAN, mop : BOOLEAN, name : Name,
            selector : Selector \cup {NoSelector}]
Command == [by : {"nobody", "command", "quarantine", "observer"}, next : State, cur : BOOLEAN]

\* The runtime is published; it takes commands until its unload begins.
Runs == phase \in {"forwarding", "loaded", "unloading"}
Active == phase \in {"forwarding", "loaded"}
\* A dispatch is to check the world, or waits for the lock to claim its block.
Start == {"no", "checks", "claims"}

\* has_active_external_work, and an UNCERTAIN block.
ActiveWork == {"active", "resumed"}
Uncertain(s) == s.work \in {"uncertain", "stranded"}
\* quarantine_ambiguous_dispatches.
Recovered(s) ==
    [s EXCEPT !.work = CASE s.work = "active" -> "uncertain"
                         [] s.work = "resumed" -> "stranded"
                         [] OTHER -> s.work]

LockFree == held.by = "nobody"

\* _subscribe_repairs: reconcile after every publication.
\* (Mutant: an issue that is created is never deleted.)
Reconciled_Sticky(was, s) ==
    was \cup (IF Uncertain(s) THEN {"unresolved_external_run"} ELSE {})
Reconciled(was, s) ==
    (was \ {"unresolved_external_run"})
    \cup (IF Uncertain(s) THEN {"unresolved_external_run"} ELSE {})

\* _resolve_configured_vacuum: the topology before the store is read.
SetupIssues(w) ==
    IF w.vacuum = "gone" THEN {"missing_registry"}
    ELSE TopologyIssues(w, Configured, EntryMop, FoundSelector(w))

InitialState == [mode |-> IF EntryMop THEN "vacuum_and_mop" ELSE "vacuum", work |-> "idle"]
Free == [by |-> "nobody", next |-> InitialState, cur |-> FALSE]
\* No runtime; the entity id is kept in entry.data.
NoRuntime(name) ==
    [topo |-> FALSE, enabled |-> FALSE, mop |-> FALSE, name |-> name, selector |-> NoSelector]

Init ==
    /\ world \in Worlds /\ planning \in BOOLEAN /\ edited = FALSE
    /\ phase = "unloaded" /\ seen = {} /\ issues = {}
    /\ file \in Stored /\ state = InitialState
    /\ rt = NoRuntime(world.name) /\ held = Free
    /\ starting = "no" /\ waiting = <<>> /\ latch = FALSE /\ owed = {}
    /\ unheard = {}

-----------------------------------------------------------------------------
(* async_setup_entry.                                                      *)

\* The entity id is rebound to what the registry calls the vacuum now.
SetupBegins ==
    /\ phase = "unloaded" /\ phase' = "loading"
    /\ seen' = SetupIssues(world)
    /\ rt' = [rt EXCEPT !.name = IF world.vacuum = "gone" THEN @ ELSE world.name]
    /\ UNCHANGED <<world, planning, edited, issues, file, state, owed, unheard>>
    /\ UNCHANGED lockVars

\* _async_initialize_planner after the load, _resolve_required_cleaning_mode,
\* the new runtime and its listeners, with planner state s.
RequiresMop(s) == EntryMop \/ s.mode = "vacuum_and_mop"
NewSelector(s) == IF RequiresMop(s) THEN FoundSelector(world) ELSE NoSelector
SetupConditions(s) ==
    seen \cup (IF RequiresMop(s) /\ NewSelector(s) = NoSelector THEN {"lost_capability"} ELSE {})
Finish(s) ==
    /\ issues' = Reconciled(SetupConditions(s), s)
    /\ rt' = [topo |-> SetupConditions(s) \cap TopologyIssue = {}, enabled |-> planning,
              mop |-> RequiresMop(s), name |-> rt.name, selector |-> NewSelector(s)]
    /\ state' = s /\ phase' = "forwarding" /\ edited' = FALSE /\ seen' = {}

\* async_load, then the recovery of ambiguous work, both saved before use.
\* (Mutant: a migrated payload is published without the recovery.)
AfterRewrite_NoRecovery(s) == Finish(s)
AfterRewrite(s) ==
    IF Recovered(s) = s THEN Finish(s)
    ELSE state' = Recovered(s) /\ phase' = "saving" /\ UNCHANGED <<issues, rt, edited, seen>>

LoadReads ==
    /\ phase = "loading"
    /\ IF file = NoFile
       THEN state' = InitialState /\ phase' = "saving" /\ UNCHANGED <<issues, rt, edited, seen>>
       ELSE /\ Readable(file)
            /\ IF Canonical(file) THEN AfterRewrite(Deserialize(file))
               ELSE /\ state' = Deserialize(file) /\ phase' = "rewriting"
                    /\ UNCHANGED <<issues, rt, edited, seen>>
    /\ UNCHANGED <<world, planning, file, owed, unheard>> /\ UNCHANGED lockVars

\* A payload the codec refuses: reported, and left as it is.
\* (Mutant: the planner starts over with a fresh state.)
LoadUnreadable_StartsOver ==
    /\ phase = "loading" /\ file # NoFile /\ ~Readable(file)
    /\ state' = InitialState /\ phase' = "saving"
    /\ UNCHANGED <<world, planning, edited, seen, issues, file, rt, owed, unheard>>
    /\ UNCHANGED lockVars
LoadUnreadable ==
    /\ phase = "loading" /\ file # NoFile /\ ~Readable(file)
    /\ issues' = seen \cup {StoreIssue(file)} /\ phase' = "unloaded" /\ seen' = {}
    /\ UNCHANGED <<world, planning, edited, file, state, rt, owed, unheard>> /\ UNCHANGED lockVars

\* OSError of the load or of a setup save: HA retries, nothing is reported.
SetupIOFails ==
    /\ "load" \in Faults /\ phase \in {"loading", "rewriting", "saving"}
    /\ phase' = "unloaded" /\ seen' = {} /\ state' = InitialState
    /\ UNCHANGED <<world, planning, edited, issues, file, rt, owed, unheard>>
    /\ UNCHANGED lockVars

SetupSaved ==
    /\ phase \in {"rewriting", "saving"}
    /\ file' = Serialize(state)
    /\ IF phase = "rewriting" THEN AfterRewrite(state) ELSE Finish(state)
    /\ UNCHANGED <<world, planning, owed, unheard>> /\ UNCHANGED lockVars

\* async_forward_entry_setups returns.
ForwardDone ==
    /\ phase = "forwarding" /\ phase' = "loaded"
    /\ UNCHANGED <<world, planning, edited, seen, issues, file, state, rt, owed, unheard>>
    /\ UNCHANGED lockVars

-----------------------------------------------------------------------------
(* Losing the topology.                                                    *)

\* fail_closed: latch, report, and quarantine what may be outside.  The
\* listeners of a latched runtime return at once.
FailClosed(conds) ==
    /\ rt' = [rt EXCEPT !.topo = FALSE] /\ unheard' = {}
    /\ issues' = Reconciled(issues, state) \cup conds
    /\ latch' = (latch \/ state.work \in ActiveWork)

\* A state event carries its condition, and is heard under the entity id bound
\* at setup, where a state that says nothing of its features passes; a registry
\* event makes its listener read the registries again.
Notice == TopologyIssue \cup {"registry", "area"}
StateHeard(v) == IF v.name = rt.name /\ v.vacuum # "silent" THEN VacuumError(v) ELSE {}
SelectorHeard(v) ==
    IF rt.mop /\ BoundSelector(v, rt.selector) = NoSelector THEN {"lost_capability"} ELSE {}
Revalidated(v) == TopologyIssues(v, Configured, rt.mop, LiveSelector(v, rt.selector))
RegistryHeard(v) ==
    IF v.vacuum = "gone" THEN {"missing_registry"}
    ELSE Revalidated(v) \cup (IF v.name # rt.name THEN {"missing_registry"} ELSE {})
Conditions(x) ==
    CASE x = "registry" -> RegistryHeard(world)
      [] x = "area" -> Revalidated(world)
      [] OTHER -> {x}

\* What the event that makes v of w leaves to the four listeners.
\* (Mutant: nobody listens to the area registry.)
StateChanged(w, v) == v.vacuum # w.vacuum /\ "gone" \notin {v.vacuum, w.vacuum}
RegistryChanged(w, v) ==
    \/ v.vacuum # w.vacuum /\ "gone" \in {v.vacuum, w.vacuum}
    \/ v.name # w.name \/ v.mapped # w.mapped
Heard_NoAreas(w, v) ==
    (IF StateChanged(w, v) THEN StateHeard(v) ELSE {})
    \cup (IF v.selector # w.selector THEN SelectorHeard(v) ELSE {})
    \cup (IF RegistryChanged(w, v) THEN {"registry"} ELSE {})
Heard(w, v) ==
    (IF StateChanged(w, v) THEN StateHeard(v) ELSE {})
    \cup (IF v.selector # w.selector THEN SelectorHeard(v) ELSE {})
    \cup (IF RegistryChanged(w, v) THEN {"registry"} ELSE {})
    \cup (IF v.existing # w.existing THEN {"area"} ELSE {})

\* One event of Home Assistant: one field of the world changes.
OneEvent(w, v) == \E f \in DOMAIN w : w # v /\ v = [w EXCEPT ![f] = v[f]]
WorldChanges(v) ==
    /\ OneEvent(world, v) /\ world' = v
    /\ phase \in {"loading", "rewriting", "saving"} => "moves" \in Faults
    /\ unheard' = IF Runs /\ rt.topo THEN unheard \cup Heard(world, v) ELSE unheard
    /\ UNCHANGED <<planning, edited, phase, seen, issues, file, state, rt, owed>>
    /\ UNCHANGED lockVars
\* A listener runs, after the step that fired its event: none is a callback.
ListenerRuns(x) ==
    /\ x \in unheard
    /\ IF Conditions(x) # {} THEN FailClosed(Conditions(x))
       ELSE unheard' = unheard \ {x} /\ UNCHANGED <<rt, issues, latch>>
    /\ UNCHANGED <<world, planning, edited, phase, seen, file, state, held, starting, waiting,
                   owed>>

\* _resolve_command_vacuum, the first check of a dispatch.
DispatchMeetsMissingVacuum ==
    /\ starting = "checks" /\ Active /\ rt.topo /\ world.vacuum = "gone"
    /\ FailClosed({"missing_registry"}) /\ starting' = "no"
    /\ UNCHANGED <<world, planning, edited, phase, seen, file, state, held, waiting, owed>>

\* _resolve_command_cleaning_mode, of a dispatch or of the start command as it
\* resolves the areas: latched and reported, and not quarantined.
SelectorLost == rt.mop /\ BoundSelector(world, rt.selector) = NoSelector
CommandMeetsLostSelector ==
    /\ Active /\ rt.topo /\ SelectorLost /\ world.vacuum # "gone"
    /\ \/ starting = "checks" /\ starting' = "no"
       \/ /\ LockFree /\ rt.enabled /\ world.mapped # {} /\ ~(Live /\ state.work = "sealed")
          /\ UNCHANGED starting
    /\ rt' = [rt EXCEPT !.topo = FALSE] /\ unheard' = {}
    /\ issues' = Reconciled(issues, state) \cup {"lost_capability"}
    /\ UNCHANGED <<world, planning, edited, phase, seen, file, state, held, waiting, latch, owed>>

-----------------------------------------------------------------------------
(* Commands and observations, by what they do to the open block.           *)

Hold(by, work) ==
    /\ held' = [by |-> by, next |-> [state EXCEPT !.work = work], cur |-> TRUE]
    /\ UNCHANGED <<world, planning, edited, phase, seen, issues, file, state, rt,
                   waiting, latch, owed, unheard>>
MayCommand == Active /\ rt.topo /\ LockFree

\* start_next seals work, or finds the sealed block of an earlier start.
StartSeals ==
    /\ MayCommand /\ rt.enabled /\ state.work = "idle"
    /\ CanBind(world, Configured) /\ ~SelectorLost
    /\ Hold("command", "sealed") /\ UNCHANGED starting
StartFindsSealed ==
    /\ MayCommand /\ rt.enabled /\ state.work = "sealed" /\ Live
    /\ starting = "no" /\ starting' = "checks"
    /\ UNCHANGED <<world, planning, edited, phase, seen, issues, file, state, rt, held,
                   waiting, latch, owed, unheard>>
\* The dispatch of a started block: vacuum, selector and preflight, before it
\* waits for the lock.  The code has no await between the start and these
\* checks; as a step of their own they meet every world it can, and more.
DispatchChecked ==
    /\ starting = "checks" /\ Active /\ rt.topo
    /\ PreflightPasses(world) /\ ~SelectorLost
    /\ starting' = "claims"
    /\ UNCHANGED <<world, planning, edited, phase, seen, issues, file, state, rt, held,
                   waiting, latch, owed, unheard>>
\* The claim under the lock, whose guard has the generation and the latch
\* alone: neither the world nor the planning switch is looked at again.
Claim ==
    /\ starting = "claims" /\ starting' = "no" /\ MayCommand /\ state.work = "sealed"
    /\ Hold("command", "active")
\* The preflight refuses, the guard does, or the block is no longer sealed.
ClaimGivesUp ==
    /\ \/ starting # "no" /\ ~(Active /\ rt.topo)
       \/ starting = "checks" /\ ~PreflightPasses(world)
       \/ starting = "claims" /\ LockFree /\ state.work # "sealed"
    /\ starting' = "no"
    /\ UNCHANGED <<world, planning, edited, phase, seen, issues, file, state, rt, held,
                   waiting, latch, owed, unheard>>
CancelBlock ==
    MayCommand /\ state.work = "sealed" /\ Hold("command", "idle") /\ UNCHANGED starting
\* resolve_uncertain_run: committed work is resumed, other work ends.
ResolveUncertainRun(work) ==
    /\ MayCommand /\ state.work = "uncertain"
    /\ Hold("command", work) /\ UNCHANGED starting
\* A dispatch whose outcome is ambiguous is quarantined, latched or not.
QuarantineDispatch ==
    /\ Active /\ LockFree /\ state.work = "active"
    /\ Hold("quarantine", "uncertain") /\ UNCHANGED starting
\* An observation that moves the running block.
ObservationApplies(work) ==
    /\ Runs /\ rt.topo /\ LockFree /\ state.work = "active"
    /\ Hold("observer", work) /\ UNCHANGED starting
\* quarantine_then_detach gets the lock.  The event it reports may be older than
\* what was sent: then it says nothing of that dispatch.
LatchQuarantines ==
    /\ Runs /\ latch /\ LockFree /\ latch' = FALSE
    /\ \/ held' = Free
       \/ /\ state.work = "active"
          /\ held' = [by |-> "observer", next |-> [state EXCEPT !.work = "uncertain"],
                      cur |-> TRUE]
    /\ UNCHANGED <<world, planning, edited, phase, seen, issues, file, state, rt, starting,
                   waiting, owed, unheard>>

\* The guard of a command when its save returns.
\* (Mutant: that of the generation alone.)
Publishes_NoLatch == held.by = "observer" \/ (held.cur /\ Active)
Publishes ==
    CASE held.by = "observer" -> TRUE
      [] held.by = "quarantine" -> held.cur /\ Active
      [] OTHER -> held.cur /\ Active /\ rt.topo
SaveReturns ==
    /\ ~LockFree /\ file' = Serialize(held.next)
    /\ IF Publishes
       THEN /\ state' = held.next /\ issues' = Reconciled(issues, held.next)
            /\ starting' = IF Live /\ state.work = "idle" /\ held.next.work = "sealed"
                           THEN "checks" ELSE starting
       ELSE UNCHANGED <<state, issues, starting>>
    /\ held' = Free
    /\ UNCHANGED <<world, planning, edited, phase, seen, rt, waiting, latch, owed, unheard>>
SaveFails ==
    /\ "save" \in Faults /\ ~LockFree
    /\ held' = Free
    /\ UNCHANGED <<world, planning, edited, phase, seen, issues, file, state, rt, starting,
                   waiting, latch, owed, unheard>>

-----------------------------------------------------------------------------
(* The planning switch and the options flow.                               *)

\* Under the lock: the options are committed; or the commit fails and what the
\* call copied is written back; or that fails too, and the options hold what
\* either attempt left while the runtime fails closed.
Commits(t) ==
    /\ planning' = t.want /\ rt' = [rt EXCEPT !.enabled = t.want]
    /\ issues' = Reconciled(issues, state)
RollsBack(t) == "commit" \in Faults /\ planning' = t.prev /\ UNCHANGED <<rt, issues>>
RollbackFails(t) ==
    /\ {"commit", "rollback"} \subseteq Faults /\ planning' \in {planning, t.want, t.prev}
    /\ UNCHANGED issues
\* (Mutant: after a failed rollback the preference is restored.)
ToggleOutcome_Restores(t) ==
    \/ Commits(t) \/ RollsBack(t)
    \/ RollbackFails(t) /\ UNCHANGED rt
ToggleOutcome(t) ==
    \/ Commits(t) \/ RollsBack(t)
    \/ RollbackFails(t) /\ rt' = [rt EXCEPT !.enabled = FALSE]

\* async_turn_on and async_turn_off: the options are copied at the call, which
\* takes the lock at once when it is free and nobody waits for it.
\* (Mutant: a call never waits.)
TakesLock_Always == TRUE
TakesLock == LockFree /\ waiting = <<>>
ToggleArrives(want) ==
    LET t == [want |-> want, prev |-> planning, cur |-> TRUE] IN
    /\ Active /\ rt.topo
    /\ IF TakesLock THEN ToggleOutcome(t) /\ UNCHANGED waiting
       ELSE /\ Len(waiting) < MaxToggles /\ waiting' = Append(waiting, t)
            /\ UNCHANGED <<planning, rt, issues>>
    /\ UNCHANGED <<world, edited, phase, seen, file, state, held, starting, latch, owed, unheard>>
ToggleRuns ==
    /\ waiting # <<>> /\ LockFree /\ waiting' = Tail(waiting)
    /\ IF Head(waiting).cur /\ Active /\ rt.topo THEN ToggleOutcome(Head(waiting))
       ELSE UNCHANGED <<planning, rt, issues>>
    /\ UNCHANGED <<world, edited, phase, seen, file, state, held, starting, latch, owed, unheard>>

\* What a superseded call wanted is not read again.
Superseded == [i \in DOMAIN waiting |-> [want |-> FALSE, prev |-> FALSE, cur |-> FALSE]]
\* async_unload_entry invalidates what was captured and awaits the platforms.
Invalidate ==
    /\ phase' = "unloading" /\ waiting' = Superseded /\ starting' = "no"
    /\ held' = [held EXCEPT !.cur = FALSE]
\* OptionsFlowWithReload writes the options and reloads a loaded entry.
OptionsEdited(enabled) ==
    /\ phase # "removed" /\ enabled # planning
    /\ planning' = enabled /\ edited' = Runs
    /\ IF phase = "loaded" THEN Invalidate
       ELSE UNCHANGED <<phase, waiting, starting, held>>
    /\ UNCHANGED <<world, seen, issues, file, state, rt, latch, owed, unheard>>

-----------------------------------------------------------------------------
(* Unload, removal and crash.                                              *)

UnloadBegins ==
    /\ phase = "loaded" /\ Invalidate
    /\ UNCHANGED <<world, planning, edited, seen, issues, file, state, rt, latch, owed, unheard>>
\* The platforms refuse: a fresh generation, the runtime goes on.
UnloadRefused ==
    /\ "unload" \in Faults /\ phase = "unloading" /\ phase' = "loaded"
    /\ UNCHANGED <<world, planning, edited, seen, issues, file, state, rt, owed, unheard>>
    /\ UNCHANGED lockVars

\* What the detached runtime has in flight lands later, if at all.
InFlight ==
    (IF LockFree THEN {} ELSE {held.next})
    \cup (IF latch /\ state.work = "active" THEN {Recovered(state)} ELSE {})
\* _rollback_setup_runtime.
Detach ==
    /\ phase' = "unloaded" /\ edited' = FALSE
    /\ InFlight # {} => "late" \in Faults
    /\ owed' = owed \cup InFlight /\ Cardinality(owed') <= MaxOwed
    /\ held' = Free /\ starting' = "no" /\ waiting' = <<>> /\ latch' = FALSE
    /\ unheard' = {} /\ rt' = NoRuntime(rt.name) /\ state' = InitialState
    /\ UNCHANGED <<world, planning, seen, issues, file>>
UnloadDone == phase = "unloading" /\ Detach
ForwardFails == "forward" \in Faults /\ phase = "forwarding" /\ Detach

OwedLands(s) ==
    /\ s \in owed /\ owed' = owed \ {s} /\ file' = Serialize(s)
    /\ UNCHANGED <<world, planning, edited, seen, issues, state, rt, phase, unheard>>
    /\ UNCHANGED lockVars

\* async_remove_entry: the store, then the issues, or neither.
Remove ==
    /\ phase = "unloaded" /\ phase' = "removed"
    /\ \/ file' = NoFile /\ issues' = {}
       \/ "save" \in Faults /\ UNCHANGED <<file, issues>>
    /\ UNCHANGED <<world, planning, edited, seen, state, rt, owed, unheard>> /\ UNCHANGED lockVars

\* Home Assistant dies; issues are not persistent.
Crash ==
    /\ "crash" \in Faults /\ phase # "removed"
    /\ phase' = "unloaded" /\ issues' = {} /\ edited' = FALSE
    /\ file' \in {file} \cup {Serialize(s) : s \in owed}
                 \cup (IF LockFree THEN {} ELSE {Serialize(held.next)})
                 \cup (IF phase \in {"rewriting", "saving"} THEN {Serialize(state)} ELSE {})
    /\ held' = Free /\ starting' = "no" /\ waiting' = <<>> /\ latch' = FALSE /\ owed' = {}
    /\ unheard' = {} /\ rt' = NoRuntime(rt.name) /\ state' = InitialState /\ seen' = {}
    /\ UNCHANGED <<world, planning>>

Next ==
    \/ SetupBegins \/ LoadReads \/ LoadUnreadable \/ SetupIOFails \/ SetupSaved
    \/ ForwardDone \/ ForwardFails
    \/ \E v \in Worlds : WorldChanges(v)
    \/ \E x \in unheard : ListenerRuns(x)
    \/ DispatchMeetsMissingVacuum \/ CommandMeetsLostSelector
    \/ StartSeals \/ StartFindsSealed \/ DispatchChecked \/ Claim \/ ClaimGivesUp
    \/ CancelBlock
    \/ \E work \in {"idle", "resumed"} : ResolveUncertainRun(work)
    \/ QuarantineDispatch
    \/ \E work \in {"idle", "uncertain"} : ObservationApplies(work)
    \/ LatchQuarantines \/ SaveReturns \/ SaveFails
    \/ \E want \in BOOLEAN : ToggleArrives(want)
    \/ ToggleRuns
    \/ \E enabled \in BOOLEAN : OptionsEdited(enabled)
    \/ UnloadBegins \/ UnloadRefused \/ UnloadDone
    \/ \E s \in owed : OwedLands(s)
    \/ Remove \/ Crash

Spec == Init /\ [][Next]_vars

-----------------------------------------------------------------------------
(* Properties.                                                             *)

TypeOK ==
    /\ world \in World /\ planning \in BOOLEAN /\ edited \in BOOLEAN
    /\ phase \in Phase /\ seen \in SUBSET TopologyIssue /\ issues \in SUBSET Issue
    /\ file \in Payload \cup {NoFile} /\ state \in State /\ rt \in Runtime
    /\ held \in Command /\ starting \in Start /\ waiting \in Seq(Toggle)
    /\ latch \in BOOLEAN /\ owed \in SUBSET State /\ unheard \in SUBSET Notice

\* attention_required, on a lane that holds no rejected block.
AttentionRequired == ~rt.topo \/ Uncertain(state)
\* planner_ready: "whether public planner commands are safe to attempt".
PlannerReady == rt.enabled /\ ~AttentionRequired
\* The configured work can be executed.
Usable(w) ==
    /\ w.name = rt.name
    /\ TopologyIssues(w, Configured, rt.mop, LiveSelector(w, rt.selector)) = {}

\* While a runtime exists, the Repairs issues say exactly what is wrong with
\* it: a topology issue is open if and only if the topology is latched, the
\* issue of an unresolved run if and only if the ledger holds quarantined
\* work, and no issue of a store it has read.  So "attention required" is on
\* exactly when the user finds an issue.
RepairsMatchRuntime ==
    Runs => /\ rt.topo <=> (issues \cap TopologyIssue = {})
            /\ Uncertain(state) <=> ("unresolved_external_run" \in issues)
            /\ issues \cap {"corrupt_store", "future_store"} = {}
            /\ AttentionRequired <=> (issues # {})

\* The option and the running preference agree, but for an edit of the options
\* that the next runtime has yet to read.
Agree == Runs /\ ~edited => rt.enabled = planning
\* A call that waited behind another writes back what it copied before that one.
RollsBackStale ==
    /\ "commit" \in Faults
    /\ waiting # <<>> /\ waiting' = Tail(waiting) /\ UNCHANGED rt
    /\ Head(waiting).cur /\ Head(waiting).prev # planning /\ planning' = Head(waiting).prev
\* Neither the commit nor its rollback works: the planner pauses.
FailsClosed == {"commit", "rollback"} \subseteq Faults /\ Active /\ ~rt'.enabled
\* The stored option and the preference of the running planner are parted only
\* by a switch call whose rollback fails too, and that leaves the planner
\* paused, or by one that waited for the lock behind another call and rolls
\* back to what it read before: through setups, restarts, refused unloads,
\* edits of the options and any number of waiting calls that fail or are
\* superseded.
SwitchAgrees == [][Agree => Agree' \/ RollsBackStale \/ FailsClosed]_vars

\* A pause wins over every start that has not sealed its block yet: no sealed
\* block is published while planning is off, though the check of the switch
\* precedes the save and nothing looks at it after.
PauseWins ==
    [][Runs /\ state.work = "idle" /\ state'.work = "sealed" => rt.enabled]_vars

\* Work that may be outside survives no restart as active work: a runtime is
\* published with a ledger without active work, and the file already says so.
RecoveryIsDurable ==
    [][~Runs /\ Runs' => state'.work \notin ActiveWork /\ file' = Serialize(state')]_vars

\* A payload the codec refuses stays as it is, byte for byte, through every
\* retry of the setup, until the entry is removed.
UnreadableIsKept ==
    [][file # NoFile /\ ~Readable(file) =>
        file' = file \/ (file' = NoFile /\ phase' = "removed")]_vars

\* "Bereit: alle Mappings/Capabilities ausfuehrbar": once its listeners have run,
\* a planner that is ready can do its configured work, whichever of the four
\* kinds of event took it away or brought it back, in whichever order they
\* run.  It cannot when the world changed while the setup was reading the store,
\* or when the robot's state no longer says what it can do.
ReadyMeansUsable == Runs /\ PlannerReady /\ unheard = {} => Usable(world)

\* Refinement: what this module keeps of the open block moves along the edges
\* of LaneWork, as the blocks of LaneDispatch do, while the topology, the
\* options and the registries change: once latched no command moves it.
Lane == INSTANCE LaneWork
        WITH work <- IF Runs THEN state.work ELSE "down", latched <- Runs /\ ~rt.topo
KeepsLaneWork == Lane!LaneSpec
\* A save in flight holds the next edge: the latch refuses that of a command.
HeldIsEdge ==
    ~LockFree =>
        IF held.by = "command" THEN <<state.work, held.next.work>> \in Lane!CommandEdge
                               ELSE <<state.work, held.next.work>> \in Lane!ReportEdge

\* Outside a runtime nobody holds the lock, waits for it, owes a quarantine or
\* listens.
IdleOutside == ~Runs => LockFree /\ starting = "no" /\ waiting = <<>> /\ ~latch /\ unheard = {}
\* What the last save of a setup writes has been recovered.
RecoveredBeforeUse == phase = "saving" => Recovered(state) = state
\* Nobody is about to write over a payload that the codec refuses.
UnreadableIsAlone ==
    file # NoFile /\ ~Readable(file) => phase \in {"unloaded", "loading", "removed"} /\ owed = {}
\* Whoever saves a sealed block planned it, and the switch waits for the lock.
SealIsPlanned == ~LockFree /\ held.next.work = "sealed" => rt.enabled

\* The inductive invariant: the pieces above make the Repairs issues, the
\* recovery, the unreadable file and the pause survive every step.
EntryInv ==
    /\ TypeOK /\ RepairsMatchRuntime
    /\ IdleOutside /\ RecoveredBeforeUse /\ UnreadableIsAlone /\ SealIsPlanned
===============================================================================
