-------------------------- MODULE EntryRuntimeProofs --------------------------
(***************************************************************************)
(* Theorems about EntryRuntime and the store codec, for every value of the *)
(* constants: any areas, selectors, worlds, store files and faults.        *)
(***************************************************************************)
EXTENDS EntryRuntime, SequenceTheorems, TLAPS

-----------------------------------------------------------------------------
(* The codec.                                                              *)

\* What is saved is read back as it was, and needs no rewriting.
LEMMA CodecRoundTrip ==
    ASSUME NEW s \in State
    PROVE  /\ Serialize(s) \in Payload
           /\ Readable(Serialize(s)) /\ Canonical(Serialize(s))
           /\ Deserialize(Serialize(s)) = s
<1> DEFINE p == Serialize(s)
<1>1. /\ p \in Payload /\ p.root = "v1" /\ p.plan = "v1" /\ p.queue = "v1" /\ p.flaw = "none"
      /\ p.mode = s.mode /\ p.work = s.work /\ s.mode # "automatic"
  BY DEF Serialize, Payload, State, PreferredMode, Version, Work
<1>2. Deserialize(p) = s BY <1>1 DEF Deserialize, State
<1> HIDE DEF p
<1>3. Refusal(p) = "none" BY <1>1 DEF Refusal
<1>4. Readable(p) BY <1>3 DEF Readable
<1> QED BY <1>1, <1>2, <1>4 DEF Canonical, p

LEMMA DeserializeType ==
    ASSUME NEW p \in Payload PROVE Deserialize(p) \in State
BY DEF Payload, Deserialize, State, PreferredMode, Work

\* The recovery leaves no active work and changes nothing the second time.
LEMMA RecoveredQuarantines ==
    ASSUME NEW s \in State
    PROVE  /\ Recovered(s) \in State /\ Recovered(s).work \notin ActiveWork
           /\ Recovered(Recovered(s)) = Recovered(s)
           /\ Recovered(s) = s => s.work \notin ActiveWork
<1> DEFINE w == CASE s.work = "active" -> "uncertain"
                  [] s.work = "resumed" -> "stranded"
                  [] OTHER -> s.work
<1>1. w \in Work /\ w \notin ActiveWork BY DEF State, Work, ActiveWork
<1>2. Recovered(s) = [s EXCEPT !.work = w] BY DEF Recovered
<1> HIDE DEF w
<1>3. Recovered(s) \in State /\ Recovered(s).work = w BY <1>1, <1>2 DEF State
<1> DEFINE r == Recovered(s)
<1>4. r \in State /\ r.work \notin {"active", "resumed"} BY <1>1, <1>3 DEF ActiveWork
<1> HIDE DEF r
<1>5. Recovered(r) = r BY <1>4 DEF Recovered, State
<1> QED BY <1>1, <1>3, <1>5 DEF r

-----------------------------------------------------------------------------
(* Types.                                                                  *)

LEMMA IssuesTyped ==
    ASSUME NEW w \in World
    PROVE  /\ VacuumError(w) \subseteq TopologyIssue
           /\ \A areas, mop, sel : TopologyIssues(w, areas, mop, sel) \subseteq TopologyIssue
           /\ FoundSelector(w) \in Selector \cup {NoSelector}
<1>1. w.vacuum \in Vacuum /\ w.selector \in Selector \cup {NoSelector} BY DEF World
<1>2. VacuumError(w) \subseteq TopologyIssue BY <1>1 DEF VacuumError, TopologyIssue, Vacuum
<1> QED BY <1>1, <1>2 DEF TopologyIssues, MappingError, TopologyIssue, FoundSelector

LEMMA HeardTyped ==
    ASSUME NEW w \in World, NEW v \in World
    PROVE  Heard(w, v) \subseteq Notice /\ SetupIssues(v) \subseteq TopologyIssue
<1>1. StateHeard(v) \subseteq Notice /\ SelectorHeard(v) \subseteq Notice
  BY IssuesTyped DEF StateHeard, SelectorHeard, Notice, TopologyIssue
<1>2. SetupIssues(v) \subseteq TopologyIssue BY IssuesTyped DEF SetupIssues, TopologyIssue
<1> QED BY <1>1, <1>2 DEF Heard, Notice

LEMMA ConditionsTyped ==
    ASSUME TypeOK, NEW x \in unheard
    PROVE  Conditions(x) \subseteq TopologyIssue
<1>1. world \in World /\ x \in Notice BY DEF TypeOK
<1>2. Revalidated(world) \subseteq TopologyIssue BY <1>1, IssuesTyped DEF Revalidated
<1>3. RegistryHeard(world) \subseteq TopologyIssue BY <1>2 DEF RegistryHeard, TopologyIssue
<1> QED BY <1>1, <1>2, <1>3 DEF Conditions, Notice, TopologyIssue

\* The parts of the type invariant.
LEMMA InitialTyped ==
    /\ InitialState \in State
    /\ Free \in Command
    /\ \A name \in Name : NoRuntime(name) \in Runtime
BY FlagsAssumption DEF InitialState, State, PreferredMode, Work, Free, Command, NoRuntime, Runtime

LEMMA ReconciledTyped ==
    ASSUME NEW was \in SUBSET Issue, NEW s
    PROVE  Reconciled(was, s) \in SUBSET Issue
BY DEF Reconciled, Issue

LEMMA WorldTyped == ASSUME NEW v \in Worlds PROVE v \in World
BY WorldsAssumption

\* A setup that finishes publishes a well typed runtime.
LEMMA FinishTyped ==
    ASSUME TypeOK, NEW s \in State, Finish(s)
    PROVE  /\ issues' \in SUBSET Issue /\ rt' \in Runtime /\ state' \in State
           /\ phase' \in Phase /\ edited' \in BOOLEAN /\ seen' \in SUBSET TopologyIssue
<1>1. /\ RequiresMop(s) \in BOOLEAN
      /\ NewSelector(s) \in Selector \cup {NoSelector}
      /\ SetupConditions(s) \in SUBSET Issue
  BY FlagsAssumption, IssuesTyped
     DEF TypeOK, RequiresMop, NewSelector, SetupConditions, Issue, TopologyIssue
<1>2. rt.name \in Name /\ planning \in BOOLEAN BY DEF TypeOK, Runtime
<1>3. rt' \in Runtime
  BY <1>1, <1>2 DEF Finish, Runtime
<1> QED BY <1>1, <1>3, ReconciledTyped DEF Finish, Phase, TopologyIssue

LEMMA AfterRewriteTyped ==
    ASSUME TypeOK, NEW s \in State, AfterRewrite(s)
    PROVE  /\ issues' \in SUBSET Issue /\ rt' \in Runtime /\ state' \in State
           /\ phase' \in Phase /\ edited' \in BOOLEAN /\ seen' \in SUBSET TopologyIssue
<1>1. CASE Recovered(s) = s BY <1>1, FinishTyped DEF AfterRewrite
<1>2. CASE Recovered(s) # s
  BY <1>2, RecoveredQuarantines DEF AfterRewrite, TypeOK, Phase
<1> QED BY <1>1, <1>2

LEMMA FailClosedTyped ==
    ASSUME TypeOK, NEW conds \in SUBSET TopologyIssue, FailClosed(conds)
    PROVE  rt' \in Runtime /\ issues' \in SUBSET Issue /\ latch' \in BOOLEAN
           /\ unheard' \in SUBSET Notice
BY ReconciledTyped DEF FailClosed, TypeOK, Runtime, Issue

LEMMA HoldTyped ==
    ASSUME TypeOK, NEW by \in {"command", "quarantine", "observer"}, NEW work \in Work,
           Hold(by, work)
    PROVE  held' \in Command
BY DEF Hold, TypeOK, Command, State

LEMMA ToggleTyped ==
    ASSUME TypeOK, NEW t \in Toggle, ToggleOutcome(t)
    PROVE  planning' \in BOOLEAN /\ rt' \in Runtime /\ issues' \in SUBSET Issue
BY ReconciledTyped DEF ToggleOutcome, Commits, RollsBack, RollbackFails, TypeOK, Toggle, Runtime

LEMMA SupersededTyped ==
    ASSUME TypeOK
    PROVE  /\ Superseded \in Seq(Toggle) /\ Len(Superseded) = Len(waiting)
           /\ \A i \in 1 .. Len(waiting) : Superseded[i] \in Toggle /\ ~Superseded[i].cur
<1> DEFINE dead == [want |-> FALSE, prev |-> FALSE, cur |-> FALSE]
<1>1. waiting \in Seq(Toggle) BY DEF TypeOK
<1>2. /\ DOMAIN waiting = 1 .. Len(waiting) /\ Len(waiting) \in Nat
      /\ \A i \in 1 .. Len(waiting) : waiting[i] \in Toggle
  BY <1>1
<1>3. dead \in Toggle /\ ~dead.cur BY DEF Toggle
<1> HIDE DEF dead
<1>4. Superseded = [i \in 1 .. Len(waiting) |-> dead]
  BY <1>2 DEF Superseded, dead
<1>5. Superseded \in [1 .. Len(waiting) -> Toggle] BY <1>3, <1>4
<1> QED BY <1>2, <1>3, <1>4, <1>5, SeqDef, LenProperties

LEMMA InvalidateTyped ==
    ASSUME TypeOK, Invalidate
    PROVE  phase' \in Phase /\ waiting' \in Seq(Toggle) /\ starting' \in Start
           /\ held' \in Command
BY SupersededTyped DEF Invalidate, TypeOK, Phase, Command, Start

LEMMA DetachTyped ==
    ASSUME TypeOK, Detach
    PROVE  TypeOK'
<1>1. InFlight \in SUBSET State
  BY RecoveredQuarantines DEF InFlight, TypeOK, Command
<1>2. NoRuntime(rt.name) \in Runtime BY InitialTyped DEF TypeOK, Runtime
<1>3. <<>> \in Seq(Toggle) OBVIOUS
<1> QED BY <1>1, <1>2, <1>3, InitialTyped DEF Detach, TypeOK, Phase, Start

\* Every action keeps the types.
LEMMA NextTyped ==
    ASSUME TypeOK, [Next]_vars
    PROVE  TypeOK'
<1> USE DEF setupVars, lockVars
<1>1. CASE SetupBegins
  <2>1. SetupIssues(world) \subseteq TopologyIssue BY HeardTyped DEF TypeOK
  <2>2. world.name \in Name BY DEF TypeOK, World
  <2>3. rt' \in Runtime BY <1>1, <2>2 DEF SetupBegins, TypeOK, Runtime
  <2> QED BY <1>1, <2>1, <2>3 DEF SetupBegins, TypeOK, Phase
<1>2. CASE LoadReads
  <2>1. CASE file = NoFile
    BY <1>2, <2>1, InitialTyped DEF LoadReads, TypeOK, Phase
  <2>2. CASE file # NoFile
    <3>1. Deserialize(file) \in State BY <2>2, DeserializeType DEF TypeOK
    <3>2. /\ issues' \in SUBSET Issue /\ rt' \in Runtime /\ state' \in State
          /\ phase' \in Phase /\ edited' \in BOOLEAN /\ seen' \in SUBSET TopologyIssue
      BY <1>2, <2>2, <3>1, AfterRewriteTyped DEF LoadReads, TypeOK, Phase
    <3> QED BY <1>2, <3>2 DEF LoadReads, TypeOK
  <2> QED BY <2>1, <2>2
<1>3. CASE LoadUnreadable
  BY <1>3 DEF LoadUnreadable, TypeOK, Phase, StoreIssue, Issue
<1>4. CASE SetupIOFails
  BY <1>4, InitialTyped DEF SetupIOFails, TypeOK, Phase
<1>5. CASE SetupSaved
  <2>1. /\ issues' \in SUBSET Issue /\ rt' \in Runtime /\ state' \in State
        /\ phase' \in Phase /\ edited' \in BOOLEAN /\ seen' \in SUBSET TopologyIssue
    BY <1>5, AfterRewriteTyped, FinishTyped DEF SetupSaved, TypeOK
  <2>2. file' \in Payload BY <1>5, CodecRoundTrip DEF SetupSaved, TypeOK
  <2> QED BY <1>5, <2>1, <2>2 DEF SetupSaved, TypeOK
<1>6. CASE ForwardDone BY <1>6 DEF ForwardDone, TypeOK, Phase
<1>7. CASE ForwardFails BY <1>7, DetachTyped DEF ForwardFails
<1>8. ASSUME NEW v \in Worlds, WorldChanges(v) PROVE TypeOK'
  <2>1. v \in World BY WorldTyped
  <2>2. Heard(world, v) \in SUBSET Notice BY <2>1, HeardTyped DEF TypeOK
  <2> QED BY <1>8, <2>1, <2>2 DEF WorldChanges, TypeOK
<1>33. ASSUME NEW x \in unheard, ListenerRuns(x) PROVE TypeOK'
  <2>1. Conditions(x) \in SUBSET TopologyIssue BY ConditionsTyped
  <2>2. rt' \in Runtime /\ issues' \in SUBSET Issue /\ latch' \in BOOLEAN
        /\ unheard' \in SUBSET Notice
    BY <1>33, <2>1, FailClosedTyped DEF ListenerRuns, TypeOK
  <2> QED BY <1>33, <2>2 DEF ListenerRuns, TypeOK
<1>9. CASE DispatchMeetsMissingVacuum
  <2>1. {"missing_registry"} \in SUBSET TopologyIssue BY DEF TopologyIssue
  <2>2. rt' \in Runtime /\ issues' \in SUBSET Issue /\ latch' \in BOOLEAN
        /\ unheard' \in SUBSET Notice
    BY <1>9, <2>1, FailClosedTyped DEF DispatchMeetsMissingVacuum
  <2> QED BY <1>9, <2>2 DEF DispatchMeetsMissingVacuum, TypeOK, Start
<1>10. CASE CommandMeetsLostSelector
  <2>1. issues' \in SUBSET Issue
    BY <1>10, ReconciledTyped DEF CommandMeetsLostSelector, TypeOK, Issue, TopologyIssue
  <2>2. rt' \in Runtime BY <1>10 DEF CommandMeetsLostSelector, TypeOK, Runtime
  <2> QED BY <1>10, <2>1, <2>2 DEF CommandMeetsLostSelector, TypeOK, Start
<1>11. ASSUME NEW by \in {"command", "quarantine", "observer"}, NEW work \in Work,
              Hold(by, work), starting' \in Start
       PROVE  TypeOK'
  BY <1>11, HoldTyped DEF Hold, TypeOK
<1>12. CASE StartSeals BY <1>12, <1>11 DEF StartSeals, Work, TypeOK
<1>13. CASE StartFindsSealed \/ DispatchChecked
  BY <1>13 DEF StartFindsSealed, DispatchChecked, TypeOK, Start
<1>14. CASE Claim BY <1>14, <1>11 DEF Claim, Work, Start
<1>15. CASE ClaimGivesUp BY <1>15 DEF ClaimGivesUp, TypeOK, Start
<1>16. CASE CancelBlock BY <1>16, <1>11 DEF CancelBlock, Work, TypeOK
<1>17. ASSUME NEW work \in {"idle", "resumed"}, ResolveUncertainRun(work) PROVE TypeOK'
  BY <1>17, <1>11 DEF ResolveUncertainRun, Work, TypeOK
<1>18. CASE QuarantineDispatch BY <1>18, <1>11 DEF QuarantineDispatch, Work, TypeOK
<1>19. ASSUME NEW work \in {"idle", "uncertain"}, ObservationApplies(work) PROVE TypeOK'
  BY <1>19, <1>11 DEF ObservationApplies, Work, TypeOK
<1>20. CASE LatchQuarantines
  <2>1. [state EXCEPT !.work = "uncertain"] \in State BY DEF TypeOK, State, Work
  <2>2. [by |-> "observer", next |-> [state EXCEPT !.work = "uncertain"], cur |-> TRUE]
          \in Command
    BY <2>1 DEF Command
  <2>3. held' \in Command BY <1>20, <2>2, InitialTyped DEF LatchQuarantines
  <2> QED BY <1>20, <2>3 DEF LatchQuarantines, TypeOK
<1>21. CASE SaveReturns
  <2>1. held.next \in State BY DEF TypeOK, Command
  <2>2. file' \in Payload BY <1>21, <2>1, CodecRoundTrip DEF SaveReturns
  <2>3. state' \in State /\ issues' \in SUBSET Issue /\ starting' \in Start
    BY <1>21, <2>1, ReconciledTyped, FlagsAssumption DEF SaveReturns, TypeOK, Start
  <2> QED BY <1>21, <2>2, <2>3, InitialTyped DEF SaveReturns, TypeOK
<1>22. CASE SaveFails BY <1>22, InitialTyped DEF SaveFails, TypeOK
<1>23. ASSUME NEW want \in BOOLEAN, ToggleArrives(want) PROVE TypeOK'
  <2> DEFINE t == [want |-> want, prev |-> planning, cur |-> TRUE]
  <2>1. t \in Toggle BY DEF Toggle, TypeOK
  <2>2. waiting' \in Seq(Toggle)
    BY <1>23, <2>1, AppendProperties DEF ToggleArrives, TypeOK
  <2>3. planning' \in BOOLEAN /\ rt' \in Runtime /\ issues' \in SUBSET Issue
    BY <1>23, <2>1, ToggleTyped DEF ToggleArrives, TypeOK
  <2> QED BY <1>23, <2>2, <2>3 DEF ToggleArrives, TypeOK
<1>24. CASE ToggleRuns
  <2>1. waiting \in Seq(Toggle) /\ waiting # <<>> BY <1>24 DEF ToggleRuns, TypeOK
  <2>2. Head(waiting) \in Toggle /\ Tail(waiting) \in Seq(Toggle)
    BY <2>1, HeadTailProperties
  <2>3. planning' \in BOOLEAN /\ rt' \in Runtime /\ issues' \in SUBSET Issue
    BY <1>24, <2>2, ToggleTyped DEF ToggleRuns, TypeOK
  <2> QED BY <1>24, <2>2, <2>3 DEF ToggleRuns, TypeOK
<1>25. ASSUME NEW enabled \in BOOLEAN, OptionsEdited(enabled) PROVE TypeOK'
  <2>1. phase' \in Phase /\ waiting' \in Seq(Toggle) /\ starting' \in Start
        /\ held' \in Command
    BY <1>25, InvalidateTyped DEF OptionsEdited, TypeOK
  <2> QED BY <1>25, <2>1 DEF OptionsEdited, TypeOK, Runs
<1>26. CASE UnloadBegins BY <1>26, InvalidateTyped DEF UnloadBegins, TypeOK
<1>27. CASE UnloadRefused BY <1>27 DEF UnloadRefused, TypeOK, Phase
<1>28. CASE UnloadDone BY <1>28, DetachTyped DEF UnloadDone
<1>29. ASSUME NEW s \in owed, OwedLands(s) PROVE TypeOK'
  <2>1. Serialize(s) \in Payload BY CodecRoundTrip DEF TypeOK
  <2> QED BY <1>29, <2>1 DEF OwedLands, TypeOK
<1>30. CASE Remove BY <1>30 DEF Remove, TypeOK, Phase
<1>31. CASE Crash
  <2>1. \A s \in State : Serialize(s) \in Payload BY CodecRoundTrip
  <2>2. file' \in Payload \cup {NoFile} BY <1>31, <2>1 DEF Crash, TypeOK, Command
  <2>3. NoRuntime(rt.name) \in Runtime BY InitialTyped DEF TypeOK, Runtime
  <2>4. <<>> \in Seq(Toggle) OBVIOUS
  <2> QED BY <1>31, <2>2, <2>3, <2>4, InitialTyped DEF Crash, TypeOK, Phase, Start
<1>32. CASE UNCHANGED vars BY <1>32 DEF vars, TypeOK
<1> QED
  BY <1>1, <1>2, <1>3, <1>4, <1>5, <1>6, <1>7, <1>8, <1>9, <1>10, <1>12, <1>13, <1>14,
     <1>15, <1>16, <1>17, <1>18, <1>19, <1>20, <1>21, <1>22, <1>23, <1>24, <1>25, <1>26,
     <1>27, <1>28, <1>29, <1>30, <1>31, <1>32, <1>33 DEF Next

-----------------------------------------------------------------------------
(* The Repairs issues.                                                     *)

StoreIssues == {"corrupt_store", "future_store"}
\* What RepairsMatchRuntime says of a runtime whose topology is usable or not,
\* whose ledger is quarantined or not, and whose open issues are i.
Repairs(usable, quarantined, i) ==
    /\ usable <=> (i \cap TopologyIssue = {})
    /\ quarantined <=> ("unresolved_external_run" \in i)
    /\ i \cap StoreIssues = {}
    /\ (~usable \/ quarantined) <=> (i # {})

LEMMA RepairsMatchIsRepairs ==
    RepairsMatchRuntime <=> (Runs => Repairs(rt.topo, Uncertain(state), issues))
BY DEF RepairsMatchRuntime, Repairs, StoreIssues, AttentionRequired

\* A reconciliation repairs the issue of the unresolved run, whatever it was.
LEMMA ReconciledRepairs ==
    ASSUME NEW was \in SUBSET Issue, was \cap StoreIssues = {}, NEW s,
           NEW usable \in BOOLEAN, usable <=> (was \cap TopologyIssue = {})
    PROVE  Repairs(usable, Uncertain(s), Reconciled(was, s))
<1> DEFINE i == Reconciled(was, s)
<1>1. i \cap TopologyIssue = was \cap TopologyIssue BY DEF Reconciled, TopologyIssue
<1>2. Uncertain(s) <=> ("unresolved_external_run" \in i) BY DEF Reconciled
<1>3. i \cap StoreIssues = {} BY DEF Reconciled, StoreIssues
<1>4. i \subseteq TopologyIssue \cup {"unresolved_external_run"}
  BY DEF Reconciled, Issue, StoreIssues
<1> HIDE DEF i
<1>5. i # {} <=> (i \cap TopologyIssue # {} \/ "unresolved_external_run" \in i)
  BY <1>4
<1> QED BY <1>1, <1>2, <1>3, <1>5 DEF Repairs, i

\* A latch that reports what it heard keeps them in step.
LEMMA LatchRepairs ==
    ASSUME NEW was \in SUBSET Issue, was \cap StoreIssues = {}, NEW s,
           NEW conds \in SUBSET TopologyIssue, conds # {}
    PROVE  Repairs(FALSE, Uncertain(s), Reconciled(was, s) \cup conds)
<1> DEFINE i == Reconciled(was, s) \cup conds
<1>1. i \cap TopologyIssue # {} /\ i # {} BY DEF TopologyIssue
<1>2. Uncertain(s) <=> ("unresolved_external_run" \in i) BY DEF Reconciled, TopologyIssue
<1>3. i \cap StoreIssues = {} BY DEF Reconciled, StoreIssues, TopologyIssue
<1> QED BY <1>1, <1>2, <1>3 DEF Repairs

LEMMA FinishRepairs ==
    ASSUME TypeOK, NEW s \in State, Finish(s)
    PROVE  RepairsMatchRuntime'
<1>1. SetupConditions(s) \in SUBSET Issue /\ SetupConditions(s) \cap StoreIssues = {}
  BY DEF TypeOK, SetupConditions, Issue, TopologyIssue, StoreIssues
<1>2. /\ issues' = Reconciled(SetupConditions(s), s) /\ state' = s
      /\ rt'.topo = (SetupConditions(s) \cap TopologyIssue = {})
  BY DEF Finish
<1>3. rt'.topo \in BOOLEAN /\ (rt'.topo <=> (SetupConditions(s) \cap TopologyIssue = {}))
  BY <1>2
<1>4. Repairs(rt'.topo, Uncertain(s), issues')
  BY <1>1, <1>2, <1>3, ReconciledRepairs
<1> QED BY <1>2, <1>4 DEF RepairsMatchRuntime, Repairs, StoreIssues, AttentionRequired, Uncertain

LEMMA AfterRewriteRepairs ==
    ASSUME TypeOK, NEW s \in State, AfterRewrite(s), RepairsMatchRuntime
    PROVE  RepairsMatchRuntime'
<1>1. CASE Recovered(s) = s BY <1>1, FinishRepairs DEF AfterRewrite
<1>2. CASE Recovered(s) # s BY <1>2 DEF AfterRewrite, RepairsMatchRuntime, Runs
<1> QED BY <1>1, <1>2

\* The issues follow a runtime that publishes t.
LEMMA PublicationRepairs ==
    ASSUME TypeOK, RepairsMatchRuntime, Runs, NEW t,
           issues' = Reconciled(issues, t), state' = t, rt'.topo = rt.topo
    PROVE  RepairsMatchRuntime'
<1>1. rt.topo \in BOOLEAN /\ issues \in SUBSET Issue BY DEF TypeOK, Runtime
<1>2. Repairs(rt.topo, Uncertain(t), Reconciled(issues, t))
  BY <1>1, ReconciledRepairs, RepairsMatchIsRepairs DEF Repairs
<1> QED BY <1>2 DEF RepairsMatchRuntime, Repairs, StoreIssues, AttentionRequired, Uncertain

LEMMA FailClosedRepairs ==
    ASSUME TypeOK, RepairsMatchRuntime, Runs,
           NEW conds \in SUBSET TopologyIssue, conds # {},
           rt' = [rt EXCEPT !.topo = FALSE], state' = state,
           issues' = Reconciled(issues, state) \cup conds
    PROVE  RepairsMatchRuntime'
<1>1. issues \in SUBSET Issue /\ issues \cap StoreIssues = {} /\ rt'.topo = FALSE
  BY RepairsMatchIsRepairs DEF TypeOK, Repairs, Runtime
<1>2. Repairs(FALSE, Uncertain(state), issues') BY <1>1, LatchRepairs
<1> QED BY <1>1, <1>2 DEF RepairsMatchRuntime, Repairs, StoreIssues, AttentionRequired, Uncertain

LEMMA ToggleRepairs ==
    ASSUME TypeOK, RepairsMatchRuntime, Runs, NEW t, ToggleOutcome(t), state' = state
    PROVE  RepairsMatchRuntime'
<1>1. rt'.topo = rt.topo /\ issues' \in {issues, Reconciled(issues, state)}
  BY DEF ToggleOutcome, Commits, RollsBack, RollbackFails, TypeOK, Runtime
<1>2. CASE issues' = Reconciled(issues, state) BY <1>1, <1>2, PublicationRepairs
<1>3. CASE issues' = issues
  BY <1>1, <1>3 DEF RepairsMatchRuntime, AttentionRequired, Uncertain, Runs
<1> QED BY <1>1, <1>2, <1>3

LEMMA NextRepairs ==
    ASSUME TypeOK, IdleOutside, RepairsMatchRuntime, [Next]_vars
    PROVE  RepairsMatchRuntime'
<1> USE DEF setupVars, lockVars
<1>1. ASSUME UNCHANGED <<issues, state, rt>>, Runs' => Runs PROVE RepairsMatchRuntime'
  BY <1>1 DEF RepairsMatchRuntime, AttentionRequired, Uncertain
<1>2. ASSUME ~Runs' PROVE RepairsMatchRuntime' BY <1>2 DEF RepairsMatchRuntime
<1>3. CASE SetupBegins \/ LoadUnreadable \/ SetupIOFails \/ Remove \/ Crash
  BY <1>3, <1>2 DEF SetupBegins, LoadUnreadable, SetupIOFails, Remove, Crash, Runs
<1>4. CASE ForwardFails \/ UnloadDone
  BY <1>4, <1>2 DEF ForwardFails, UnloadDone, Detach, Runs
<1>5. CASE LoadReads
  <2>1. file \in Payload \/ file = NoFile BY DEF TypeOK
  <2>2. CASE file = NoFile BY <1>5, <1>2, <2>2 DEF LoadReads, Runs
  <2>3. CASE file # NoFile
    <3>1. Deserialize(file) \in State BY <2>1, <2>3, DeserializeType
    <3>2. CASE Canonical(file) BY <1>5, <2>3, <3>1, <3>2, AfterRewriteRepairs DEF LoadReads
    <3>3. CASE ~Canonical(file) BY <1>5, <1>2, <2>3, <3>3 DEF LoadReads, Runs
    <3> QED BY <3>2, <3>3
  <2> QED BY <2>2, <2>3
<1>6. CASE SetupSaved
  <2>1. state \in State BY DEF TypeOK
  <2> QED BY <1>6, <2>1, AfterRewriteRepairs, FinishRepairs DEF SetupSaved
<1>7. ASSUME NEW v \in Worlds, WorldChanges(v) PROVE RepairsMatchRuntime'
  BY <1>7, <1>1 DEF WorldChanges, Runs
<1>19. ASSUME NEW x \in unheard, ListenerRuns(x) PROVE RepairsMatchRuntime'
  <2>1. Conditions(x) \in SUBSET TopologyIssue BY ConditionsTyped
  <2>2. Runs BY DEF IdleOutside
  <2>3. CASE Conditions(x) # {}
    BY <1>19, <2>1, <2>2, <2>3, FailClosedRepairs DEF ListenerRuns, FailClosed
  <2>4. CASE Conditions(x) = {} BY <1>19, <1>1, <2>4 DEF ListenerRuns, Runs
  <2> QED BY <2>3, <2>4
<1>8. CASE DispatchMeetsMissingVacuum
  <2>1. {"missing_registry"} \in SUBSET TopologyIssue BY DEF TopologyIssue
  <2> QED BY <1>8, <2>1, FailClosedRepairs
          DEF DispatchMeetsMissingVacuum, FailClosed, Active, Runs
<1>9. CASE CommandMeetsLostSelector
  <2>1. {"lost_capability"} \in SUBSET TopologyIssue BY DEF TopologyIssue
  <2> QED BY <1>9, <2>1, FailClosedRepairs DEF CommandMeetsLostSelector, Active, Runs
<1>10. CASE ForwardDone \/ UnloadRefused \/ UnloadBegins
  BY <1>10, <1>1 DEF ForwardDone, UnloadRefused, UnloadBegins, Invalidate, Runs
<1>11. CASE StartSeals \/ StartFindsSealed \/ DispatchChecked \/ Claim \/ ClaimGivesUp
            \/ CancelBlock \/ QuarantineDispatch \/ LatchQuarantines \/ SaveFails
  BY <1>11, <1>1 DEF StartSeals, StartFindsSealed, DispatchChecked, Claim, ClaimGivesUp,
     CancelBlock, QuarantineDispatch, LatchQuarantines, SaveFails, Hold, Runs
<1>12. ASSUME NEW work, ResolveUncertainRun(work) \/ ObservationApplies(work)
       PROVE  RepairsMatchRuntime'
  BY <1>12, <1>1 DEF ResolveUncertainRun, ObservationApplies, Hold, Runs
<1>13. CASE SaveReturns
  <2>1. CASE Publishes /\ Runs
    BY <1>13, <2>1, PublicationRepairs DEF SaveReturns
  <2>2. CASE ~Publishes \/ ~Runs
    BY <1>13, <2>2, <1>1, <1>2 DEF SaveReturns, Runs
  <2> QED BY <2>1, <2>2
<1>14. ASSUME NEW want \in BOOLEAN, ToggleArrives(want) PROVE RepairsMatchRuntime'
  BY <1>14, <1>1, ToggleRepairs DEF ToggleArrives, Active, Runs
<1>15. CASE ToggleRuns
  <2>1. CASE Active
    BY <1>15, <2>1, <1>1, ToggleRepairs DEF ToggleRuns, Active, Runs
  <2>2. CASE ~Active BY <1>15, <2>2, <1>1 DEF ToggleRuns, Runs
  <2> QED BY <2>1, <2>2
<1>16. ASSUME NEW enabled \in BOOLEAN, OptionsEdited(enabled) PROVE RepairsMatchRuntime'
  BY <1>16, <1>1 DEF OptionsEdited, Invalidate, Runs
<1>17. ASSUME NEW s \in owed, OwedLands(s) PROVE RepairsMatchRuntime'
  BY <1>17, <1>1 DEF OwedLands, Runs
<1>18. CASE UNCHANGED vars BY <1>18, <1>1 DEF vars, Runs
<1> QED
  BY <1>3, <1>4, <1>5, <1>6, <1>7, <1>8, <1>9, <1>10, <1>11, <1>12, <1>13, <1>14, <1>15,
     <1>16, <1>17, <1>18, <1>19 DEF Next

-----------------------------------------------------------------------------
(* The lock outside a runtime.                                             *)

LEMMA LockFreeIsFree == Free.by = "nobody"
BY DEF Free

LEMMA DetachIdles == ASSUME Detach PROVE IdleOutside'
BY LockFreeIsFree DEF Detach, IdleOutside, LockFree

LEMMA AfterRewriteIdles ==
    ASSUME NEW s, AfterRewrite(s) \/ Finish(s)
    PROVE  phase' \in {"forwarding", "saving"}
BY DEF AfterRewrite, Finish

LEMMA NextIdles ==
    ASSUME TypeOK, IdleOutside, [Next]_vars
    PROVE  IdleOutside'
<1> USE DEF setupVars, lockVars
<1>1. ASSUME UNCHANGED <<held, starting, waiting, latch, unheard>>, Runs => Runs'
      PROVE  IdleOutside'
  BY <1>1 DEF IdleOutside, LockFree
<1>2. ASSUME Runs' PROVE IdleOutside' BY <1>2 DEF IdleOutside
<1>3. CASE SetupBegins \/ LoadUnreadable \/ SetupIOFails \/ Remove
  BY <1>3, <1>1 DEF SetupBegins, LoadUnreadable, SetupIOFails, Remove, Runs
<1>4. CASE LoadReads
  BY <1>4, <1>1, AfterRewriteIdles DEF LoadReads, Runs
<1>5. CASE SetupSaved
  BY <1>5, <1>1, AfterRewriteIdles DEF SetupSaved, Runs
<1>6. CASE Crash BY <1>6, LockFreeIsFree DEF Crash, IdleOutside, LockFree
<1>7. CASE ForwardFails \/ UnloadDone BY <1>7, DetachIdles DEF ForwardFails, UnloadDone
<1>8. ASSUME NEW v \in Worlds, WorldChanges(v) PROVE IdleOutside'
  BY <1>8, <1>1, <1>2 DEF WorldChanges, Runs
<1>19. ASSUME NEW x \in unheard, ListenerRuns(x) PROVE IdleOutside'
  BY <1>19, <1>2 DEF ListenerRuns, IdleOutside, Runs
<1>9. CASE DispatchMeetsMissingVacuum \/ CommandMeetsLostSelector \/ ForwardDone
           \/ UnloadRefused \/ UnloadBegins
  BY <1>9, <1>2 DEF DispatchMeetsMissingVacuum, CommandMeetsLostSelector, ForwardDone,
     UnloadRefused, UnloadBegins, Invalidate, Active, Runs
<1>10. CASE StartSeals \/ StartFindsSealed \/ DispatchChecked \/ Claim \/ CancelBlock
            \/ QuarantineDispatch \/ LatchQuarantines
  BY <1>10, <1>2 DEF StartSeals, StartFindsSealed, DispatchChecked, Claim, CancelBlock,
     QuarantineDispatch, LatchQuarantines, MayCommand, Hold, Active, Runs
<1>11. CASE ClaimGivesUp
  BY <1>11 DEF ClaimGivesUp, IdleOutside, Runs, LockFree
<1>12. ASSUME NEW work, ResolveUncertainRun(work) \/ ObservationApplies(work)
       PROVE  IdleOutside'
  BY <1>12, <1>2 DEF ResolveUncertainRun, ObservationApplies, MayCommand, Hold, Active, Runs
<1>13. CASE SaveReturns \/ SaveFails
  <2>1. Runs BY <1>13 DEF SaveReturns, SaveFails, IdleOutside
  <2> QED BY <1>13, <2>1, <1>2 DEF SaveReturns, SaveFails, Runs
<1>14. ASSUME NEW want \in BOOLEAN, ToggleArrives(want) PROVE IdleOutside'
  BY <1>14, <1>2 DEF ToggleArrives, Active, Runs
<1>15. CASE ToggleRuns
  <2>1. Runs BY <1>15 DEF ToggleRuns, IdleOutside
  <2> QED BY <1>15, <2>1, <1>2 DEF ToggleRuns, Runs
<1>16. ASSUME NEW enabled \in BOOLEAN, OptionsEdited(enabled) PROVE IdleOutside'
  BY <1>16, <1>1, <1>2 DEF OptionsEdited, Invalidate, Runs
<1>17. ASSUME NEW s \in owed, OwedLands(s) PROVE IdleOutside'
  BY <1>17, <1>1 DEF OwedLands, Runs
<1>18. CASE UNCHANGED vars BY <1>18, <1>1 DEF vars, Runs
<1> QED
  BY <1>3, <1>4, <1>5, <1>6, <1>7, <1>8, <1>9, <1>10, <1>11, <1>12, <1>13, <1>14, <1>15,
     <1>16, <1>17, <1>18, <1>19 DEF Next

-----------------------------------------------------------------------------
(* The recovery.                                                           *)

LEMMA InitialIsRecovered == Recovered(InitialState) = InitialState
<1>1. InitialState \in State /\ InitialState.work \notin {"active", "resumed"}
  BY InitialTyped DEF InitialState
<1> QED BY <1>1 DEF Recovered, State

LEMMA NextRecovers ==
    ASSUME TypeOK, IdleOutside, RecoveredBeforeUse, [Next]_vars
    PROVE  RecoveredBeforeUse'
<1> USE DEF setupVars, lockVars
<1>1. ASSUME UNCHANGED state, phase' = "saving" => phase = "saving"
      PROVE  RecoveredBeforeUse'
  BY <1>1 DEF RecoveredBeforeUse, Recovered
<1>2. ASSUME phase' # "saving" PROVE RecoveredBeforeUse' BY <1>2 DEF RecoveredBeforeUse
<1>3. ASSUME NEW s \in State, AfterRewrite(s) PROVE RecoveredBeforeUse'
  <2>1. Recovered(Recovered(s)) = Recovered(s) BY RecoveredQuarantines
  <2>2. CASE Recovered(s) = s BY <1>3, <1>2, <2>2 DEF AfterRewrite, Finish
  <2>3. CASE Recovered(s) # s
    BY <1>3, <2>1, <2>3 DEF AfterRewrite, RecoveredBeforeUse, Recovered
  <2> QED BY <2>2, <2>3
<1>4. CASE LoadReads
  <2>1. CASE file = NoFile
    BY <1>4, <2>1, InitialIsRecovered DEF LoadReads, RecoveredBeforeUse, Recovered
  <2>2. CASE file # NoFile
    <3>1. Deserialize(file) \in State BY <2>2, DeserializeType DEF TypeOK
    <3> QED BY <1>4, <1>2, <1>3, <2>2, <3>1 DEF LoadReads
  <2> QED BY <2>1, <2>2
<1>5. CASE SetupSaved
  BY <1>5, <1>2, <1>3 DEF SetupSaved, Finish, TypeOK
<1>6. CASE SetupBegins \/ LoadUnreadable \/ SetupIOFails \/ Remove \/ Crash \/ ForwardDone
           \/ ForwardFails \/ UnloadDone \/ UnloadBegins \/ UnloadRefused
  BY <1>6, <1>2 DEF SetupBegins, LoadUnreadable, SetupIOFails, Remove, Crash, ForwardDone,
     ForwardFails, UnloadDone, Detach, UnloadBegins, UnloadRefused, Invalidate
<1>7. ASSUME NEW v \in Worlds, WorldChanges(v) PROVE RecoveredBeforeUse'
  BY <1>7, <1>1 DEF WorldChanges
<1>15. ASSUME NEW x \in unheard, ListenerRuns(x) PROVE RecoveredBeforeUse'
  BY <1>15, <1>1 DEF ListenerRuns
<1>8. CASE DispatchMeetsMissingVacuum \/ CommandMeetsLostSelector \/ StartSeals
           \/ StartFindsSealed \/ DispatchChecked \/ Claim \/ ClaimGivesUp \/ CancelBlock
           \/ QuarantineDispatch \/ LatchQuarantines \/ SaveFails \/ ToggleRuns
  BY <1>8, <1>1 DEF DispatchMeetsMissingVacuum, CommandMeetsLostSelector, StartSeals,
     StartFindsSealed, DispatchChecked, Claim, ClaimGivesUp, CancelBlock, QuarantineDispatch,
     LatchQuarantines, SaveFails, ToggleRuns, Hold
<1>9. ASSUME NEW work, ResolveUncertainRun(work) \/ ObservationApplies(work)
      PROVE  RecoveredBeforeUse'
  BY <1>9, <1>1 DEF ResolveUncertainRun, ObservationApplies, Hold
<1>10. CASE SaveReturns
  BY <1>10, <1>2 DEF SaveReturns, IdleOutside, Runs
<1>11. ASSUME NEW want \in BOOLEAN, ToggleArrives(want) PROVE RecoveredBeforeUse'
  BY <1>11, <1>1 DEF ToggleArrives
<1>12. ASSUME NEW enabled \in BOOLEAN, OptionsEdited(enabled) PROVE RecoveredBeforeUse'
  BY <1>12, <1>1 DEF OptionsEdited, Invalidate
<1>13. ASSUME NEW s \in owed, OwedLands(s) PROVE RecoveredBeforeUse'
  BY <1>13, <1>1 DEF OwedLands
<1>14. CASE UNCHANGED vars BY <1>14, <1>1 DEF vars
<1> QED
  BY <1>4, <1>5, <1>6, <1>7, <1>8, <1>9, <1>10, <1>11, <1>12, <1>13, <1>14,
     <1>15 DEF Next

-----------------------------------------------------------------------------
(* The payload that the codec refuses.                                     *)

\* No step writes over a payload that the codec refuses, but for the removal.
FileKept == file' = file \/ (file' = NoFile /\ phase' = "removed")

\* A payload that the codec refuses is kept by a step that owes no write.
LEMMA KeptIsAlone ==
    ASSUME UnreadableIsAlone, FileKept,
           phase \in {"unloaded", "loading", "removed"} =>
               phase' \in {"unloaded", "loading", "removed"},
           owed' \subseteq owed
    PROVE  UnreadableIsAlone'
BY DEF UnreadableIsAlone, FileKept, Readable

LEMMA WrittenIsReadable ==
    ASSUME NEW s \in State, file' = Serialize(s)
    PROVE  UnreadableIsAlone'
BY CodecRoundTrip DEF UnreadableIsAlone, Readable

LEMMA NextKeepsUnreadable ==
    ASSUME TypeOK, IdleOutside, UnreadableIsAlone, [Next]_vars
    PROVE  /\ UnreadableIsAlone'
           /\ file # NoFile /\ ~Readable(file) => FileKept
<1> DEFINE Alone == file # NoFile /\ ~Readable(file)
           Outside == {"unloaded", "loading", "removed"}
           Goal == UnreadableIsAlone' /\ (Alone => FileKept)
<1> USE DEF setupVars, lockVars
<1>1. ASSUME UNCHANGED file, ~Alone PROVE Goal
  BY <1>1 DEF UnreadableIsAlone, Readable
<1>2. ASSUME FileKept, phase \in Outside => phase' \in Outside, owed' \subseteq owed
      PROVE  Goal
  BY <1>2, KeptIsAlone
<1>3. ASSUME NEW s \in State, file' = Serialize(s), ~Alone PROVE Goal
  BY <1>3, WrittenIsReadable
<1>4. Alone => phase \in Outside /\ owed = {} /\ LockFree /\ ~latch
  BY DEF UnreadableIsAlone, IdleOutside, Runs
<1>5. CASE SetupBegins \/ LoadUnreadable \/ SetupIOFails
  BY <1>5, <1>2 DEF SetupBegins, LoadUnreadable, SetupIOFails, FileKept
<1>6. CASE LoadReads BY <1>6, <1>1 DEF LoadReads
<1>7. CASE SetupSaved BY <1>7, <1>3, <1>4 DEF SetupSaved, TypeOK
<1>8. CASE Remove BY <1>8, <1>2 DEF Remove, FileKept
<1>9. CASE Crash
  <2>1. CASE file' = file /\ owed' = {} BY <1>9, <1>2, <2>1 DEF Crash, FileKept
  <2>2. CASE file' # file
    <3>1. \E s \in State : file' = Serialize(s) BY <1>9, <2>2 DEF Crash, TypeOK, Command
    <3>2. ~Alone BY <1>9, <1>4, <2>2 DEF Crash
    <3> QED BY <1>3, <3>1, <3>2
  <2> QED BY <1>9, <2>1, <2>2 DEF Crash
<1>10. CASE ForwardFails \/ UnloadDone
  BY <1>10, <1>1, <1>4 DEF ForwardFails, UnloadDone, Detach
<1>11. CASE ForwardDone \/ UnloadRefused \/ UnloadBegins
  BY <1>11, <1>1, <1>4 DEF ForwardDone, UnloadRefused, UnloadBegins, Invalidate
<1>12. ASSUME NEW v \in Worlds, WorldChanges(v) PROVE Goal
  BY <1>12, <1>2 DEF WorldChanges, FileKept
<1>20. ASSUME NEW x \in unheard, ListenerRuns(x) PROVE Goal
  BY <1>20, <1>2 DEF ListenerRuns, FileKept
<1>13. CASE DispatchMeetsMissingVacuum \/ CommandMeetsLostSelector \/ StartSeals
            \/ StartFindsSealed \/ DispatchChecked \/ Claim \/ ClaimGivesUp
            \/ CancelBlock \/ QuarantineDispatch \/ LatchQuarantines \/ SaveFails \/ ToggleRuns
  BY <1>13, <1>2 DEF DispatchMeetsMissingVacuum, CommandMeetsLostSelector, StartSeals,
     StartFindsSealed, DispatchChecked, Claim, ClaimGivesUp, CancelBlock, QuarantineDispatch,
     LatchQuarantines, SaveFails, ToggleRuns, Hold, FileKept
<1>14. ASSUME NEW work, ResolveUncertainRun(work) \/ ObservationApplies(work) PROVE Goal
  BY <1>14, <1>2 DEF ResolveUncertainRun, ObservationApplies, Hold, FileKept
<1>15. CASE SaveReturns BY <1>15, <1>3, <1>4 DEF SaveReturns, TypeOK, Command
<1>16. ASSUME NEW want \in BOOLEAN, ToggleArrives(want) PROVE Goal
  BY <1>16, <1>2 DEF ToggleArrives, FileKept
<1>17. ASSUME NEW enabled \in BOOLEAN, OptionsEdited(enabled) PROVE Goal
  BY <1>17, <1>2 DEF OptionsEdited, Invalidate, FileKept
<1>18. ASSUME NEW s \in owed, OwedLands(s) PROVE Goal
  BY <1>18, <1>3, <1>4 DEF OwedLands, TypeOK
<1>19. CASE UNCHANGED vars BY <1>19, <1>2 DEF vars, FileKept
<1> QED
  BY <1>5, <1>6, <1>7, <1>8, <1>9, <1>10, <1>11, <1>12, <1>13, <1>14, <1>15, <1>16,
     <1>17, <1>18, <1>19, <1>20 DEF Next

-----------------------------------------------------------------------------
(* The pause.                                                              *)

LEMMA NextKeepsSealPlanned ==
    ASSUME TypeOK, IdleOutside, SealIsPlanned, [Next]_vars
    PROVE  SealIsPlanned'
<1> USE DEF setupVars, lockVars
<1>1. ASSUME held' = Free PROVE SealIsPlanned'
  BY <1>1, LockFreeIsFree DEF SealIsPlanned, LockFree
<1>2. ASSUME UNCHANGED held, rt'.enabled = rt.enabled PROVE SealIsPlanned'
  BY <1>2 DEF SealIsPlanned, LockFree
<1>3. ASSUME UNCHANGED held, LockFree PROVE SealIsPlanned'
  BY <1>3 DEF SealIsPlanned, LockFree
<1>4. ASSUME UNCHANGED rt, NEW by, NEW work, Hold(by, work), work = "sealed" => rt.enabled
      PROVE  SealIsPlanned'
  BY <1>4 DEF Hold, SealIsPlanned, LockFree, TypeOK, State
<1>5. CASE SetupBegins \/ LoadReads \/ LoadUnreadable \/ SetupIOFails \/ SetupSaved \/ Remove
  <2>1. ~Runs BY <1>5 DEF SetupBegins, LoadReads, LoadUnreadable, SetupIOFails, SetupSaved,
                      Remove, Runs
  <2> QED BY <1>5, <1>3, <2>1 DEF SetupBegins, LoadReads, LoadUnreadable, SetupIOFails,
                               SetupSaved, Remove, IdleOutside
<1>6. CASE Crash \/ ForwardFails \/ UnloadDone \/ SaveReturns \/ SaveFails
  BY <1>6, <1>1 DEF Crash, ForwardFails, UnloadDone, Detach, SaveReturns, SaveFails
<1>7. CASE ForwardDone \/ UnloadRefused \/ StartFindsSealed \/ DispatchChecked \/ ClaimGivesUp
  BY <1>7, <1>2 DEF ForwardDone, UnloadRefused, StartFindsSealed, DispatchChecked, ClaimGivesUp
<1>8. ASSUME NEW v \in Worlds, WorldChanges(v) PROVE SealIsPlanned'
  BY <1>8, <1>2 DEF WorldChanges
<1>19. ASSUME NEW x \in unheard, ListenerRuns(x) PROVE SealIsPlanned'
  <2>1. rt'.enabled = rt.enabled BY <1>19 DEF ListenerRuns, FailClosed, TypeOK, Runtime
  <2> QED BY <1>19, <1>2, <2>1 DEF ListenerRuns
<1>9. CASE DispatchMeetsMissingVacuum \/ CommandMeetsLostSelector
  <2>1. rt'.enabled = rt.enabled
    BY <1>9 DEF DispatchMeetsMissingVacuum, CommandMeetsLostSelector, FailClosed, TypeOK,
                Runtime
  <2> QED BY <1>9, <1>2, <2>1 DEF DispatchMeetsMissingVacuum, CommandMeetsLostSelector
<1>10. CASE StartSeals \/ Claim \/ CancelBlock \/ QuarantineDispatch
  BY <1>10, <1>4 DEF StartSeals, Claim, CancelBlock, QuarantineDispatch, Hold
<1>11. ASSUME NEW work \in {"idle", "resumed"}, ResolveUncertainRun(work)
       PROVE  SealIsPlanned'
  BY <1>11, <1>4 DEF ResolveUncertainRun, Hold
<1>12. ASSUME NEW work \in {"idle", "uncertain"}, ObservationApplies(work)
       PROVE  SealIsPlanned'
  BY <1>12, <1>4 DEF ObservationApplies, Hold
<1>13. CASE LatchQuarantines
  BY <1>13, <1>1 DEF LatchQuarantines, SealIsPlanned, LockFree, TypeOK, State
<1>14. ASSUME NEW want \in BOOLEAN, ToggleArrives(want) PROVE SealIsPlanned'
  BY <1>14, <1>2, <1>3 DEF ToggleArrives, TakesLock
<1>15. CASE ToggleRuns BY <1>15, <1>3 DEF ToggleRuns
<1>16. CASE UnloadBegins \/ \E enabled \in BOOLEAN : OptionsEdited(enabled)
  <2>1. /\ rt' = rt
        /\ held' = held \/ held' = [held EXCEPT !.cur = FALSE]
    BY <1>16 DEF UnloadBegins, OptionsEdited, Invalidate
  <2>2. held'.by = held.by /\ held'.next = held.next BY <2>1 DEF TypeOK, Command
  <2> QED BY <2>1, <2>2 DEF SealIsPlanned, LockFree
<1>17. ASSUME NEW s \in owed, OwedLands(s) PROVE SealIsPlanned'
  BY <1>17, <1>2 DEF OwedLands
<1>18. CASE UNCHANGED vars BY <1>18, <1>2 DEF vars
<1> QED
  BY <1>5, <1>6, <1>7, <1>8, <1>9, <1>10, <1>11, <1>12, <1>13, <1>14, <1>15, <1>16,
     <1>17, <1>18, <1>19 DEF Next

-----------------------------------------------------------------------------
(* The invariant.                                                          *)

LEMMA InitEntryInv == Init => TypeOK /\ EntryInv
<1> SUFFICES ASSUME Init PROVE TypeOK /\ EntryInv OBVIOUS
<1>1. world \in World BY WorldTyped DEF Init
<1>2. world.name \in Name BY <1>1 DEF World
<1>3. <<>> \in Seq(Toggle) OBVIOUS
<1>4. TypeOK
  BY <1>1, <1>2, <1>3, InitialTyped, StoredAssumption DEF Init, TypeOK, Phase, Start
<1>5. RepairsMatchRuntime /\ IdleOutside /\ RecoveredBeforeUse
  BY LockFreeIsFree DEF Init, RepairsMatchRuntime, IdleOutside, RecoveredBeforeUse, Runs,
     LockFree
<1>6. UnreadableIsAlone /\ SealIsPlanned
  BY LockFreeIsFree DEF Init, UnreadableIsAlone, SealIsPlanned, LockFree
<1> QED BY <1>4, <1>5, <1>6 DEF EntryInv

LEMMA NextKeepsEntryInv == EntryInv /\ [Next]_vars => EntryInv'
BY NextTyped, NextRepairs, NextIdles, NextRecovers, NextKeepsUnreadable,
   NextKeepsSealPlanned DEF EntryInv

\* EntryInv is invariant for every world, store file and fault.
THEOREM EntryInvariant == Spec => []EntryInv
BY InitEntryInv, NextKeepsEntryInv, PTL DEF Spec

\* The type invariant.
THEOREM TypeCorrect == Spec => []TypeOK
<1>1. EntryInv => TypeOK BY DEF EntryInv
<1> QED BY <1>1, EntryInvariant, PTL

\* The user finds a Repairs issue exactly when the planner needs attention,
\* and the issue that says why.
THEOREM RepairsFollowRuntime == Spec => []RepairsMatchRuntime
<1>1. EntryInv => RepairsMatchRuntime BY DEF EntryInv
<1> QED BY <1>1, EntryInvariant, PTL

\* No block is sealed against a pause of the planner.
THEOREM PausesWin == Spec => PauseWins
<1>1. ASSUME EntryInv, Next, Runs, state.work = "idle", state'.work = "sealed"
      PROVE  rt.enabled
  <2>1. state.work # state'.work /\ Runs BY <1>1
  <2>2. CASE SaveReturns
    BY <1>1, <2>1, <2>2 DEF SaveReturns, EntryInv, SealIsPlanned
  <2>3. CASE ~SaveReturns
    <3>1. InitialState.work # "sealed" BY DEF InitialState
    <3>2. ~LoadReads /\ ~SetupSaved /\ ~SetupIOFails
      BY <2>1 DEF LoadReads, SetupSaved, SetupIOFails, Runs
    <3>3. state' = state \/ state' = InitialState
      BY <1>1, <2>3, <3>2 DEF Next, SetupBegins, LoadUnreadable, ForwardDone, ForwardFails,
         WorldChanges, ListenerRuns, DispatchMeetsMissingVacuum, CommandMeetsLostSelector, StartSeals,
         StartFindsSealed, DispatchChecked, Claim, ClaimGivesUp, CancelBlock, ResolveUncertainRun,
         QuarantineDispatch, ObservationApplies, LatchQuarantines, SaveFails,
         ToggleArrives, ToggleRuns, OptionsEdited, UnloadBegins, UnloadRefused, UnloadDone,
         OwedLands, Remove, Crash, Detach, Hold
    <3> QED BY <1>1, <3>1, <3>3
  <2> QED BY <2>2, <2>3
<1>2. EntryInv /\ [Next]_vars =>
        [Runs /\ state.work = "idle" /\ state'.work = "sealed" => rt.enabled]_vars
  BY <1>1
<1> QED BY <1>2, EntryInvariant, PTL DEF Spec, PauseWins

\* Only the last step of a setup publishes a runtime, with the ledger of its file.
LEMMA PublishesRecovered ==
    ASSUME EntryInv, Next, ~Runs, Runs'
    PROVE  state'.work \notin ActiveWork /\ file' = Serialize(state')
<1> USE DEF setupVars, lockVars
<1>1. LoadReads \/ SetupSaved
  BY DEF Next, SetupBegins, LoadUnreadable, SetupIOFails, ForwardDone, ForwardFails,
     WorldChanges, ListenerRuns, DispatchMeetsMissingVacuum, CommandMeetsLostSelector, StartSeals,
     StartFindsSealed, DispatchChecked, Claim, ClaimGivesUp, CancelBlock, ResolveUncertainRun,
     QuarantineDispatch, ObservationApplies, LatchQuarantines, SaveReturns, SaveFails,
     ToggleArrives, ToggleRuns, OptionsEdited, UnloadBegins, UnloadRefused, UnloadDone,
     OwedLands, Remove, Crash, Detach, Hold, Invalidate, Active, MayCommand, Runs,
     EntryInv, IdleOutside
<1>2. ASSUME NEW s \in State, AfterRewrite(s) PROVE Recovered(s) = s /\ state' = s
  BY <1>2 DEF AfterRewrite, Finish, Runs
<1>3. CASE LoadReads
  <2>1. file # NoFile /\ Canonical(file) /\ AfterRewrite(Deserialize(file))
    BY <1>3 DEF LoadReads, Runs
  <2>2. Deserialize(file) \in State BY <2>1, DeserializeType DEF EntryInv, TypeOK
  <2>3. state' = Deserialize(file) /\ state'.work \notin ActiveWork
    BY <1>2, <2>1, <2>2, RecoveredQuarantines
  <2>4. file' = file BY <1>3 DEF LoadReads
  <2> QED BY <2>1, <2>3, <2>4 DEF Canonical
<1>4. CASE SetupSaved
  <2>1. state \in State /\ file' = Serialize(state) BY <1>4 DEF SetupSaved, EntryInv, TypeOK
  <2>2. CASE phase = "rewriting"
    BY <1>2, <1>4, <2>1, <2>2, RecoveredQuarantines DEF SetupSaved
  <2>3. CASE phase = "saving"
    <3>1. Recovered(state) = state BY <2>3 DEF EntryInv, RecoveredBeforeUse
    <3>2. state' = state BY <1>4, <2>3 DEF SetupSaved, Finish
    <3> QED BY <2>1, <3>1, <3>2, RecoveredQuarantines
  <2> QED BY <1>4, <2>2, <2>3 DEF SetupSaved
<1> QED BY <1>1, <1>3, <1>4

\* A runtime is published only after its ledger was recovered and saved.
THEOREM RecoveryComesFirst == Spec => RecoveryIsDurable
<1> DEFINE Durable == state'.work \notin ActiveWork /\ file' = Serialize(state')
<1>1. EntryInv /\ [Next]_vars => [~Runs /\ Runs' => Durable]_vars BY PublishesRecovered
<1> QED BY <1>1, EntryInvariant, PTL DEF Spec, RecoveryIsDurable

\* A store file that the codec refuses outlives every setup, crash and reload.
THEOREM UnreadableOutlives == Spec => UnreadableIsKept
<1>1. EntryInv /\ [Next]_vars => [file # NoFile /\ ~Readable(file) => FileKept]_vars
  BY NextKeepsUnreadable DEF EntryInv
<1> QED BY <1>1, EntryInvariant, PTL DEF Spec, UnreadableIsKept, FileKept

-----------------------------------------------------------------------------
(* A ready planner, when nothing moves under a setup.                      *)

\* While a setup runs, it still sees what it saw at its start, and what a
\* runtime may use is usable.
SetupSeesWorld ==
    phase \in {"loading", "rewriting", "saving"} =>
        /\ seen = SetupIssues(world)
        /\ world.vacuum # "gone" => rt.name = world.name
\* Whatever makes the topology of a runtime unusable has a listener that has not
\* run yet: a new entity id the one of the entity registry, the rest any.
LossIsUnheard ==
    Runs /\ rt.topo =>
        /\ world.name # rt.name => "registry" \in unheard
        /\ Revalidated(world) # {} => unheard # {}

LEMMA HeardOutIsUsable ==
    ASSUME LossIsUnheard, Runs, rt.topo, unheard = {}
    PROVE  Usable(world)
BY DEF LossIsUnheard, Usable, Revalidated

\* An event that makes usable registries unusable leaves something to some
\* listener, or the robot has another entity id.
LEMMA LossIsHeard ==
    ASSUME TypeOK, NEW v \in World, OneEvent(world, v),
           Revalidated(world) = {}, Revalidated(v) # {}, v.name = rt.name,
           v.vacuum # "silent"
    PROVE  Heard(world, v) # {}
<1>1. /\ world.vacuum = "ready" /\ world.vacuum \in Vacuum /\ v.vacuum \in Vacuum
      /\ DOMAIN world = {"vacuum", "name", "mapped", "existing", "selector"}
      /\ rt.mop \in BOOLEAN /\ NoSelector \notin Selector
  BY NoSelectorAssumption
     DEF TypeOK, World, Runtime, Revalidated, TopologyIssues, VacuumError, Vacuum
<1>2. PICK f \in {"vacuum", "name", "mapped", "existing", "selector"} :
         world # v /\ v = [world EXCEPT ![f] = v[f]]
  BY <1>1 DEF OneEvent
<1>3. CASE f = "vacuum"
  <2>1. v.vacuum # "ready" BY <1>1, <1>2, <1>3 DEF TypeOK, World
  <2>2. CASE v.vacuum = "gone" BY <1>1, <2>1, <2>2 DEF Heard, RegistryChanged
  <2>3. CASE v.vacuum # "gone"
    <3>1. VacuumError(v) # {} BY <1>1, <2>1, <2>3 DEF VacuumError, Vacuum
    <3>2. StateHeard(v) # {} BY <3>1 DEF StateHeard
    <3> QED BY <1>1, <2>1, <2>3, <3>2 DEF Heard, StateChanged
  <2> QED BY <2>2, <2>3
<1>4. CASE f = "name"
  <2>1. v.name # world.name BY <1>1, <1>2, <1>4 DEF TypeOK, World
  <2> QED BY <2>1 DEF Heard, RegistryChanged
<1>5. CASE f = "mapped"
  <2>1. v.mapped # world.mapped BY <1>1, <1>2, <1>5 DEF TypeOK, World
  <2> QED BY <2>1 DEF Heard, RegistryChanged
<1>6. CASE f = "existing"
  <2>1. v.existing # world.existing BY <1>1, <1>2, <1>6 DEF TypeOK, World
  <2> QED BY <2>1 DEF Heard
<1>7. CASE f = "selector"
  <2>1. /\ v.selector # world.selector /\ v.vacuum = "ready"
        /\ v.mapped = world.mapped /\ v.existing = world.existing
    BY <1>1, <1>2, <1>7 DEF TypeOK, World
  <2>2. VacuumError(v) = VacuumError(world) BY <1>1, <2>1 DEF VacuumError
  <2>3. rt.mop /\ LiveSelector(v, rt.selector) = NoSelector
    BY <2>1, <2>2 DEF Revalidated, TopologyIssues, MappingError
  <2>4. BoundSelector(v, rt.selector) = NoSelector
    BY <2>3 DEF LiveSelector, BoundSelector
  <2>5. SelectorHeard(v) # {} BY <2>3, <2>4 DEF SelectorHeard
  <2> QED BY <2>1, <2>5 DEF Heard
<1> QED BY <1>2, <1>3, <1>4, <1>5, <1>6, <1>7

LEMMA WorldKeepsUnheard ==
    ASSUME TypeOK, LossIsUnheard, NEW v \in Worlds, WorldChanges(v), v.vacuum # "silent"
    PROVE  LossIsUnheard'
<1> SUFFICES ASSUME Runs, rt.topo
             PROVE  /\ v.name # rt.name => "registry" \in unheard'
                    /\ Revalidated(v) # {} => unheard' # {}
  BY DEF WorldChanges, lockVars, LossIsUnheard, Runs, Revalidated
<1>1. v \in World /\ OneEvent(world, v) /\ unheard' = unheard \cup Heard(world, v)
  BY WorldTyped DEF WorldChanges
<1>2. v.name # rt.name => "registry" \in unheard'
  <2>1. CASE v.name = world.name BY <1>1, <2>1 DEF LossIsUnheard
  <2>2. CASE v.name # world.name BY <1>1, <2>2 DEF Heard, RegistryChanged
  <2> QED BY <2>1, <2>2
<1>3. ASSUME Revalidated(v) # {} PROVE unheard' # {}
  <2>1. CASE Revalidated(world) # {} BY <1>1, <2>1 DEF LossIsUnheard
  <2>2. CASE v.name # rt.name BY <1>2, <2>2
  <2>3. CASE Revalidated(world) = {} /\ v.name = rt.name
    BY <1>1, <1>3, <2>3, LossIsHeard
  <2> QED BY <2>1, <2>2, <2>3
<1> QED BY <1>2, <1>3

\* A listener that finds nothing leaves nothing to find.
LEMMA ListenerKeepsUnheard ==
    ASSUME TypeOK, LossIsUnheard, NEW x \in unheard, ListenerRuns(x)
    PROVE  LossIsUnheard'
<1> USE DEF lockVars
<1>1. CASE Conditions(x) # {}
  <2>1. ~rt'.topo BY <1>1 DEF ListenerRuns, FailClosed, TypeOK, Runtime
  <2> QED BY <2>1 DEF LossIsUnheard
<1>2. CASE Conditions(x) = {}
  <2> SUFFICES ASSUME Runs, rt.topo
               PROVE  /\ world.name # rt.name => "registry" \in unheard'
                      /\ Revalidated(world) = {}
    BY <1>2 DEF ListenerRuns, LossIsUnheard, Runs, Revalidated
  <2>1. unheard' = unheard \ {x} BY <1>2 DEF ListenerRuns
  <2>2. CASE x = "registry"
    <3>1. RegistryHeard(world) = {} BY <1>2, <2>2 DEF Conditions
    <3> QED BY <3>1 DEF RegistryHeard
  <2>3. CASE x = "area"
    <3>1. Revalidated(world) = {} BY <1>2, <2>3 DEF Conditions
    <3> QED BY <2>1, <2>3, <3>1 DEF LossIsUnheard
  <2> QED BY <1>2, <2>2, <2>3 DEF Conditions
<1> QED BY <1>1, <1>2


\* A setup that finds no topology issue publishes a usable topology.
LEMMA FinishIsUsable ==
    ASSUME TypeOK, SetupSeesWorld, phase \in {"loading", "rewriting", "saving"},
           NEW s \in State, Finish(s), UNCHANGED world
    PROVE  LossIsUnheard'
<1> SUFFICES ASSUME SetupConditions(s) \cap TopologyIssue = {}
             PROVE  world.name = rt'.name /\ Revalidated(world)' = {}
  BY DEF Finish, LossIsUnheard
<1>1. /\ rt'.mop = RequiresMop(s) /\ rt'.name = rt.name /\ rt'.selector = NewSelector(s)
  BY DEF Finish
<1>2. SetupIssues(world) = {} /\ ~(RequiresMop(s) /\ NewSelector(s) = NoSelector)
  <2>1. SetupIssues(world) \subseteq TopologyIssue BY HeardTyped DEF TypeOK
  <2> QED BY <2>1 DEF SetupConditions, SetupSeesWorld, TopologyIssue
<1>3. world.vacuum # "gone" /\ rt.name = world.name
  BY <1>2 DEF SetupIssues, SetupSeesWorld
<1>4. VacuumError(world) = {} /\ MappingError(world, Configured) = {}
      /\ Configured \subseteq world.existing
  BY <1>2, <1>3 DEF SetupIssues, TopologyIssues
<1>5. RequiresMop(s) => LiveSelector(world, NewSelector(s)) # NoSelector
  BY <1>2, <1>3 DEF NewSelector, LiveSelector, FoundSelector, BoundSelector
<1>6. TopologyIssues(world, Configured, rt'.mop, LiveSelector(world, rt'.selector)) = {}
  BY <1>1, <1>4, <1>5 DEF TopologyIssues
<1> QED BY <1>1, <1>3, <1>6 DEF Revalidated

LEMMA NextKeepsUsable ==
    ASSUME "moves" \notin Faults, \A w \in Worlds : w.vacuum # "silent",
           TypeOK, SetupSeesWorld, LossIsUnheard, [Next]_vars
    PROVE  SetupSeesWorld' /\ LossIsUnheard'
<1> USE DEF setupVars, lockVars
<1>1. ASSUME phase' \notin {"loading", "rewriting", "saving"} PROVE SetupSeesWorld'
  BY <1>1 DEF SetupSeesWorld
<1>2. ASSUME ~Runs' PROVE LossIsUnheard' BY <1>2 DEF LossIsUnheard
<1>3. ASSUME UNCHANGED <<world, seen>>, rt'.name = rt.name,
             phase' \in {"loading", "rewriting", "saving"} =>
                 phase \in {"loading", "rewriting", "saving"}
      PROVE  SetupSeesWorld'
  BY <1>3 DEF SetupSeesWorld, SetupIssues
<1>4. ASSUME UNCHANGED <<world, unheard>>, Runs' => Runs, rt'.topo => rt.topo,
             rt'.name = rt.name, rt'.mop = rt.mop, rt'.selector = rt.selector
      PROVE  LossIsUnheard'
  BY <1>4 DEF LossIsUnheard, Revalidated
<1>5. CASE SetupBegins
  <2>1. LossIsUnheard' BY <1>5, <1>2 DEF SetupBegins, Runs
  <2>2. SetupSeesWorld'
    BY <1>5 DEF SetupBegins, SetupSeesWorld, SetupIssues, TypeOK, Runtime
  <2> QED BY <2>1, <2>2
<1>6. ASSUME NEW s \in State, AfterRewrite(s), phase \in {"loading", "rewriting", "saving"},
             UNCHANGED world
      PROVE  SetupSeesWorld' /\ LossIsUnheard'
  <2>1. CASE Recovered(s) = s
    BY <1>6, <1>1, <2>1, FinishIsUsable DEF AfterRewrite, Finish
  <2>2. CASE Recovered(s) # s
    BY <1>6, <1>2, <1>3, <2>2 DEF AfterRewrite, Runs
  <2> QED BY <2>1, <2>2
<1>7. CASE LoadReads
  <2>1. CASE file = NoFile BY <1>7, <1>2, <1>3, <2>1 DEF LoadReads, Runs
  <2>2. CASE file # NoFile
    <3>1. Deserialize(file) \in State BY <2>2, DeserializeType DEF TypeOK
    <3>2. CASE Canonical(file) BY <1>7, <1>6, <2>2, <3>1, <3>2 DEF LoadReads
    <3>3. CASE ~Canonical(file) BY <1>7, <1>2, <1>3, <2>2, <3>3 DEF LoadReads, Runs
    <3> QED BY <3>2, <3>3
  <2> QED BY <2>1, <2>2
<1>8. CASE SetupSaved
  <2>1. state \in State /\ UNCHANGED world BY <1>8 DEF SetupSaved, TypeOK
  <2>2. CASE phase = "rewriting" BY <1>8, <1>6, <2>1, <2>2 DEF SetupSaved
  <2>3. CASE phase = "saving"
    BY <1>8, <1>1, <2>1, <2>3, FinishIsUsable DEF SetupSaved, Finish
  <2> QED BY <1>8, <2>2, <2>3 DEF SetupSaved
<1>9. CASE LoadUnreadable \/ SetupIOFails \/ Remove \/ Crash
  BY <1>9, <1>1, <1>2 DEF LoadUnreadable, SetupIOFails, Remove, Crash, Runs
<1>10. CASE ForwardFails \/ UnloadDone
  BY <1>10, <1>1, <1>2 DEF ForwardFails, UnloadDone, Detach, Runs
<1>11. ASSUME NEW v \in Worlds, WorldChanges(v) PROVE SetupSeesWorld' /\ LossIsUnheard'
  <2>1. phase' \notin {"loading", "rewriting", "saving"} BY <1>11 DEF WorldChanges
  <2> QED BY <1>11, <1>1, <2>1, WorldKeepsUnheard
<1>20. ASSUME NEW x \in unheard, ListenerRuns(x) PROVE SetupSeesWorld' /\ LossIsUnheard'
  <2>1. rt'.name = rt.name BY <1>20 DEF ListenerRuns, FailClosed, TypeOK, Runtime
  <2> QED BY <1>20, <1>3, <2>1, ListenerKeepsUnheard DEF ListenerRuns
<1>12. CASE DispatchMeetsMissingVacuum \/ CommandMeetsLostSelector
  <2>1. rt' = [rt EXCEPT !.topo = FALSE] /\ phase' \notin {"loading", "rewriting", "saving"}
    BY <1>12 DEF DispatchMeetsMissingVacuum, CommandMeetsLostSelector, FailClosed, Active
  <2>2. ~rt'.topo BY <2>1 DEF TypeOK, Runtime
  <2> QED BY <1>1, <2>1, <2>2 DEF LossIsUnheard
<1>13. CASE ForwardDone \/ UnloadRefused \/ UnloadBegins
            \/ \E enabled \in BOOLEAN : OptionsEdited(enabled)
  BY <1>13, <1>3, <1>4 DEF ForwardDone, UnloadRefused, UnloadBegins, OptionsEdited,
     Invalidate, Runs
<1>14. CASE StartSeals \/ StartFindsSealed \/ DispatchChecked \/ Claim \/ ClaimGivesUp
            \/ CancelBlock \/ QuarantineDispatch \/ LatchQuarantines \/ SaveReturns \/ SaveFails
  BY <1>14, <1>3, <1>4 DEF StartSeals, StartFindsSealed, DispatchChecked, Claim, ClaimGivesUp,
     CancelBlock, QuarantineDispatch, LatchQuarantines, SaveReturns, SaveFails, Hold, Runs
<1>15. ASSUME NEW work, ResolveUncertainRun(work) \/ ObservationApplies(work)
       PROVE  SetupSeesWorld' /\ LossIsUnheard'
  BY <1>15, <1>3, <1>4 DEF ResolveUncertainRun, ObservationApplies, Hold, Runs
<1>16. ASSUME NEW t, ToggleOutcome(t) \/ UNCHANGED rt, UNCHANGED <<world, seen, phase, unheard>>
       PROVE  SetupSeesWorld' /\ LossIsUnheard'
  <2>1. /\ rt'.topo = rt.topo /\ rt'.name = rt.name /\ rt'.mop = rt.mop
        /\ rt'.selector = rt.selector
    BY <1>16 DEF ToggleOutcome, Commits, RollsBack, RollbackFails, TypeOK, Runtime
  <2> QED BY <1>16, <1>3, <1>4, <2>1 DEF Runs
<1>17. CASE ToggleRuns \/ \E want \in BOOLEAN : ToggleArrives(want)
  BY <1>17, <1>16 DEF ToggleRuns, ToggleArrives
<1>18. ASSUME NEW s \in owed, OwedLands(s) PROVE SetupSeesWorld' /\ LossIsUnheard'
  BY <1>18, <1>3, <1>4 DEF OwedLands, Runs
<1>19. CASE UNCHANGED vars BY <1>19, <1>3, <1>4 DEF vars, Runs
<1> QED
  BY <1>5, <1>7, <1>8, <1>9, <1>10, <1>11, <1>12, <1>13, <1>14, <1>15, <1>17, <1>18,
     <1>19, <1>20 DEF Next

\* Once its listeners have run, a ready planner can do its configured work, if
\* nothing changes while a setup reads the store and the robot's state never
\* loses its features altogether: the other windows are closed.
THEOREM ReadyIsUsable ==
    ASSUME "moves" \notin Faults, \A w \in Worlds : w.vacuum # "silent"
    PROVE  Spec => []ReadyMeansUsable
<1>1. Init => SetupSeesWorld /\ LossIsUnheard
  BY DEF Init, SetupSeesWorld, LossIsUnheard, Runs
<1>2. TypeOK /\ SetupSeesWorld /\ LossIsUnheard /\ [Next]_vars
      => SetupSeesWorld' /\ LossIsUnheard'
  BY NextKeepsUsable
<1>3. LossIsUnheard => ReadyMeansUsable
  BY HeardOutIsUsable DEF ReadyMeansUsable, PlannerReady, AttentionRequired
<1> QED BY <1>1, <1>2, <1>3, TypeCorrect, PTL DEF Spec

-----------------------------------------------------------------------------
(* The planning option, for any number of switch calls that wait.          *)

\* One switch call parts the two only if it fails closed, or if its rollback
\* writes back another value than the one it finds.
LEMMA ToggleAgrees ==
    ASSUME TypeOK, Agree, NEW t \in Toggle, ToggleOutcome(t), Active,
           UNCHANGED <<phase, edited>>
    PROVE  \/ Agree' \/ FailsClosed
           \/ "commit" \in Faults /\ t.prev # planning /\ planning' = t.prev /\ UNCHANGED rt
<1>1. rt \in Runtime BY DEF TypeOK
<1>2. \A b \in BOOLEAN : [rt EXCEPT !.enabled = b].enabled = b BY <1>1 DEF Runtime
<1>3. CASE Commits(t) BY <1>2, <1>3 DEF Commits, Agree, Toggle
<1>4. CASE RollsBack(t)
  <2>1. CASE t.prev = planning BY <1>4, <2>1 DEF RollsBack, Agree, Runs
  <2> QED BY <1>4, <2>1 DEF RollsBack
<1>5. CASE RollbackFails(t) /\ rt' = [rt EXCEPT !.enabled = FALSE]
  BY <1>2, <1>5 DEF RollbackFails, FailsClosed
<1> QED BY <1>3, <1>4, <1>5 DEF ToggleOutcome

LEMMA NextAgrees ==
    ASSUME TypeOK, Agree, [Next]_vars
    PROVE  Agree' \/ RollsBackStale \/ FailsClosed
<1> USE DEF setupVars, lockVars
<1>1. ASSUME UNCHANGED <<planning, edited>>, Runs' => Runs, rt'.enabled = rt.enabled
      PROVE  Agree'
  BY <1>1 DEF Agree
<1>2. ASSUME ~Runs' PROVE Agree' BY <1>2 DEF Agree
<1>3. ASSUME NEW s, Finish(s), UNCHANGED planning PROVE Agree'
  BY <1>3 DEF Finish, Agree
<1>4. ASSUME NEW s, AfterRewrite(s), UNCHANGED planning PROVE Agree'
  BY <1>2, <1>3, <1>4 DEF AfterRewrite, Runs
<1>5. CASE SetupBegins \/ LoadReads \/ LoadUnreadable \/ SetupIOFails \/ SetupSaved \/ Remove
  BY <1>2, <1>3, <1>4, <1>5 DEF SetupBegins, LoadReads, LoadUnreadable, SetupIOFails,
     SetupSaved, Remove, Runs
<1>6. CASE Crash \/ ForwardFails \/ UnloadDone
  BY <1>2, <1>6 DEF Crash, ForwardFails, UnloadDone, Detach, Runs
<1>7. CASE ForwardDone \/ UnloadBegins \/ UnloadRefused
  BY <1>1, <1>7 DEF ForwardDone, UnloadBegins, Invalidate, UnloadRefused, Runs
<1>8. ASSUME NEW enabled \in BOOLEAN, OptionsEdited(enabled) PROVE Agree'
  <2>1. Runs' => Runs BY <1>8 DEF OptionsEdited, Invalidate, Runs
  <2> QED BY <1>8, <2>1 DEF OptionsEdited, Agree
<1>9. ASSUME NEW v \in Worlds, WorldChanges(v) PROVE Agree'
  BY <1>1, <1>9 DEF WorldChanges, Runs
<1>10. ASSUME NEW x \in unheard, ListenerRuns(x) PROVE Agree'
  <2>1. rt'.enabled = rt.enabled BY <1>10 DEF ListenerRuns, FailClosed, TypeOK, Runtime
  <2> QED BY <1>1, <1>10, <2>1 DEF ListenerRuns, Runs
<1>11. CASE DispatchMeetsMissingVacuum \/ CommandMeetsLostSelector
  <2>1. rt'.enabled = rt.enabled
    BY <1>11 DEF DispatchMeetsMissingVacuum, CommandMeetsLostSelector, FailClosed, TypeOK,
                 Runtime
  <2> QED BY <1>1, <1>11, <2>1
          DEF DispatchMeetsMissingVacuum, CommandMeetsLostSelector, Runs
<1>12. CASE StartSeals \/ StartFindsSealed \/ DispatchChecked \/ Claim \/ ClaimGivesUp
            \/ CancelBlock \/ QuarantineDispatch \/ LatchQuarantines \/ SaveReturns \/ SaveFails
  BY <1>1, <1>12 DEF StartSeals, StartFindsSealed, DispatchChecked, Claim, ClaimGivesUp,
     CancelBlock, QuarantineDispatch, LatchQuarantines, SaveReturns, SaveFails, Hold, Runs
<1>13. ASSUME NEW work, ResolveUncertainRun(work) \/ ObservationApplies(work) PROVE Agree'
  BY <1>1, <1>13 DEF ResolveUncertainRun, ObservationApplies, Hold, Runs
<1>14. ASSUME NEW want \in BOOLEAN, ToggleArrives(want) PROVE Agree' \/ FailsClosed
  <2> DEFINE t == [want |-> want, prev |-> planning, cur |-> TRUE]
  <2>1. t \in Toggle /\ t.prev = planning BY DEF Toggle, TypeOK
  <2>2. Active /\ UNCHANGED <<phase, edited>> BY <1>14 DEF ToggleArrives
  <2>3. CASE TakesLock
    <3>1. ToggleOutcome(t) BY <1>14, <2>3 DEF ToggleArrives
    <3> HIDE DEF t
    <3> QED BY <2>1, <2>2, <3>1, ToggleAgrees
  <2>4. CASE ~TakesLock BY <1>1, <1>14, <2>2, <2>4 DEF ToggleArrives, Runs
  <2> QED BY <2>3, <2>4
<1>15. CASE ToggleRuns
  <2>1. /\ waiting \in Seq(Toggle) /\ waiting # <<>> /\ waiting' = Tail(waiting)
        /\ UNCHANGED <<phase, edited>>
    BY <1>15 DEF ToggleRuns, TypeOK
  <2>2. Head(waiting) \in Toggle BY <2>1, HeadTailProperties
  <2>3. CASE Head(waiting).cur /\ Active /\ rt.topo
    <3>1. ToggleOutcome(Head(waiting)) BY <1>15, <2>3 DEF ToggleRuns
    <3> QED BY <2>1, <2>2, <2>3, <3>1, ToggleAgrees DEF RollsBackStale
  <2>4. CASE ~(Head(waiting).cur /\ Active /\ rt.topo)
    BY <1>1, <1>15, <2>1, <2>4 DEF ToggleRuns, Runs
  <2> QED BY <2>3, <2>4
<1>16. ASSUME NEW s \in owed, OwedLands(s) PROVE Agree'
  BY <1>1, <1>16 DEF OwedLands, Runs
<1>17. CASE UNCHANGED vars BY <1>1, <1>17 DEF vars, Runs
<1> QED
  BY <1>5, <1>6, <1>7, <1>8, <1>9, <1>10, <1>11, <1>12, <1>13, <1>14, <1>15, <1>16, <1>17
     DEF Next

\* The stored option and the running preference are parted only by a switch call
\* that fails closed, or by the stale rollback of one that waited behind another.
THEOREM SwitchStaysTrue == Spec => SwitchAgrees
<1>1. TypeOK /\ [Next]_vars => [Agree => Agree' \/ RollsBackStale \/ FailsClosed]_vars
  BY NextAgrees
<1> QED BY <1>1, TypeCorrect, PTL DEF Spec, SwitchAgrees

\* While Home Assistant takes every write of the options, the two agree whenever
\* the runtime has read the options, however many calls wait for the lock.
THEOREM CommittedSwitchAgrees ==
    ASSUME "commit" \notin Faults
    PROVE  Spec => []Agree
<1>1. Init => Agree BY DEF Init, Agree, Runs
<1>2. TypeOK /\ Agree /\ [Next]_vars => Agree'
  BY NextAgrees DEF RollsBackStale, FailsClosed
<1> QED BY <1>1, <1>2, TypeCorrect, PTL DEF Spec

-----------------------------------------------------------------------------
(* EntryRuntime implements LaneWork.                                       *)

\* A save that begins holds the next edge; memory waits for its end.
LEMMA HoldIsEdge ==
    ASSUME TypeOK, NEW by, NEW work, by # "nobody", state' = state,
           held' = [by |-> by, next |-> [state EXCEPT !.work = work], cur |-> TRUE],
           IF by = "command" THEN <<state.work, work>> \in Lane!CommandEdge
                             ELSE <<state.work, work>> \in Lane!ReportEdge
    PROVE  HeldIsEdge'
<1>1. held'.by = by /\ held'.next.work = work /\ state'.work = state.work
  BY DEF TypeOK, State
<1> QED BY <1>1 DEF HeldIsEdge

LEMMA NextKeepsEdge ==
    ASSUME EntryInv, HeldIsEdge, [Next]_vars
    PROVE  HeldIsEdge'
<1> USE DEF setupVars, lockVars
<1>0. TypeOK /\ IdleOutside BY DEF EntryInv
<1>1. ASSUME held' = Free PROVE HeldIsEdge'
  BY <1>1, LockFreeIsFree DEF HeldIsEdge, LockFree
<1>2. ASSUME state' = state, held'.by = held.by, held'.next = held.next PROVE HeldIsEdge'
  BY <1>2 DEF HeldIsEdge, LockFree
<1>3. ASSUME LockFree, held' = held PROVE HeldIsEdge'
  BY <1>3 DEF HeldIsEdge, LockFree
<1>4. CASE SetupBegins \/ LoadReads \/ LoadUnreadable \/ SetupIOFails \/ SetupSaved \/ Remove
  <2>1. ~Runs BY <1>4 DEF SetupBegins, LoadReads, LoadUnreadable, SetupIOFails, SetupSaved,
                      Remove, Runs
  <2> QED BY <1>0, <1>3, <1>4, <2>1 DEF SetupBegins, LoadReads, LoadUnreadable, SetupIOFails,
                                     SetupSaved, Remove, IdleOutside
<1>5. CASE Crash \/ ForwardFails \/ UnloadDone \/ SaveReturns \/ SaveFails
  BY <1>1, <1>5 DEF Crash, ForwardFails, UnloadDone, Detach, SaveReturns, SaveFails
<1>6. CASE ForwardDone \/ UnloadRefused \/ StartFindsSealed \/ DispatchChecked \/ ClaimGivesUp
           \/ DispatchMeetsMissingVacuum \/ CommandMeetsLostSelector \/ ToggleRuns
  BY <1>2, <1>6 DEF ForwardDone, UnloadRefused, StartFindsSealed, DispatchChecked, ClaimGivesUp,
     DispatchMeetsMissingVacuum, CommandMeetsLostSelector, ToggleRuns
<1>7. CASE \/ \E v \in Worlds : WorldChanges(v)
           \/ \E x \in unheard : ListenerRuns(x)
           \/ \E want \in BOOLEAN : ToggleArrives(want)
           \/ \E s \in owed : OwedLands(s)
  BY <1>2, <1>7 DEF WorldChanges, ListenerRuns, ToggleArrives, OwedLands
<1>8. CASE UnloadBegins \/ \E enabled \in BOOLEAN : OptionsEdited(enabled)
  <2>1. state' = state /\ (held' = held \/ held' = [held EXCEPT !.cur = FALSE])
    BY <1>8 DEF UnloadBegins, OptionsEdited, Invalidate
  <2>2. held'.by = held.by /\ held'.next = held.next BY <1>0, <2>1 DEF TypeOK, Command
  <2> QED BY <1>2, <2>1, <2>2
<1> USE DEF Lane!CommandEdge, Lane!ReportEdge
<1>9. CASE StartSeals BY <1>0, <1>9, HoldIsEdge DEF StartSeals, Hold
<1>10. CASE Claim BY <1>0, <1>10, HoldIsEdge DEF Claim, Hold
<1>11. CASE CancelBlock BY <1>0, <1>11, HoldIsEdge DEF CancelBlock, Hold
<1>12. CASE QuarantineDispatch BY <1>0, <1>12, HoldIsEdge DEF QuarantineDispatch, Hold
<1>13. ASSUME NEW work \in {"idle", "resumed"}, ResolveUncertainRun(work) PROVE HeldIsEdge'
  BY <1>0, <1>13, HoldIsEdge DEF ResolveUncertainRun, Hold
<1>14. ASSUME NEW work \in {"idle", "uncertain"}, ObservationApplies(work) PROVE HeldIsEdge'
  BY <1>0, <1>14, HoldIsEdge DEF ObservationApplies, Hold
<1>15. CASE LatchQuarantines
  BY <1>0, <1>1, <1>15, HoldIsEdge DEF LatchQuarantines
<1>16. CASE UNCHANGED vars BY <1>2, <1>16 DEF vars
<1> QED
  BY <1>4, <1>5, <1>6, <1>7, <1>8, <1>9, <1>10, <1>11, <1>12, <1>13, <1>14, <1>15,
     <1>16 DEF Next

\* In the life of a runtime memory moves when a save returns to a guard that
\* lets it publish, and by no other step.
LEMMA PublicationMoves ==
    ASSUME EntryInv, Next, Runs, Runs', state' # state
    PROVE  SaveReturns /\ Publishes /\ state' = held.next /\ rt' = rt
<1>1. ~LoadReads /\ ~SetupSaved /\ ~SetupIOFails
  BY DEF LoadReads, SetupSaved, SetupIOFails, Runs
<1>2. SaveReturns
  BY <1>1 DEF Next, SetupBegins, LoadUnreadable, ForwardDone, ForwardFails,
     WorldChanges, ListenerRuns, DispatchMeetsMissingVacuum, CommandMeetsLostSelector, StartSeals,
     StartFindsSealed, DispatchChecked, Claim, ClaimGivesUp, CancelBlock, ResolveUncertainRun,
     QuarantineDispatch, ObservationApplies, LatchQuarantines, SaveFails,
     ToggleArrives, ToggleRuns, OptionsEdited, UnloadBegins, UnloadRefused, UnloadDone,
     OwedLands, Remove, Crash, Detach, Hold, Runs
<1> QED BY <1>2 DEF SaveReturns

\* The latch is set at most once in a life, by a step that leaves memory alone.
LEMMA LatchMoves ==
    ASSUME EntryInv, Next, Runs, Runs', rt'.topo # rt.topo
    PROVE  rt.topo /\ rt'.topo = FALSE /\ state' = state
<1> USE DEF setupVars, lockVars
<1>0. rt \in Runtime BY DEF EntryInv, TypeOK
<1>1. ~SetupBegins /\ ~LoadReads /\ ~SetupSaved
  BY DEF SetupBegins, LoadReads, SetupSaved, Runs
<1>2. ASSUME NEW t, ToggleOutcome(t) PROVE FALSE
  <2>1. rt' = rt \/ \E b : rt' = [rt EXCEPT !.enabled = b] BY <1>2
       DEF ToggleOutcome, Commits, RollsBack, RollbackFails
  <2> QED BY <1>0, <2>1 DEF Runtime
<1>3. ~ToggleRuns /\ \A want \in BOOLEAN : ~ToggleArrives(want)
  BY <1>2 DEF ToggleRuns, ToggleArrives
<1>4. \/ \E x \in unheard : ListenerRuns(x) /\ FailClosed(Conditions(x))
      \/ DispatchMeetsMissingVacuum
      \/ CommandMeetsLostSelector
  BY <1>1, <1>3 DEF Next, LoadUnreadable, SetupIOFails, ForwardDone, ForwardFails,
     WorldChanges, ListenerRuns, StartSeals,
     StartFindsSealed, DispatchChecked, Claim, ClaimGivesUp, CancelBlock, ResolveUncertainRun,
     QuarantineDispatch, ObservationApplies, LatchQuarantines, SaveReturns, SaveFails,
     OptionsEdited, Invalidate, UnloadBegins, UnloadRefused, UnloadDone,
     OwedLands, Remove, Crash, Detach, Hold, Runs
<1>5. rt'.topo = FALSE
  BY <1>0, <1>4 DEF DispatchMeetsMissingVacuum, CommandMeetsLostSelector, FailClosed, Runtime
<1>6. state' = state
  BY <1>4 DEF ListenerRuns, DispatchMeetsMissingVacuum, CommandMeetsLostSelector
<1> QED BY <1>0, <1>5, <1>6 DEF Runtime

LEMMA StepKeepsWork ==
    ASSUME EntryInv, HeldIsEdge, [Next]_vars
    PROVE  [Lane!LaneNext]_(Lane!lvars)
<1> USE DEF Lane!LaneNext, Lane!lvars
<1>0. /\ state \in State /\ rt \in Runtime /\ state' \in State /\ rt' \in Runtime
      /\ IdleOutside
  BY NextKeepsEntryInv DEF EntryInv, TypeOK
<1>1. \A s \in State : s.work # "down" BY DEF State, Work
<1>2. CASE UNCHANGED vars BY <1>2 DEF vars, Runs
<1>3. CASE Next /\ ~Runs /\ Runs'
  <2>1. state'.work \in Lane!Quiet
    BY <1>0, <1>3, PublishesRecovered DEF State, Work, ActiveWork, Lane!Quiet
  <2> QED BY <1>3, <2>1 DEF Lane!Begins
<1>4. CASE ~Runs /\ ~Runs' BY <1>4
<1>5. CASE Runs /\ ~Runs' BY <1>0, <1>1, <1>5 DEF Lane!Ends
<1>6. CASE Next /\ Runs /\ Runs' /\ state' # state
  <2>1. SaveReturns /\ Publishes /\ state' = held.next /\ rt' = rt
    BY <1>6, PublicationMoves
  <2>2. CASE held.by = "command"
    <3>1. rt.topo /\ <<state.work, state'.work>> \in Lane!CommandEdge
      BY <2>1, <2>2 DEF Publishes, HeldIsEdge, LockFree
    <3> QED BY <1>6, <2>1, <3>1 DEF Lane!Commands
  <2>3. CASE held.by # "command"
    <3>1. <<state.work, state'.work>> \in Lane!ReportEdge
      BY <2>1, <2>3 DEF SaveReturns, HeldIsEdge
    <3> QED BY <1>6, <2>1, <3>1 DEF Lane!Reports
  <2> QED BY <2>2, <2>3
<1>7. CASE Next /\ Runs /\ Runs' /\ state' = state
  <2>1. rt'.topo = rt.topo \/ (rt.topo /\ rt'.topo = FALSE) BY <1>7, LatchMoves
  <2> QED BY <1>0, <1>1, <1>7, <2>1 DEF Lane!Latches
<1> QED BY <1>2, <1>3, <1>4, <1>5, <1>6, <1>7

\* What this module keeps of the open block moves along the edges of LaneWork,
\* as the blocks of LaneDispatch do: a setup publishes recovered work, a save
\* holds the next edge, and the guard that follows it keeps a latched runtime
\* from publishing a command.
THEOREM EntryKeepsWork == Spec => KeepsLaneWork
<1>1. Init => Lane!LaneInit BY DEF Init, Lane!LaneInit, Runs
<1>2. Init => HeldIsEdge BY LockFreeIsFree DEF Init, HeldIsEdge, LockFree
<1>3. EntryInv /\ HeldIsEdge /\ [Next]_vars => HeldIsEdge' BY NextKeepsEdge
<1>4. EntryInv /\ HeldIsEdge /\ [Next]_vars => [Lane!LaneNext]_(Lane!lvars)
  BY StepKeepsWork
<1> QED BY <1>1, <1>2, <1>3, <1>4, EntryInvariant, PTL DEF Spec, KeepsLaneWork, Lane!LaneSpec
===============================================================================
