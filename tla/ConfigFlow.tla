------------------------------ MODULE ConfigFlow ------------------------------
(***************************************************************************)
(* The config flow: from the choice of a vacuum over its areas and one     *)
(* plan per area to a config entry, with several dialogs open at once and  *)
(* the registries changing between two of their forms.  A flow remembers   *)
(* the registry identity of the robot, never its entity id.                *)
(*                                                                         *)
(* Every handler of the flow runs to its end without a suspension, so it   *)
(* is one step.  A form that is only shown again is no step.               *)
(***************************************************************************)
EXTENDS Topology, Naturals, Sequences

CONSTANTS
    Robot,        \* registry identities of vacuums
    NoRobot,      \* _vacuum_registry_id is None
    Flow,         \* dialogs
    Worlds,       \* bound: what the registries may say of each robot
    Selections    \* bound: the area lists a user submits

\* Entity ids are unique, and there is one area registry.
ASSUME WorldsAssumption ==
    /\ Worlds \subseteq [Robot -> World] /\ Worlds # {}
    /\ \A w \in Worlds : \A r, s \in Robot :
          /\ w[r].existing = w[s].existing
          /\ r # s /\ w[r].name = w[s].name => "gone" \in {w[r].vacuum, w[s].vacuum}
ASSUME NoRobotAssumption == NoRobot \notin Robot
ASSUME SelectionsAssumption == Selections \subseteq Seq(Area)

VARIABLES
    worlds,   \* the registries
    flows,    \* the dialogs
    entries,  \* the config entries
    moved     \* history: dialogs whose robot changed since they chose it

vars == <<worlds, flows, entries, moved>>

Mode == {"vacuum", "vacuum_and_mop"}
Elements(s) == {s[i] : i \in DOMAIN s}
AreaLists == {s \in Selections : Cardinality(Elements(s)) = Len(s)}
Plans == UNION {[areas -> Mode] : areas \in SUBSET Area}
FlowState == [step : {"user", "areas", "plan", "over"}, robot : Robot \cup {NoRobot},
              areas : AreaLists \cup {<<>>}, plans : Plans, index : Nat, offered : SUBSET Mode]
Entry == [robot : Robot, name : Name, areas : AreaLists, plans : Plans, by : Flow]

NoPlans == [a \in {} |-> "vacuum"]
Fresh == [step |-> "user", robot |-> NoRobot, areas |-> <<>>, plans |-> NoPlans,
          index |-> 1, offered |-> {}]
Over == [Fresh EXCEPT !.step = "over"]

Init ==
    /\ worlds \in Worlds /\ flows = [f \in Flow |-> Fresh]
    /\ entries = {} /\ moved = {}

-----------------------------------------------------------------------------
\* _current_vacuum: the chosen identity, if it is still a usable vacuum.
\* (Mutant: the identity alone is enough.)
CurrentVacuum_Unchecked(f) == flows[f].robot
CurrentVacuum(f) ==
    IF VacuumError(worlds[flows[f].robot]) = {} THEN flows[f].robot ELSE NoRobot

\* validate_area_ids: some areas, each once, each mapped to segments.
\* (Mutants: one mapped area is enough; a repeated area is accepted.)
ValidAreas_AnyMapped(w, areas) ==
    Elements(areas) \cap w.mapped # {} /\ Cardinality(Elements(areas)) = Len(areas)
ValidAreas_Repeated(w, areas) == areas # <<>> /\ Elements(areas) \subseteq w.mapped
ValidAreas(w, areas) ==
    /\ areas # <<>> /\ Cardinality(Elements(areas)) = Len(areas)
    /\ Elements(areas) \subseteq w.mapped

\* _area_plan_form: what the selector of the robot can do now, and of that only
\* the mode of the first plan while it is still on offer.
Capable(w) == IF FoundSelector(w) = NoSelector THEN {"vacuum"} ELSE Mode
\* (Mutant: every form offers all modes of the robot.)
Offered_EveryMode(w, areas, plans) == Capable(w)
Offered(w, areas, plans) ==
    IF DOMAIN plans # {} /\ plans[areas[1]] \in Capable(w)
    THEN {plans[areas[1]]} ELSE Capable(w)

\* async_set_unique_id and _abort_if_unique_id_configured(updates): the entry
\* of a configured robot gets its entity id of now, and the flow ends.
\* That Home Assistant also ends a second flow for one robot is not relied on.
IsConfigured(robot) == \E e \in entries : e.robot = robot
AbortConfigured(f, robot) ==
    /\ entries' = {IF e.robot = robot THEN [e EXCEPT !.name = worlds[robot].name] ELSE e :
                      e \in entries}
    /\ flows' = [flows EXCEPT ![f] = Over]

\* The end of async_step_area_plan: validated again, and created.
\* (Mutant: the robot was not configured when it was chosen.)
Finish_Unique(f, plans) ==
    /\ CurrentVacuum(f) # NoRobot
    /\ entries' = entries \cup
          {[robot |-> CurrentVacuum(f), name |-> worlds[CurrentVacuum(f)].name,
            areas |-> flows[f].areas, plans |-> plans, by |-> f]}
    /\ flows' = [flows EXCEPT ![f] = Over]
Finish(f, plans) ==
    \/ /\ CurrentVacuum(f) = NoRobot /\ UNCHANGED entries
       /\ flows' = [flows EXCEPT ![f] = Over]
    \/ /\ CurrentVacuum(f) # NoRobot /\ IsConfigured(CurrentVacuum(f))
       /\ AbortConfigured(f, CurrentVacuum(f))
    \/ /\ CurrentVacuum(f) # NoRobot /\ ~IsConfigured(CurrentVacuum(f))
       /\ entries' = entries \cup
             {[robot |-> CurrentVacuum(f), name |-> worlds[CurrentVacuum(f)].name,
               areas |-> flows[f].areas, plans |-> plans, by |-> f]}
       /\ flows' = [flows EXCEPT ![f] = Over]

-----------------------------------------------------------------------------
FlowStarts(f) ==
    /\ flows[f].step = "over" /\ flows' = [flows EXCEPT ![f] = Fresh]
    /\ UNCHANGED <<worlds, entries, moved>>

\* async_step_user: the vacuum that has the chosen entity id now.
UserPicks(f, robot) ==
    /\ flows[f].step = "user" /\ VacuumError(worlds[robot]) = {}
    /\ IF IsConfigured(robot) THEN AbortConfigured(f, robot)
       ELSE flows' = [flows EXCEPT ![f].step = "areas", ![f].robot = robot] /\ UNCHANGED entries
    /\ moved' = moved \ {f} /\ UNCHANGED worlds

\* async_step_areas.  That a mapped area still exists is not asked.
AreasChosen(f, areas) ==
    /\ flows[f].step = "areas"
    /\ \/ CurrentVacuum(f) = NoRobot /\ flows' = [flows EXCEPT ![f] = Over]
       \/ /\ CurrentVacuum(f) # NoRobot /\ ValidAreas(worlds[CurrentVacuum(f)], areas)
          /\ flows' = [flows EXCEPT ![f] =
                [@ EXCEPT !.step = "plan", !.areas = areas, !.plans = NoPlans, !.index = 1,
                          !.offered = Offered(worlds[flows[f].robot], areas, NoPlans)]]
    /\ UNCHANGED <<worlds, entries, moved>>

\* Whether the plan just given was not the last one.
\* (Mutant: the last area is forgotten.)
MorePlans_OneShort(f) == flows[f].index + 1 < Len(flows[f].areas)
MorePlans(f) == flows[f].index < Len(flows[f].areas)

\* The plans once the area that is asked for has the mode.
PlansWith(f, mode) ==
    LET area == flows[f].areas[flows[f].index]
        old == flows[f].plans
    IN [a \in DOMAIN old \cup {area} |-> IF a = area THEN mode ELSE old[a]]

\* async_step_area_plan: a mode the shown form accepts.
PlanGiven(f, mode) ==
    /\ flows[f].step = "plan" /\ mode \in flows[f].offered
    /\ IF MorePlans(f)
       THEN /\ flows' = [flows EXCEPT ![f] =
                  [flows[f] EXCEPT !.plans = PlansWith(f, mode), !.index = flows[f].index + 1,
                                   !.offered = Offered(worlds[flows[f].robot], flows[f].areas,
                                                       PlansWith(f, mode))]]
            /\ UNCHANGED entries
       ELSE Finish(f, PlansWith(f, mode))
    /\ UNCHANGED <<worlds, moved>>

\* The dialog is opened again: the form is made anew.
FormRefreshed(f) ==
    /\ flows[f].step = "plan"
    /\ flows' = [flows EXCEPT ![f].offered =
                    Offered(worlds[flows[f].robot], flows[f].areas, flows[f].plans)]
    /\ UNCHANGED <<worlds, entries, moved>>

\* A malformed plan aborts, and the user may close the dialog at any form.
FlowAborts(f) ==
    /\ flows[f].step # "over" /\ flows' = [flows EXCEPT ![f] = Over]
    /\ UNCHANGED <<worlds, entries, moved>>

EntryRemoved(e) ==
    entries' = entries \ {e} /\ UNCHANGED <<worlds, flows, moved>>

WorldChanges(w) ==
    /\ w # worlds /\ worlds' = w
    /\ moved' = moved \cup {f \in Flow : /\ flows[f].robot # NoRobot
                                         /\ w[flows[f].robot] # worlds[flows[f].robot]}
    /\ UNCHANGED <<flows, entries>>

Next ==
    \/ \E f \in Flow :
          \/ FlowStarts(f) \/ FormRefreshed(f) \/ FlowAborts(f)
          \/ \E robot \in Robot : UserPicks(f, robot)
          \/ \E areas \in Selections : AreasChosen(f, areas)
          \/ \E mode \in Mode : PlanGiven(f, mode)
    \/ \E e \in entries : EntryRemoved(e)
    \/ \E w \in Worlds : WorldChanges(w)

Spec == Init /\ [][Next]_vars

-----------------------------------------------------------------------------
(* Properties.                                                             *)

TypeOK ==
    /\ worlds \in Worlds /\ flows \in [Flow -> FlowState]
    /\ entries \in SUBSET Entry /\ moved \in SUBSET Flow

\* One planner per robot: whatever dialogs are open at once and however the
\* robot is renamed meanwhile, no two entries have the same registry identity.
OneEntryPerVacuum == \A e, d \in entries : e.robot = d.robot => e = d

\* An entry has exactly one plan for each of its areas, which are distinct.
PlansCoverAreas ==
    \A e \in entries :
        /\ DOMAIN e.plans = Elements(e.areas)
        /\ Cardinality(DOMAIN e.plans) = Len(e.areas) /\ e.areas # <<>>

Created == {e \in entries' : ~\E d \in entries : d.robot = e.robot /\ d.by = e.by}

\* The dialog ends in an entry only for a vacuum that is usable at that moment,
\* stored under the entity id it has at that moment, though it was chosen
\* several forms earlier.
CreatedOnLiveRobot ==
    [][\A e \in Created : VacuumError(worlds[e.robot]) = {} /\ e.name = worlds[e.robot].name]_vars

\* The checks of the dialog are those of the setup but for one: unless the robot
\* changed under the dialog, the setup of the new entry finds no topology issue
\* other than an area that is mapped and no longer exists.
CreatedIsUsable ==
    [][\A e \in Created : e.by \notin moved =>
          TopologyIssues(worlds[e.robot], Elements(e.areas),
                         "vacuum_and_mop" \in {e.plans[a] : a \in DOMAIN e.plans},
                         FoundSelector(worlds[e.robot]))
          = IF Elements(e.areas) \subseteq worlds[e.robot].existing THEN {}
            ELSE {"removed_areas"}]_vars

\* The plans of an entry share one mode, the batch mode of the robot, whatever
\* happens to the robot between the forms.  The exception: a selector lost after
\* a first plan with mop takes that mode off the later forms.
OneBatchMode ==
    [][\A e \in Created : e.by \notin moved \/ e.plans[e.areas[1]] = "vacuum" =>
          Cardinality({e.plans[a] : a \in DOMAIN e.plans}) = 1]_vars

\* A dialog past its first form has its robot; a dialog that asks for plans has
\* them for the areas before the one it asks for.
InOrder(F) ==
    /\ F.step \in {"areas", "plan"} => F.robot \in Robot
    /\ F.step = "plan" =>
          /\ F.areas # <<>> /\ F.index \in 1 .. Len(F.areas)
          /\ DOMAIN F.plans = {F.areas[i] : i \in 1 .. F.index - 1}
PlansInOrder == \A f \in Flow : InOrder(flows[f])
\* Unless its robot changed, what a dialog has been told is what the robot can
\* do, and all its plans have the mode that the form offers.
Current(F, w) ==
    /\ Elements(F.areas) \subseteq w.mapped
    /\ F.offered \subseteq Capable(w)
    /\ \A a \in DOMAIN F.plans : F.plans[a] \in Capable(w) /\ F.offered = {F.plans[a]}
ChosenIsCurrent ==
    \A f \in Flow \ moved :
        flows[f].step = "plan" => Current(flows[f], worlds[flows[f].robot])

\* A batch that began without mop goes on without it: no robot loses "vacuum".
Steady(F) ==
    F.step = "plan" /\ DOMAIN F.plans # {} /\ F.plans[F.areas[1]] = "vacuum" =>
        F.offered = {"vacuum"} /\ \A a \in DOMAIN F.plans : F.plans[a] = "vacuum"
VacuumStays == \A f \in Flow : Steady(flows[f])

\* The inductive invariant.
FlowInv ==
    /\ TypeOK /\ OneEntryPerVacuum /\ PlansCoverAreas
    /\ PlansInOrder /\ ChosenIsCurrent /\ VacuumStays
===============================================================================
