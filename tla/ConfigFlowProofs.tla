--------------------------- MODULE ConfigFlowProofs ---------------------------
(***************************************************************************)
(* Theorems about ConfigFlow, for every set of robots, dialogs, worlds and *)
(* area lists.                                                             *)
(***************************************************************************)
EXTENDS ConfigFlow, FiniteSetTheorems, TLAPS

LEMMA FreshTyped ==
    /\ Fresh \in FlowState /\ Over \in FlowState
    /\ Fresh.step = "user" /\ Over.step = "over"
<1>1. NoPlans \in Plans BY DEF NoPlans, Plans, Mode
<1> QED BY <1>1 DEF Fresh, Over, FlowState

\* What one dialog does to itself alone.
LEMMA FlowTyped ==
    ASSUME TypeOK, NEW f \in Flow, NEW F \in FlowState, flows' = [flows EXCEPT ![f] = F]
    PROVE  /\ flows' \in [Flow -> FlowState] /\ flows'[f] = F
           /\ \A g \in Flow : g # f => flows'[g] = flows[g]
BY DEF TypeOK

\* A dialog that moves to a state in order keeps the invariants of all dialogs.
LEMMA OneDialogMoves ==
    ASSUME TypeOK, PlansInOrder, ChosenIsCurrent, VacuumStays, NEW f \in Flow,
           NEW F \in FlowState, flows' = [flows EXCEPT ![f] = F], UNCHANGED worlds,
           moved' \cup {f} = moved \cup {f}, InOrder(F), Steady(F),
           f \notin moved' /\ F.step = "plan" => Current(F, worlds[F.robot])
    PROVE  PlansInOrder' /\ ChosenIsCurrent' /\ VacuumStays'
<1>1. /\ flows'[f] = F /\ \A g \in Flow : g # f => flows'[g] = flows[g]
  BY FlowTyped
<1>2. \A g \in Flow : g # f => (g \in moved' <=> g \in moved) OBVIOUS
<1>3. PlansInOrder' BY <1>1 DEF PlansInOrder
<1>4. ChosenIsCurrent' BY <1>1, <1>2 DEF ChosenIsCurrent
<1>5. VacuumStays' BY <1>1 DEF VacuumStays
<1> QED BY <1>3, <1>4, <1>5

\* A dialog that ends.
LEMMA DialogEnds ==
    ASSUME FlowInv, NEW f \in Flow, flows' = [flows EXCEPT ![f] = Over],
           UNCHANGED worlds, moved' \cup {f} = moved \cup {f}, moved' \in SUBSET Flow
    PROVE  flows' \in [Flow -> FlowState] /\ PlansInOrder' /\ ChosenIsCurrent' /\ VacuumStays'
BY FreshTyped, FlowTyped, OneDialogMoves DEF FlowInv, InOrder, Steady

\* The entries when an entry gets the entity id of now.
LEMMA RenameKeepsEntries ==
    ASSUME FlowInv, NEW f \in Flow, NEW robot \in Robot, AbortConfigured(f, robot)
    PROVE  /\ entries' \in SUBSET Entry /\ OneEntryPerVacuum' /\ PlansCoverAreas'
<1> DEFINE Renamed(e) == IF e.robot = robot THEN [e EXCEPT !.name = worlds[robot].name] ELSE e
<1>1. worlds[robot].name \in Name
  BY WorldsAssumption DEF FlowInv, TypeOK, World
<1>2. \A e \in entries : /\ Renamed(e) \in Entry /\ Renamed(e).robot = e.robot
                         /\ Renamed(e).areas = e.areas /\ Renamed(e).plans = e.plans
  BY <1>1 DEF FlowInv, TypeOK, Entry
<1>3. entries' = {Renamed(e) : e \in entries} BY DEF AbortConfigured
<1> HIDE DEF Renamed
<1>4. OneEntryPerVacuum' BY <1>2, <1>3 DEF FlowInv, OneEntryPerVacuum
<1>5. PlansCoverAreas' BY <1>2, <1>3 DEF FlowInv, PlansCoverAreas
<1> QED BY <1>2, <1>3, <1>4, <1>5

LEMMA StartKeeps ==
    ASSUME FlowInv, NEW f \in Flow, FlowStarts(f) \/ FlowAborts(f)
    PROVE  FlowInv'
<1>1. PICK F \in {Fresh, Over} : flows' = [flows EXCEPT ![f] = F]
  BY DEF FlowStarts, FlowAborts
<1>2. F \in FlowState /\ F.step \notin {"areas", "plan"} BY FreshTyped
<1>3. UNCHANGED <<worlds, entries, moved>> BY DEF FlowStarts, FlowAborts
<1>4. PlansInOrder' /\ ChosenIsCurrent' /\ VacuumStays'
  BY <1>1, <1>2, <1>3, OneDialogMoves DEF FlowInv, InOrder, Steady
<1>5. TypeOK' BY <1>1, <1>2, <1>3, FlowTyped DEF FlowInv, TypeOK
<1> QED BY <1>3, <1>4, <1>5 DEF FlowInv, OneEntryPerVacuum, PlansCoverAreas

LEMMA UserKeeps ==
    ASSUME FlowInv, NEW f \in Flow, NEW robot \in Robot, UserPicks(f, robot)
    PROVE  FlowInv'
<1>1. moved' \in SUBSET Flow /\ moved' \cup {f} = moved \cup {f} /\ UNCHANGED worlds
  BY DEF UserPicks, FlowInv, TypeOK
<1>2. CASE IsConfigured(robot)
  <2>1. AbortConfigured(f, robot) BY <1>2 DEF UserPicks
  <2>2. flows' \in [Flow -> FlowState] /\ PlansInOrder' /\ ChosenIsCurrent' /\ VacuumStays'
    BY <1>1, <2>1, DialogEnds DEF AbortConfigured
  <2> QED BY <1>1, <2>1, <2>2, RenameKeepsEntries DEF FlowInv, TypeOK
<1>3. CASE ~IsConfigured(robot)
  <2> DEFINE F == [flows[f] EXCEPT !.step = "areas", !.robot = robot]
  <2>1. flows' = [flows EXCEPT ![f] = F] /\ UNCHANGED entries BY <1>3 DEF UserPicks
  <2>2. F \in FlowState /\ F.step = "areas" /\ F.robot = robot
    BY DEF FlowInv, TypeOK, FlowState
  <2> HIDE DEF F
  <2>3. PlansInOrder' /\ ChosenIsCurrent' /\ VacuumStays'
    BY <1>1, <2>1, <2>2, OneDialogMoves DEF FlowInv, InOrder, Steady
  <2>4. TypeOK' BY <1>1, <2>1, <2>2, FlowTyped DEF FlowInv, TypeOK
  <2> QED BY <2>1, <2>3, <2>4 DEF FlowInv, OneEntryPerVacuum, PlansCoverAreas
<1> QED BY <1>2, <1>3

\* A form offers what the robot can do, and after a first plan without mop
\* nothing else.
LEMMA OfferedTyped ==
    ASSUME NEW w \in World, NEW areas, NEW plans \in Plans
    PROVE  /\ Offered(w, areas, plans) \in SUBSET Mode
           /\ Offered(w, areas, plans) \subseteq Capable(w) /\ Capable(w) \subseteq Mode
           /\ DOMAIN plans # {} /\ plans[areas[1]] = "vacuum" =>
                 Offered(w, areas, plans) = {"vacuum"}
BY DEF Offered, Capable, Mode

LEMMA WorldOfRobot ==
    ASSUME TypeOK, NEW robot \in Robot PROVE worlds[robot] \in World
BY WorldsAssumption DEF TypeOK

\* A dialog that steps from F to G on its own.
LEMMA DialogSteps ==
    ASSUME FlowInv, NEW f \in Flow, NEW G \in FlowState, flows' = [flows EXCEPT ![f] = G],
           UNCHANGED <<worlds, entries, moved>>, InOrder(G), Steady(G),
           f \notin moved /\ G.step = "plan" => Current(G, worlds[G.robot])
    PROVE  FlowInv'
<1>1. PlansInOrder' /\ ChosenIsCurrent' /\ VacuumStays' BY OneDialogMoves DEF FlowInv
<1>2. TypeOK' BY FlowTyped DEF FlowInv, TypeOK
<1> QED BY <1>1, <1>2 DEF FlowInv, OneEntryPerVacuum, PlansCoverAreas

LEMMA AreasKeep ==
    ASSUME FlowInv, NEW f \in Flow, NEW areas \in Selections, AreasChosen(f, areas)
    PROVE  FlowInv'
<1>1. UNCHANGED <<worlds, entries, moved>> BY DEF AreasChosen
<1>2. flows[f] \in FlowState /\ flows[f].step = "areas" /\ flows[f].robot \in Robot
  BY DEF AreasChosen, FlowInv, TypeOK, PlansInOrder, InOrder
<1>3. CASE flows' = [flows EXCEPT ![f] = Over]
  BY <1>1, <1>3, FreshTyped, DialogSteps DEF InOrder, Steady
<1>4. CASE flows' # [flows EXCEPT ![f] = Over]
  <2> DEFINE robot == flows[f].robot
             w == worlds[robot]
             G == [flows[f] EXCEPT !.step = "plan", !.areas = areas,
                                   !.plans = NoPlans, !.index = 1,
                                   !.offered = Offered(w, areas, NoPlans)]
  <2>1. CurrentVacuum(f) # NoRobot /\ ValidAreas(worlds[CurrentVacuum(f)], areas)
        /\ flows' = [flows EXCEPT ![f] = G]
    BY <1>4 DEF AreasChosen
  <2>2. CurrentVacuum(f) = robot BY <2>1 DEF CurrentVacuum
  <2>3. /\ areas # <<>> /\ Cardinality(Elements(areas)) = Len(areas)
        /\ Elements(areas) \subseteq w.mapped
    BY <2>1, <2>2 DEF ValidAreas
  <2>4. areas \in Seq(Area) /\ areas \in AreaLists
    BY <2>3, SelectionsAssumption DEF AreaLists
  <2>5. 1 \in 1 .. Len(areas) BY <2>3, <2>4
  <2>6. /\ NoPlans \in Plans /\ DOMAIN NoPlans = {} /\ w \in World
    <3>1. NoPlans \in Plans BY DEF NoPlans, Plans, Mode
    <3>2. DOMAIN NoPlans = {} BY DEF NoPlans
    <3> QED BY <1>2, <3>1, <3>2, WorldOfRobot DEF FlowInv
  <2>7. /\ Offered(w, areas, NoPlans) \in SUBSET Mode
        /\ Offered(w, areas, NoPlans) \subseteq Capable(w)
    BY <2>6, OfferedTyped
  <2>8. /\ G \in FlowState /\ G.robot = robot /\ G.areas = areas /\ G.plans = NoPlans
        /\ G.index = 1 /\ G.offered = Offered(w, areas, NoPlans) /\ G.step = "plan"
    BY <1>2, <2>4, <2>6, <2>7 DEF FlowState
  <2> HIDE DEF G
  <2>9. InOrder(G) BY <1>2, <2>3, <2>5, <2>6, <2>8 DEF InOrder
  <2>10. Current(G, w) BY <2>3, <2>6, <2>7, <2>8 DEF Current
  <2>11. Steady(G) BY <2>6, <2>8 DEF Steady
  <2> QED BY <1>1, <2>1, <2>8, <2>9, <2>10, <2>11, DialogSteps
<1> QED BY <1>3, <1>4

LEMMA RefreshKeeps ==
    ASSUME FlowInv, NEW f \in Flow, FormRefreshed(f)
    PROVE  FlowInv'
<1> DEFINE F == flows[f]
           w == worlds[F.robot]
           G == [F EXCEPT !.offered = Offered(w, F.areas, F.plans)]
<1>1. /\ F \in FlowState /\ F.step = "plan" /\ F.robot \in Robot
      /\ F.areas # <<>> /\ F.index \in 1 .. Len(F.areas)
      /\ DOMAIN F.plans = {F.areas[i] : i \in 1 .. F.index - 1}
      /\ F.areas \in Seq(Area) /\ F.plans \in Plans
  BY SelectionsAssumption
     DEF FormRefreshed, FlowInv, TypeOK, PlansInOrder, InOrder, FlowState, AreaLists
<1>2. flows' = [flows EXCEPT ![f] = G] /\ UNCHANGED <<worlds, entries, moved>>
  BY DEF FormRefreshed, FlowInv, TypeOK
<1>3. /\ Offered(w, F.areas, F.plans) \in SUBSET Mode
      /\ Offered(w, F.areas, F.plans) \subseteq Capable(w)
  BY <1>1, WorldOfRobot, OfferedTyped DEF FlowInv
<1>4. /\ G \in FlowState /\ G.offered = Offered(w, F.areas, F.plans)
      /\ G.step = F.step /\ G.robot = F.robot /\ G.areas = F.areas /\ G.plans = F.plans
      /\ G.index = F.index
  BY <1>1, <1>3 DEF FlowState
<1>5. ASSUME f \notin moved PROVE Current(G, w)
  <2>1. Current(F, w) BY <1>1, <1>5 DEF FlowInv, ChosenIsCurrent
  <2>2. DOMAIN F.plans # {} => F.areas[1] \in DOMAIN F.plans
    <3>1. Len(F.areas) \in Nat BY <1>1
    <3> QED BY <1>1, <3>1
  <2>3. ASSUME NEW a \in DOMAIN F.plans PROVE Offered(w, F.areas, F.plans) = {F.plans[a]}
    BY <2>1, <2>2 DEF Current, Offered
  <2> HIDE DEF G, F
  <2> QED BY <1>3, <1>4, <2>1, <2>3 DEF Current
<1>6. Steady(G)
  <2>1. DOMAIN F.plans # {} /\ F.plans[F.areas[1]] = "vacuum" =>
          /\ Offered(w, F.areas, F.plans) = {"vacuum"}
          /\ \A a \in DOMAIN F.plans : F.plans[a] = "vacuum"
    BY <1>1, WorldOfRobot, OfferedTyped DEF FlowInv, VacuumStays, Steady
  <2> HIDE DEF G, F
  <2> QED BY <1>4, <2>1 DEF Steady
<1> HIDE DEF G
<1>7. InOrder(G) BY <1>1, <1>4 DEF InOrder
<1> QED BY <1>2, <1>4, <1>5, <1>6, <1>7, DialogSteps

LEMMA WorldKeeps ==
    ASSUME FlowInv, NEW v \in Worlds, WorldChanges(v)
    PROVE  FlowInv'
<1>1. worlds' = v /\ UNCHANGED <<flows, entries>> BY DEF WorldChanges
<1>2. moved' = moved \cup {f \in Flow : /\ flows[f].robot # NoRobot
                                        /\ v[flows[f].robot] # worlds[flows[f].robot]}
  BY DEF WorldChanges
<1>3. TypeOK' BY <1>1, <1>2 DEF FlowInv, TypeOK
<1>4. ASSUME NEW f \in Flow \ moved', flows[f].step = "plan"
      PROVE  Current(flows[f], v[flows[f].robot])
  <2>1. flows[f].robot \in Robot /\ flows[f].robot # NoRobot
    BY <1>4, NoRobotAssumption DEF FlowInv, PlansInOrder, InOrder
  <2>2. f \notin moved /\ v[flows[f].robot] = worlds[flows[f].robot] BY <1>2, <1>4, <2>1
  <2> QED BY <1>4, <2>2 DEF FlowInv, ChosenIsCurrent
<1>5. ChosenIsCurrent' BY <1>1, <1>4 DEF ChosenIsCurrent
<1> QED BY <1>1, <1>3, <1>5
        DEF FlowInv, OneEntryPerVacuum, PlansCoverAreas, PlansInOrder, VacuumStays

LEMMA RemovalKeeps ==
    ASSUME FlowInv, NEW e \in entries, EntryRemoved(e)
    PROVE  FlowInv'
BY DEF FlowInv, EntryRemoved, TypeOK, OneEntryPerVacuum, PlansCoverAreas, PlansInOrder,
       ChosenIsCurrent, VacuumStays

-----------------------------------------------------------------------------
(* The plan of one area, and the last one.                                 *)

\* Different places of a list of areas hold different areas.
LEMMA ListsAreDistinct ==
    ASSUME NEW areas \in AreaLists, NEW i \in 1 .. Len(areas), NEW j \in 1 .. Len(areas),
           areas[i] = areas[j]
    PROVE  i = j
<1> DEFINE S == 1 .. Len(areas)
<1>1. areas \in Seq(Area) /\ Cardinality(Elements(areas)) = Len(areas)
  BY SelectionsAssumption DEF AreaLists
<1>2. Len(areas) \in Nat /\ DOMAIN areas = S BY <1>1
<1>3. IsFiniteSet(S) /\ Cardinality(S) = Len(areas)
  <2>1. /\ IsFiniteSet(1 .. Len(areas))
        /\ Cardinality(1 .. Len(areas)) =
             IF 1 > Len(areas) THEN 0 ELSE Len(areas) - 1 + 1
    BY <1>2, FS_Interval
  <2> QED BY <1>2, <2>1
<1>4. areas \in [S -> Elements(areas)] /\ \A a \in Elements(areas) : \E k \in S : areas[k] = a
  <2>1. Elements(areas) = {areas[k] : k \in S} BY <1>2 DEF Elements
  <2>2. areas = [k \in S |-> areas[k]] BY <1>1, <1>2
  <2> HIDE DEF S
  <2> QED BY <2>1, <2>2
<1>5. areas \in Surjection(S, Elements(areas)) BY <1>4 DEF Surjection
<1>6. areas \in Injection(S, Elements(areas)) BY <1>1, <1>3, <1>5, FS_Surjection
<1> QED BY <1>6 DEF Injection, IsInjective

\* One more area has a plan.  Unless the robot changed, or the batch began with
\* mop, all plans agree.
LEMMA PlansGrow ==
    ASSUME FlowInv, NEW f \in Flow, flows[f].step = "plan", NEW mode \in flows[f].offered
    PROVE  /\ flows[f] \in FlowState /\ flows[f].robot \in Robot /\ mode \in Mode
           /\ flows[f].areas \in AreaLists /\ flows[f].areas \in Seq(Area)
           /\ flows[f].areas # <<>> /\ flows[f].index \in 1 .. Len(flows[f].areas)
           /\ PlansWith(f, mode) \in Plans
           /\ DOMAIN PlansWith(f, mode) = {flows[f].areas[i] : i \in 1 .. flows[f].index}
           /\ f \notin moved =>
                 /\ Current(flows[f], worlds[flows[f].robot])
                 /\ mode \in Capable(worlds[flows[f].robot])
                 /\ \A a \in DOMAIN PlansWith(f, mode) : PlansWith(f, mode)[a] = mode
           /\ PlansWith(f, mode)[flows[f].areas[1]] = "vacuum" =>
                 \A a \in DOMAIN PlansWith(f, mode) : PlansWith(f, mode)[a] = "vacuum"
<1> DEFINE F == flows[f]
           P == PlansWith(f, mode)
           area == F.areas[F.index]
<1>1. /\ F \in FlowState /\ F.step = "plan" /\ F.robot \in Robot
      /\ F.areas # <<>> /\ F.index \in 1 .. Len(F.areas)
      /\ DOMAIN F.plans = {F.areas[i] : i \in 1 .. F.index - 1}
      /\ F.plans \in Plans /\ F.offered \in SUBSET Mode /\ F.areas \in AreaLists \cup {<<>>}
  BY DEF FlowInv, TypeOK, PlansInOrder, InOrder, FlowState
<1>2. F.areas \in AreaLists /\ F.areas \in Seq(Area) /\ mode \in Mode
  BY <1>1, SelectionsAssumption DEF AreaLists
<1>3. area \in Area /\ Len(F.areas) \in Nat BY <1>1, <1>2
<1>4. PICK old \in SUBSET Area : F.plans \in [old -> Mode] BY <1>1 DEF Plans
<1>5. /\ P = [a \in old \cup {area} |-> IF a = area THEN mode ELSE F.plans[a]]
      /\ DOMAIN P = old \cup {area} /\ DOMAIN F.plans = old
  BY <1>4 DEF PlansWith
<1>6. P \in [old \cup {area} -> Mode] BY <1>2, <1>4, <1>5
<1>7. P \in Plans
  <2>1. old \cup {area} \in SUBSET Area BY <1>3
  <2> QED BY <1>6, <2>1 DEF Plans
<1>8. DOMAIN P = {F.areas[i] : i \in 1 .. F.index} BY <1>1, <1>3, <1>5
<1>9. ASSUME f \notin moved
      PROVE  /\ Current(F, worlds[F.robot]) /\ mode \in Capable(worlds[F.robot])
             /\ \A a \in DOMAIN P : P[a] = mode
  <2>1. Current(F, worlds[F.robot]) BY <1>1, <1>9 DEF FlowInv, ChosenIsCurrent
  <2>2. mode \in Capable(worlds[F.robot]) BY <2>1 DEF Current
  <2>3. \A a \in old : F.plans[a] = mode BY <1>5, <2>1 DEF Current
  <2> QED BY <1>5, <2>1, <2>2, <2>3
<1>10. ASSUME P[F.areas[1]] = "vacuum" PROVE \A a \in DOMAIN P : P[a] = "vacuum"
  <2>1. CASE F.index = 1
    <3>1. old = {} BY <1>1, <1>5, <2>1
    <3> QED BY <1>5, <1>10, <2>1, <3>1
  <2>2. CASE F.index # 1
    <3>1. 1 \in 1 .. F.index - 1 /\ 1 \in 1 .. Len(F.areas) BY <1>1, <1>3, <2>2
    <3>2. F.areas[1] \in old BY <1>1, <1>5, <3>1
    <3>3. F.areas[1] # area BY <1>1, <1>2, <2>2, <3>1, ListsAreDistinct
    <3>4. F.plans[F.areas[1]] = "vacuum" BY <1>5, <1>10, <3>2, <3>3
    <3>5. F.offered = {"vacuum"} /\ \A a \in old : F.plans[a] = "vacuum"
      BY <1>1, <1>5, <3>2, <3>4 DEF FlowInv, VacuumStays, Steady
    <3> QED BY <1>5, <3>5
  <2> QED BY <2>1, <2>2
<1> QED BY <1>1, <1>2, <1>7, <1>8, <1>9, <1>10

\* The next form after a plan.
LEMMA NextFormKeeps ==
    ASSUME FlowInv, NEW f \in Flow, NEW mode \in Mode, PlanGiven(f, mode), MorePlans(f)
    PROVE  FlowInv'
<1> DEFINE F == flows[f]
           P == PlansWith(f, mode)
           w == worlds[F.robot]
           G == [F EXCEPT !.plans = P, !.index = F.index + 1, !.offered = Offered(w, F.areas, P)]
<1>1. F.step = "plan" /\ mode \in F.offered BY DEF PlanGiven
<1>2. /\ F \in FlowState /\ F.robot \in Robot /\ mode \in Mode
      /\ F.areas \in AreaLists /\ F.areas \in Seq(Area)
      /\ F.areas # <<>> /\ F.index \in 1 .. Len(F.areas) /\ P \in Plans
      /\ DOMAIN P = {F.areas[i] : i \in 1 .. F.index}
      /\ f \notin moved => /\ Current(F, w) /\ mode \in Capable(w)
                           /\ \A a \in DOMAIN P : P[a] = mode
      /\ P[F.areas[1]] = "vacuum" => \A a \in DOMAIN P : P[a] = "vacuum"
  BY <1>1, PlansGrow
<1>3. flows' = [flows EXCEPT ![f] = G] /\ UNCHANGED <<worlds, entries, moved>>
  BY DEF PlanGiven
<1> HIDE DEF P
<1>4. /\ Offered(w, F.areas, P) \in SUBSET Mode /\ Offered(w, F.areas, P) \subseteq Capable(w)
      /\ DOMAIN P # {} /\ P[F.areas[1]] = "vacuum" => Offered(w, F.areas, P) = {"vacuum"}
  BY <1>2, WorldOfRobot, OfferedTyped DEF FlowInv
<1>5. F.index < Len(F.areas) /\ F.index \in Nat /\ Len(F.areas) \in Nat
  BY <1>2 DEF MorePlans
<1>6. /\ G \in FlowState /\ G.offered = Offered(w, F.areas, P)
      /\ G.step = "plan" /\ G.robot = F.robot /\ G.areas = F.areas /\ G.plans = P
      /\ G.index = F.index + 1
  <2>1. Offered(w, F.areas, P) \in SUBSET Mode /\ P \in Plans /\ F.index + 1 \in Nat
    BY <1>2, <1>4, <1>5
  <2>2. F \in FlowState BY <1>2
  <2>3. /\ G \in FlowState /\ G.offered = Offered(w, F.areas, P) /\ G.step = F.step
        /\ G.robot = F.robot /\ G.areas = F.areas /\ G.plans = P /\ G.index = F.index + 1
    <3> DEFINE O == Offered(w, F.areas, P)
               n == F.index + 1
    <3>1. O \in SUBSET Mode /\ n \in Nat /\ P \in Plans BY <2>1
    <3>2. G = [F EXCEPT !.plans = P, !.index = n, !.offered = O] OBVIOUS
    <3> HIDE DEF F, G, O, n
    <3>3. /\ G \in FlowState /\ G.offered = O /\ G.step = F.step
          /\ G.robot = F.robot /\ G.areas = F.areas /\ G.plans = P /\ G.index = n
      BY <2>2, <3>1, <3>2 DEF FlowState
    <3> QED BY <3>3 DEF O, n
  <2> QED BY <1>1, <2>3
<1>7. F.areas[1] \in DOMAIN P BY <1>2, <1>5
<1> HIDE DEF G
<1>8. InOrder(G)
  <2>1. G.index \in 1 .. Len(G.areas) /\ 1 .. G.index - 1 = 1 .. F.index
    BY <1>5, <1>6
  <2> QED BY <1>2, <1>6, <2>1 DEF InOrder
<1>9. ASSUME f \notin moved PROVE Current(G, w)
  <2>1. Offered(w, F.areas, P) = {mode} BY <1>2, <1>7, <1>9 DEF Offered
  <2> QED BY <1>2, <1>6, <1>9, <2>1 DEF Current
<1>10. Steady(G)
  <2> HIDE DEF F
  <2> QED BY <1>2, <1>4, <1>6 DEF Steady
<1> QED BY <1>3, <1>6, <1>8, <1>9, <1>10, DialogSteps

\* What the last form of a dialog does.  An entry that it creates is of the
\* robot that is usable now and has a plan for every area.
LEMMA FinishKeeps ==
    ASSUME FlowInv, NEW f \in Flow, NEW mode \in Mode, PlanGiven(f, mode), ~MorePlans(f)
    PROVE  /\ FlowInv'
           /\ \A e \in entries' \ entries :
                 \/ \E d \in entries : d.robot = e.robot /\ d.by = e.by
                 \/ /\ e.robot = flows[f].robot /\ VacuumError(worlds[e.robot]) = {}
                    /\ e.name = worlds[e.robot].name /\ e.by = f
                    /\ e.areas = flows[f].areas /\ e.plans = PlansWith(f, mode)
<1> DEFINE F == flows[f]
           P == PlansWith(f, mode)
           r == CurrentVacuum(f)
           e0 == [robot |-> r, name |-> worlds[r].name, areas |-> F.areas, plans |-> P,
                  by |-> f]
<1>1. F.step = "plan" /\ mode \in F.offered BY DEF PlanGiven
<1>2. /\ F \in FlowState /\ F.robot \in Robot
      /\ F.areas \in AreaLists /\ F.areas \in Seq(Area)
      /\ F.areas # <<>> /\ F.index \in 1 .. Len(F.areas) /\ P \in Plans
      /\ DOMAIN P = {F.areas[i] : i \in 1 .. F.index}
  BY <1>1, PlansGrow
<1>3. Finish(f, P) /\ UNCHANGED <<worlds, moved>> BY DEF PlanGiven
<1>4. F.index = Len(F.areas) BY <1>2 DEF MorePlans
<1>5. DOMAIN P = Elements(F.areas) /\ Cardinality(DOMAIN P) = Len(F.areas)
  <2>1. F.index = Len(F.areas) /\ DOMAIN F.areas = 1 .. Len(F.areas) BY <1>2, <1>4
  <2>2. DOMAIN P = Elements(F.areas)
    <3> HIDE DEF F, P
    <3> QED BY <1>2, <2>1 DEF Elements
  <2>3. Cardinality(Elements(F.areas)) = Len(F.areas) BY <1>2 DEF AreaLists
  <2> QED BY <2>2, <2>3
<1> HIDE DEF P
<1>6. flows' = [flows EXCEPT ![f] = Over] BY <1>3 DEF Finish, AbortConfigured
<1>7. flows' \in [Flow -> FlowState] /\ PlansInOrder' /\ ChosenIsCurrent' /\ VacuumStays'
  BY <1>3, <1>6, DialogEnds DEF FlowInv, TypeOK
<1>8. CASE entries' = entries
  BY <1>3, <1>7, <1>8 DEF FlowInv, TypeOK, OneEntryPerVacuum, PlansCoverAreas
<1>9. CASE r # NoRobot /\ IsConfigured(r) /\ AbortConfigured(f, r)
  <2>1. r \in Robot BY <1>2, <1>9 DEF CurrentVacuum
  <2>2. FlowInv'
    BY <1>3, <1>7, <1>9, <2>1, RenameKeepsEntries DEF FlowInv, TypeOK
  <2>3. \A e \in entries' : \E d \in entries : d.robot = e.robot /\ d.by = e.by
    BY <1>9 DEF AbortConfigured, FlowInv, TypeOK, Entry
  <2> QED BY <2>2, <2>3
<1>10. CASE r # NoRobot /\ ~IsConfigured(r) /\ entries' = entries \cup {e0}
  <2>1. r \in Robot /\ r = F.robot /\ VacuumError(worlds[r]) = {}
    BY <1>2, <1>10 DEF CurrentVacuum
  <2>2. worlds[r].name \in Name BY <2>1, WorldOfRobot DEF FlowInv, World
  <2>3. e0 \in Entry BY <1>2, <2>1, <2>2 DEF Entry
  <2>4. /\ e0.robot = r /\ e0.areas = F.areas /\ e0.plans = P /\ e0.by = f
        /\ e0.name = worlds[r].name
    OBVIOUS
  <2> HIDE DEF e0
  <2>5. OneEntryPerVacuum' BY <1>10, <2>4 DEF IsConfigured, FlowInv, OneEntryPerVacuum
  <2>6. PlansCoverAreas' BY <1>2, <1>5, <1>10, <2>4 DEF FlowInv, PlansCoverAreas
  <2>7. TypeOK' BY <1>3, <1>7, <1>10, <2>3 DEF FlowInv, TypeOK
  <2> QED BY <1>7, <1>10, <2>1, <2>4, <2>5, <2>6, <2>7 DEF FlowInv, P
<1> QED BY <1>3, <1>8, <1>9, <1>10 DEF Finish

\* Only a last form creates an entry.
LEMMA OthersCreateNothing ==
    ASSUME FlowInv, Next, ~\E f \in Flow, mode \in Mode : PlanGiven(f, mode),
           NEW e \in entries'
    PROVE  \E d \in entries : d.robot = e.robot /\ d.by = e.by
<1>1. CASE entries' \subseteq entries BY <1>1
<1>2. ASSUME NEW f \in Flow, NEW robot \in Robot, AbortConfigured(f, robot)
      PROVE  \E d \in entries : d.robot = e.robot /\ d.by = e.by
  BY <1>2 DEF AbortConfigured, FlowInv, TypeOK, Entry
<1> QED
  BY <1>1, <1>2 DEF Next, FlowStarts, FormRefreshed, FlowAborts, UserPicks, AreasChosen,
     EntryRemoved, WorldChanges

LEMMA InitFlowInv == Init => FlowInv
<1> SUFFICES ASSUME Init PROVE FlowInv OBVIOUS
<1>1. \A f \in Flow : flows[f] = Fresh BY DEF Init
<1>2. TypeOK BY FreshTyped DEF Init, TypeOK
<1> QED BY <1>1, <1>2, FreshTyped DEF Init, FlowInv, OneEntryPerVacuum, PlansCoverAreas,
       PlansInOrder, InOrder, ChosenIsCurrent, VacuumStays, Steady

LEMMA NextKeepsFlowInv == FlowInv /\ [Next]_vars => FlowInv'
<1> SUFFICES ASSUME FlowInv, [Next]_vars PROVE FlowInv' OBVIOUS
<1>1. ASSUME NEW f \in Flow, NEW mode \in Mode, PlanGiven(f, mode) PROVE FlowInv'
  BY <1>1, NextFormKeeps, FinishKeeps
<1>2. CASE UNCHANGED vars
  BY <1>2 DEF vars, FlowInv, TypeOK, OneEntryPerVacuum, PlansCoverAreas, PlansInOrder,
              ChosenIsCurrent, VacuumStays
<1> QED BY <1>1, <1>2, StartKeeps, UserKeeps, AreasKeep, RefreshKeeps, WorldKeeps,
           RemovalKeeps DEF Next

-----------------------------------------------------------------------------
(* The theorems.                                                           *)

\* The inductive invariant of the config flow.
THEOREM FlowInvariant == Spec => []FlowInv
BY InitFlowInv, NextKeepsFlowInv, PTL DEF Spec

\* Dialogs and entries keep their shapes: the areas of an entry are distinct.
THEOREM TypesHold == Spec => []TypeOK
<1>1. FlowInv => TypeOK BY DEF FlowInv
<1> QED BY <1>1, FlowInvariant, PTL

\* Two dialogs never end in two planners of one robot.
THEOREM RobotsAreUnique == Spec => []OneEntryPerVacuum
<1>1. FlowInv => OneEntryPerVacuum BY DEF FlowInv
<1> QED BY <1>1, FlowInvariant, PTL

\* Every entry has exactly one plan for each of its areas.
THEOREM PlansAreComplete == Spec => []PlansCoverAreas
<1>1. FlowInv => PlansCoverAreas BY DEF FlowInv
<1> QED BY <1>1, FlowInvariant, PTL

\* An entry is created for a robot that is usable at that moment, under the
\* entity id it has then.
THEOREM CreationIsLive == Spec => CreatedOnLiveRobot
<1>1. ASSUME FlowInv, Next, NEW e \in Created
      PROVE  VacuumError(worlds[e.robot]) = {} /\ e.name = worlds[e.robot].name
  <2>1. PICK f \in Flow, mode \in Mode : PlanGiven(f, mode)
    BY <1>1, OthersCreateNothing DEF Created
  <2>2. ~MorePlans(f) BY <1>1, <2>1 DEF PlanGiven, Created
  <2> QED BY <1>1, <2>1, <2>2, FinishKeeps DEF Created
<1>2. FlowInv /\ [Next]_vars =>
        [\A e \in Created : VacuumError(worlds[e.robot]) = {} /\ e.name = worlds[e.robot].name]_vars
  BY <1>1
<1> QED BY <1>2, FlowInvariant, PTL DEF Spec, CreatedOnLiveRobot

\* What a dialog creates.
LEMMA CreatedByDialog ==
    ASSUME FlowInv, Next, NEW e \in Created
    PROVE  \E f \in Flow, mode \in Mode :
              /\ flows[f].step = "plan" /\ mode \in flows[f].offered /\ e.by = f
              /\ e.robot = flows[f].robot /\ VacuumError(worlds[e.robot]) = {}
              /\ e.areas = flows[f].areas /\ e.plans = PlansWith(f, mode)
<1>1. PICK f \in Flow, mode \in Mode : PlanGiven(f, mode)
  BY OthersCreateNothing DEF Created
<1>2. ~MorePlans(f) BY <1>1 DEF PlanGiven, Created
<1>3. flows[f].step = "plan" /\ mode \in flows[f].offered BY <1>1 DEF PlanGiven
<1> QED BY <1>1, <1>2, <1>3, FinishKeeps DEF Created

\* The mode that an undisturbed dialog, or one that began without mop, gave to
\* all areas.  An undisturbed robot has it, and has the areas mapped.
LEMMA CreatedAgrees ==
    ASSUME FlowInv, Next, NEW e \in Created,
           e.by \notin moved \/ e.plans[e.areas[1]] = "vacuum"
    PROVE  \E mode \in Mode :
              /\ {e.plans[a] : a \in DOMAIN e.plans} = {mode}
              /\ e.robot \in Robot /\ VacuumError(worlds[e.robot]) = {}
              /\ Elements(e.areas) # {}
              /\ e.by \notin moved => /\ mode \in Capable(worlds[e.robot])
                                     /\ Elements(e.areas) \subseteq worlds[e.robot].mapped
<1>1. PICK f \in Flow, given \in Mode :
         /\ flows[f].step = "plan" /\ given \in flows[f].offered /\ e.by = f
         /\ e.robot = flows[f].robot /\ VacuumError(worlds[e.robot]) = {}
         /\ e.areas = flows[f].areas /\ e.plans = PlansWith(f, given)
  BY CreatedByDialog
<1> DEFINE F == flows[f]
           mode == IF f \in moved THEN "vacuum" ELSE given
<1>2. /\ F.robot \in Robot /\ F.areas \in Seq(Area) /\ F.areas # <<>>
      /\ F.index \in 1 .. Len(F.areas)
      /\ DOMAIN e.plans = {F.areas[i] : i \in 1 .. F.index}
      /\ \A a \in DOMAIN e.plans : e.plans[a] = mode
      /\ f \notin moved => Current(F, worlds[F.robot]) /\ mode \in Capable(worlds[F.robot])
  <2> DEFINE P == PlansWith(f, given)
  <2>1. /\ F.robot \in Robot /\ F.areas \in Seq(Area) /\ F.areas # <<>>
        /\ F.index \in 1 .. Len(F.areas) /\ DOMAIN P = {F.areas[i] : i \in 1 .. F.index}
        /\ f \notin moved => /\ Current(F, worlds[F.robot])
                             /\ given \in Capable(worlds[F.robot])
                             /\ \A a \in DOMAIN P : P[a] = given
        /\ P[F.areas[1]] = "vacuum" => \A a \in DOMAIN P : P[a] = "vacuum"
    BY <1>1, PlansGrow
  <2>2. e.plans = P /\ e.areas = F.areas /\ e.by = f BY <1>1
  <2> HIDE DEF P, F
  <2> QED BY <2>1, <2>2
<1>3. F.areas[F.index] \in DOMAIN e.plans /\ F.areas[F.index] \in Elements(F.areas)
  <2>1. F.index \in DOMAIN F.areas /\ F.index \in 1 .. F.index BY <1>2
  <2> QED BY <1>2, <2>1 DEF Elements
<1>4. mode \in Mode BY <1>1 DEF Mode
<1> HIDE DEF mode
<1>5. {e.plans[a] : a \in DOMAIN e.plans} = {mode} BY <1>2, <1>3
<1>6. f \notin moved => Elements(F.areas) \subseteq worlds[F.robot].mapped
  BY <1>2 DEF Current
<1> QED BY <1>1, <1>2, <1>3, <1>4, <1>5, <1>6

\* The plans of an entry share one mode, unless the robot changed after the
\* batch began with mop.
THEOREM ModesAgree == Spec => OneBatchMode
<1>1. ASSUME FlowInv, Next, NEW e \in Created,
             e.by \notin moved \/ e.plans[e.areas[1]] = "vacuum"
      PROVE  Cardinality({e.plans[a] : a \in DOMAIN e.plans}) = 1
  BY <1>1, CreatedAgrees, FS_Singleton
<1>2. FlowInv /\ [Next]_vars =>
        [\A e \in Created : e.by \notin moved \/ e.plans[e.areas[1]] = "vacuum" =>
            Cardinality({e.plans[a] : a \in DOMAIN e.plans}) = 1]_vars
  BY <1>1
<1> QED BY <1>2, FlowInvariant, PTL DEF Spec, OneBatchMode

\* The dialog checks what the setup checks, but for the existence of the areas:
\* for nothing else does the setup refuse what an undisturbed dialog created.
THEOREM CreationIsUsable == Spec => CreatedIsUsable
<1>1. ASSUME FlowInv, Next, NEW e \in Created, e.by \notin moved
      PROVE  TopologyIssues(worlds[e.robot], Elements(e.areas),
                            "vacuum_and_mop" \in {e.plans[a] : a \in DOMAIN e.plans},
                            FoundSelector(worlds[e.robot]))
             = IF Elements(e.areas) \subseteq worlds[e.robot].existing THEN {}
               ELSE {"removed_areas"}
  <2> DEFINE w == worlds[e.robot]
  <2>1. PICK mode \in Mode :
           /\ mode \in Capable(w)
           /\ {e.plans[a] : a \in DOMAIN e.plans} = {mode}
           /\ VacuumError(w) = {} /\ Elements(e.areas) # {}
           /\ Elements(e.areas) \subseteq w.mapped
    BY <1>1, CreatedAgrees
  <2>2. MappingError(w, Elements(e.areas)) = {} BY <2>1 DEF MappingError
  <2>3. "vacuum_and_mop" \in {mode} => FoundSelector(w) # NoSelector BY <2>1 DEF Capable
  <2> QED BY <2>1, <2>2, <2>3 DEF TopologyIssues
<1>2. FlowInv /\ [Next]_vars =>
        [\A e \in Created : e.by \notin moved =>
            TopologyIssues(worlds[e.robot], Elements(e.areas),
                           "vacuum_and_mop" \in {e.plans[a] : a \in DOMAIN e.plans},
                           FoundSelector(worlds[e.robot]))
            = IF Elements(e.areas) \subseteq worlds[e.robot].existing THEN {}
              ELSE {"removed_areas"}]_vars
  BY <1>1
<1> QED BY <1>2, FlowInvariant, PTL DEF Spec, CreatedIsUsable
===============================================================================
