------------------------------- MODULE Topology -------------------------------
(***************************************************************************)
(* What Home Assistant's registries and states say of the configured       *)
(* robot, and what the validators of the integration make of it.           *)
(*                                                                         *)
(* A world is one moment of the registries: whether the vacuum is usable,  *)
(* the entity id its registry identity has now, the areas with a non-empty *)
(* list of segments, the areas that exist, and the cleaning-mode selector  *)
(* of its device that is usable (an identity, or NoSelector).              *)
(***************************************************************************)
EXTENDS FiniteSets

CONSTANTS
    Area,        \* area ids
    Name,        \* entity ids the vacuum may have
    Selector,    \* registry identities of cleaning-mode selectors
    NoSelector   \* no selector is usable, or none is bound

ASSUME NoSelectorAssumption == NoSelector \notin Selector

\* "silent" is available, and its state has no supported_features.
Vacuum == {"ready", "unavailable", "incapable", "silent", "gone"}
World == [vacuum : Vacuum, name : Name, mapped : SUBSET Area,
          existing : SUBSET Area, selector : Selector \cup {NoSelector}]

\* The Repairs issues that stand for a topology the planner cannot use.
TopologyIssue == {"missing_registry", "missing_mapping", "lost_capability", "removed_areas"}

\* async_get_valid_vacuum: the entity is registered and available, and
\* supports CLEAN_AREA.
VacuumError(w) ==
    CASE w.vacuum \in {"gone", "unavailable"} -> {"missing_registry"}
      [] w.vacuum \in {"incapable", "silent"} -> {"lost_capability"}
      [] w.vacuum = "ready" -> {}

\* area_mapping and validate_area_ids on the configured areas.
MappingError(w, areas) ==
    IF w.mapped = {} THEN {"missing_mapping"}
    ELSE IF areas = {} \/ ~(areas \subseteq w.mapped) THEN {"removed_areas"} ELSE {}

\* _configured_topology_issues.  "selector" is the usable selector it resolves:
\* the one bound at setup, or the one of the device when none is bound.
TopologyIssues(w, areas, mop, selector) ==
    VacuumError(w)
    \cup (IF VacuumError(w) = {} THEN MappingError(w, areas) ELSE {})
    \cup (IF areas \subseteq w.existing THEN {} ELSE {"removed_areas"})
    \cup (IF mop /\ selector = NoSelector THEN {"lost_capability"} ELSE {})

\* find_dreame_mova_cleaning_mode_entity needs the vacuum's registry entry.
FoundSelector(w) == IF w.vacuum = "gone" THEN NoSelector ELSE w.selector
\* resolve_bound_cleaning_mode_entity: only the identity bound at setup.
BoundSelector(w, bound) == IF w.selector = bound THEN bound ELSE NoSelector
\* _configured_topology_issues finds a selector when none was bound.
LiveSelector(w, bound) ==
    IF bound = NoSelector THEN FoundSelector(w) ELSE BoundSelector(w, bound)

\* _resolve_area_bindings: registered, mapped and existing areas only.
CanBind(w, areas) ==
    w.vacuum # "gone" /\ areas \subseteq w.mapped \cap w.existing

\* NativeAreaAdapter.preflight: the vacuum is available and can clean areas.
PreflightPasses(w) == w.vacuum = "ready"
===============================================================================
