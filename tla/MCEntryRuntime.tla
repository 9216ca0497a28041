---------------------------- MODULE MCEntryRuntime ----------------------------
(* A good world, the worlds that one event makes of it, and store files.   *)
EXTENDS EntryRuntime

CONSTANTS area, oldName, newName, sel

Good == [vacuum |-> "ready", name |-> oldName, mapped |-> {area}, existing |-> {area},
         selector |-> sel]
MCWorlds ==
    {Good, [Good EXCEPT !.vacuum = "gone"], [Good EXCEPT !.vacuum = "incapable"],
     [Good EXCEPT !.name = newName], [Good EXCEPT !.mapped = {}],
     [Good EXCEPT !.existing = {}], [Good EXCEPT !.selector = NoSelector]}

\* One world for each way to lose the topology: no vacuum, no area, no selector.
EntryWorlds ==
    {Good, [Good EXCEPT !.vacuum = "gone"], [Good EXCEPT !.existing = {}],
     [Good EXCEPT !.selector = NoSelector]}

\* What a waiting call copied and how far a dispatch has come is never read again
\* once the topology is latched: both are refused, and all this runtime does
\* with them is to drop them.
WithoutRefused ==
    <<world, planning, edited, phase, seen, issues, file, state, rt, held,
      IF Runs /\ ~rt.topo THEN <<"no", <<>>>> ELSE <<starting, waiting>>, latch, owed,
      unheard>>

\* No file, ambiguous work of the first schema, a later schema, and a plan of a
\* schema that is not migrated.
Canon(work) == Serialize([mode |-> "vacuum_and_mop", work |-> work])
MCStored ==
    {NoFile, [Canon("active") EXCEPT !.queue = "v0"],
     [Canon("idle") EXCEPT !.root = "v2"], [Canon("idle") EXCEPT !.plan = "v0"]}
===============================================================================
