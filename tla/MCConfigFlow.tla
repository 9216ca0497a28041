----------------------------- MODULE MCConfigFlow -----------------------------
(* Two robots that may swap their names; the first one also changes, and   *)
(* the second area may be removed while the robots still map it.           *)
EXTENDS ConfigFlow

CONSTANTS r1, r2, a1, a2, n1, n2, sel

View(vacuum, name, mapped, existing, selector) ==
    [vacuum |-> vacuum, name |-> name, mapped |-> mapped, existing |-> existing,
     selector |-> selector]
Names == {<<n1, n2>>, <<n2, n1>>}
First(name, areas) ==
    {View("ready", name, {a1, a2}, areas, sel), View("ready", name, {a1}, areas, sel),
     View("ready", name, {a1, a2}, areas, NoSelector),
     View("gone", name, {a1, a2}, areas, NoSelector)}
WorldsWith(areas, mine, others) ==
    {[r \in Robot |-> IF r = r1 THEN first ELSE View("ready", others, {a2}, areas, NoSelector)] :
        first \in First(mine, areas)}
MCWorlds ==
    UNION {WorldsWith(areas, n[1], n[2]) : n \in Names, areas \in {{a1, a2}, {a1}}}
MCSelections == {<<>>, <<a1, a2>>, <<a2, a1>>, <<a2>>, <<a2, a2>>}
===============================================================================
