------------------------------ MODULE LaneWork ------------------------------
(***************************************************************************)
(* What the open work of one lane may become, as anyone outside sees it:   *)
(* without blocks, handlers, coordinator, store, registries or options.    *)
(* LaneDispatch, which has the inside of a dispatch, and EntryRuntime,     *)
(* which sees of a dispatch only this, both implement it.                  *)
(***************************************************************************)

VARIABLES
    work,      \* the open work of the lane, "down" while no runtime has it
    latched    \* the runtime takes no more commands

lvars == <<work, latched>>

\* Nothing open, a sealed block, work that may be outside, quarantined work, a
\* running block whose job an operator failed, and that block quarantined.
Quiet == {"idle", "sealed", "uncertain", "stranded"}
OpenWork == Quiet \cup {"active", "resumed"}

LaneInit == work = "down" /\ latched = FALSE

\* A runtime begins with recovered work only, or latched from the start.
Begins == work = "down" /\ work' \in Quiet /\ latched' \in BOOLEAN
\* Whoever runs it: commands plan, drop and claim work, and resolve a doubt.
\* Nothing but a later recovery moves work that was resumed or is stranded.
CommandEdge ==
    {<<"idle", "sealed">>, <<"sealed", "idle">>, <<"sealed", "active">>,
     <<"uncertain", "idle">>, <<"uncertain", "resumed">>}
Commands == ~latched /\ <<work, work'>> \in CommandEdge /\ UNCHANGED latched
\* What comes back from the vacuum: an outcome or a doubt, latched or not.
ReportEdge == {<<"active", "idle">>, <<"active", "uncertain">>}
Reports == <<work, work'>> \in ReportEdge /\ UNCHANGED latched
\* The topology is lost, for the rest of this runtime's life.
Latches == work # "down" /\ ~latched /\ latched' = TRUE /\ UNCHANGED work
Ends == work # "down" /\ work' = "down" /\ latched' = FALSE

LaneNext == Begins \/ Commands \/ Reports \/ Latches \/ Ends
LaneSpec == LaneInit /\ [][LaneNext]_lvars
=============================================================================
