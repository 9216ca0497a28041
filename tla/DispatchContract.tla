-------------------------- MODULE DispatchContract --------------------------
(***************************************************************************)
(* What the dispatch path of one lane promises, without coordinator, store *)
(* or handlers: a block is planned, then either cancelled unsent or        *)
(* claimed; only a claimed block is ever sent to the vacuum, at most once; *)
(* one block at a time is unfinished; an outcome is final.                 *)
(***************************************************************************)
EXTENDS Naturals

CONSTANT Block

VARIABLES
    phase,   \* "none", "planned", "claimed", "done" or "cancelled"
    sent     \* how often the vacuum was asked to clean this block

cvars == <<phase, sent>>

Phase == {"none", "planned", "claimed", "done", "cancelled"}
Unfinished == {b \in Block : phase[b] \in {"planned", "claimed"}}

ContractInit ==
    /\ phase = [b \in Block |-> "none"]
    /\ sent = [b \in Block |-> 0]

Move(b, from, to) ==
    /\ phase[b] = from
    /\ phase' = [phase EXCEPT ![b] = to]

Plan(b) == Unfinished = {} /\ Move(b, "none", "planned") /\ UNCHANGED sent
Drop(b) == Move(b, "planned", "cancelled") /\ UNCHANGED sent
ClaimWork(b) == Move(b, "planned", "claimed") /\ UNCHANGED sent
Finish(b) == Move(b, "claimed", "done") /\ UNCHANGED sent

\* An observation may finish a block while its call is still being prepared.
Send(b) ==
    /\ phase[b] \in {"claimed", "done"} /\ sent[b] = 0
    /\ sent' = [sent EXCEPT ![b] = 1]
    /\ UNCHANGED phase

\* The claim becomes visible together with the call it permits.
ClaimAndSend(b) ==
    /\ Move(b, "planned", "claimed")
    /\ sent[b] = 0 /\ sent' = [sent EXCEPT ![b] = 1]

ContractNext ==
    \E b \in Block : Plan(b) \/ Drop(b) \/ ClaimWork(b) \/ Finish(b)
                     \/ Send(b) \/ ClaimAndSend(b)

ContractSpec == ContractInit /\ [][ContractNext]_cvars
=============================================================================
