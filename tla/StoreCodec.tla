------------------------------ MODULE StoreCodec ------------------------------
(***************************************************************************)
(* The versioned JSON payload of the store file and its codec.  A payload  *)
(* keeps what the codec distinguishes: the schema versions of its three    *)
(* envelopes, the two retired values it migrates, whether every optional   *)
(* key is there, the part that a type check or a domain constructor would  *)
(* refuse, and the state it carries.                                       *)
(***************************************************************************)

\* The versions 0 and 1 are known, 2 stands for every later integer and
\* "other" for anything that is not a known integer.
Version == {"v0", "v1", "v2", "other"}
\* What the ledger says of the lane, whose blocks are one open block at most:
\* nothing open, a sealed block, work that may be outside, quarantined work, a
\* running block whose job an operator failed, and that block quarantined.
Work == {"idle", "sealed", "active", "uncertain", "resumed", "stranded"}
PreferredMode == {"vacuum", "vacuum_and_mop"}

\* PlannerState, and its payload.
State == [mode : PreferredMode, work : Work]
Payload == [root : Version, plan : Version, queue : Version,
            mode : PreferredMode \cup {"automatic"}, kind : {"scheduled", "adhoc"},
            full : BOOLEAN, flaw : {"none", "root", "plan", "queue"}, work : Work]

\* serialize_planner_state: every envelope and key of the current schema.
Serialize(s) ==
    [root |-> "v1", plan |-> "v1", queue |-> "v1", mode |-> s.mode,
     kind |-> "scheduled", full |-> TRUE, flaw |-> "none", work |-> s.work]

\* What deserialize_planner_state raises first, in its order: the root and the
\* ledger are migrated from version 0, the plan revision is not.
Refusal(p) ==
    CASE p.root \notin {"v0", "v1"} -> p.root
      [] p.root \in {"v0", "v1"} /\ p.flaw = "root" -> "value"
      [] p.root \in {"v0", "v1"} /\ p.flaw # "root" /\ p.plan # "v1" -> p.plan
      [] p.root \in {"v0", "v1"} /\ p.plan = "v1" /\ p.flaw = "plan" -> "value"
      [] p.root \in {"v0", "v1"} /\ p.plan = "v1" /\ p.flaw \notin {"root", "plan"} ->
             IF p.queue \notin {"v0", "v1"} THEN p.queue
             ELSE IF p.flaw = "queue" THEN "value" ELSE "none"
Readable(p) == Refusal(p) = "none"

\* store_issue_condition: only a later integer version is a future store.
\* (Mutant: the error itself stands for the condition.)
StoreIssue_Raw(p) == Refusal(p)
StoreIssue(p) == IF Refusal(p) = "v2" THEN "future_store" ELSE "corrupt_store"

\* _room_load and _block_load canonicalise the retired policy and block kind.
Deserialize(p) ==
    [mode |-> IF p.mode = "automatic" THEN "vacuum" ELSE p.mode, work |-> p.work]

\* PlannerStore.async_load rewrites a payload that is not the canonical one.
Canonical(p) == Readable(p) /\ p = Serialize(Deserialize(p))
===============================================================================
