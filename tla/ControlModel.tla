------------------------------ MODULE ControlModel ------------------------------
(***************************************************************************)
(* The data of the control plane (tellurion-core/src/control_model.rs):    *)
(* snapshots, change sets and what applying one does.                      *)
(*                                                                         *)
(* The configuration is kept as one value per resource: a tenant, catalog  *)
(* or collection, or the settings of the platform.  Role bindings are kept *)
(* as the set of administrators.                                           *)
(***************************************************************************)
EXTENDS Naturals, Sequences

CONSTANTS
    Resources,   \* resource keys, the platform's among them
    Platform,    \* the key of the platform's settings
    Values,      \* what a resource can be
    Gone,        \* not there: never created, or permanently deleted
    Actors,      \* principals
    Keys,        \* idempotency keys
    NoKey,       \* the change carries no key
    AnyVersion,  \* the change names no expected entity version
    SeedSnapshot,   \* the snapshot of the bootstrap
    Bootstrapper \* who bootstraps

Snapshots ==
    [value : [Resources -> Values \cup {Gone}], tombs : SUBSET Resources,
     admins : SUBSET Actors]

LedgerAssumption ==
    /\ Platform \in Resources /\ Gone \notin Values
    /\ NoKey \notin Keys /\ AnyVersion \notin Nat
    /\ Resources \cap Actors = {}
    /\ SeedSnapshot \in Snapshots

(***************************************************************************)
(* One operation of a change set.  An import replaces every value.         *)
(***************************************************************************)
Operations ==
    [kind : {"set", "put", "create"}, on : Resources, to : Values]
        \cup [kind : {"tombstone", "delete"}, on : Resources]
        \cup [kind : {"grant", "revoke"}, on : Actors]
        \cup [kind : {"import"}, to : [Resources -> Values \cup {Gone}]]

Changes ==
    [op : Operations, expected : Nat \cup {AnyVersion}, key : Keys \cup {NoKey}]

NoChanges == [op |-> [kind |-> "bootstrap"], expected |-> AnyVersion, key |-> NoKey]

(***************************************************************************)
(* The resource whose entity version an operation checks and moves.        *)
(***************************************************************************)
Target(op) == IF op.kind = "import" THEN Platform ELSE op.on

(***************************************************************************)
(* What the route of an operation asks of the snapshot it is checked       *)
(* against: an edited resource is there, a created one is not, a deleted   *)
(* one is tombstoned.                                                      *)
(***************************************************************************)
IntentHolds(s, op) ==
    /\ op.kind \in {"set", "put", "tombstone"} => s.value[op.on] # Gone
    /\ op.kind = "create" => s.value[op.on] = Gone
    /\ op.kind = "delete" => op.on \in s.tombs

(***************************************************************************)
(* apply_operation on the three parts of a snapshot.                       *)
(***************************************************************************)
Applied(s, op) ==
    [value |->
        CASE op.kind = "import" -> op.to
          [] op.kind \in {"set", "put", "create"} -> [s.value EXCEPT ![op.on] = op.to]
          [] op.kind = "delete" -> [s.value EXCEPT ![op.on] = Gone]
          [] OTHER -> s.value,
     tombs |->
        CASE op.kind = "tombstone" -> s.tombs \cup {op.on}
          [] op.kind = "delete" -> s.tombs \ {op.on}
          [] OTHER -> s.tombs,
     admins |->
        CASE op.kind = "grant" -> s.admins \cup {op.on}
          [] op.kind = "revoke" -> s.admins \ {op.on}
          [] OTHER -> s.admins]

ValidSnapshot(s) ==
    /\ s.value[Platform] # Gone
    /\ \A k \in s.tombs : s.value[k] # Gone

Entry == [snap : Snapshots, by : Actors \cup {Bootstrapper}, changes : Changes \cup {NoChanges}]
=============================================================================
