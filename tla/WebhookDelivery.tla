---------------------------- MODULE WebhookDelivery ----------------------------
(***************************************************************************)
(* Webhook delivery of one collection in one server process: the delivery  *)
(* tasks that drain the outbox on a cursor per subscription                *)
(* (tellurion-core's webhooks.rs), the manager that binds them again when  *)
(* the configuration changes (tellurion-server's webhook_consumer.rs), and *)
(* the retention task whose floor the cursors hold back.  A running server *)
(* refuses configurations that declare the webhooks otherwise.             *)
(*                                                                         *)
(* A rebind is not atomic: retention reads the registry and the cursors    *)
(* while it runs.  A declared subscription without its secret is as good   *)
(* as undeclared.  A failed attempt may have reached the receiver; only    *)
(* attempts answered with success count as delivered.  The other consumers *)
(* of the outbox can only lower the retention floor.                       *)
(***************************************************************************)
EXTENDS OutboxLog

CONSTANTS
    Subs,          \* subscription ids
    Declarations,  \* what a subscription can be declared as
    Undeclared,    \* not declared, disabled, or without its secret
    Accepts,       \* per declaration, the operations it accepts
    Matching,      \* which declarations match the collection in which place
    Places,        \* what the collection can be declared as, its catalog
                   \* included: its delivery identity
    Nowhere,
    Rest,          \* the rest of a configuration
    Configs,       \* the configurations that may be loaded
    NoCursor,      \* the collection is not registered with a runtime
    BatchSize,     \* webhook_delivery.batch_size
    MaxAttempts,   \* webhook_delivery.max_attempts
    OtherCursors,  \* where the consumers of another kind may be
    PruneBatch,    \* outbox_retention.prune_batch_size
    MaxRebinds,    \* bound: configuration changes
    MaxRestarts    \* bound: restarts of the process

ASSUME DeclarationsAssumption ==
    /\ Undeclared \notin Declarations /\ Nowhere \notin Places /\ NoCursor \notin Nat
    /\ Accepts \in [Declarations -> SUBSET {"upsert", "delete"}]
    /\ Matching \subseteq Declarations \X Places
    /\ Configs \subseteq [on : BOOLEAN, decl : [Subs -> Declarations \cup {Undeclared}],
                          place : Places, rest : Rest]
ASSUME WebhookBounds ==
    /\ BatchSize \in Nat \ {0} /\ MaxAttempts \in Nat \ {0} /\ PruneBatch \in Nat \ {0}
    /\ OtherCursors \subseteq Nat
    /\ MaxRebinds \in Nat /\ MaxRestarts \in Nat

VARIABLES
    config,    \* the current configuration
    manager,   \* the rebind in progress
    runtime,   \* the subscriptions' runtimes, as the manager holds them
    registry,  \* the subscriptions whose runtimes retention finds
    task,      \* the delivery task of each subscription
    retain,    \* the retention pass
    changes,   \* configuration changes and restarts so far
    sent,      \* history: sequences delivered or dead-lettered
    owed       \* history: sequences a bound subscription has yet to handle

webhookVars == <<config, manager, runtime, registry, task, retain, changes, sent, owed>>
deliveryVars == <<rows, outbox, lastSeq, webhookVars>>

NoRuntime == [decl |-> Undeclared, place |-> Nowhere, cursor |-> NoCursor]
NoTask == [pc |-> "off", batch |-> {}, todo |-> {}, attempt |-> 1]
Idle == [NoTask EXCEPT !.pc = "idle"]
Resting == [pc |-> "idle", booted |-> TRUE, bound |-> config, todo |-> {}, at |-> {}]
Booting == [Resting EXCEPT !.pc = "read", !.booted = FALSE]
NotPruning == [on |-> FALSE, floor |-> 0]

DeliveryInit ==
    /\ LogInit
    /\ config \in Configs
    /\ manager = Booting
    /\ runtime = [s \in Subs |-> NoRuntime]
    /\ registry = {}
    /\ task = [s \in Subs |-> NoTask]
    /\ retain = NotPruning
    /\ changes = [reloads |-> 0, restarts |-> 0]
    /\ sent = [s \in Subs |-> {}]
    /\ owed = [s \in Subs |-> {}]

-----------------------------------------------------------------------------
(***************************************************************************)
(* FeedOperation of an obligation, and what a subscription accepts.        *)
(***************************************************************************)
Operation(o) == IF o.current = Absent THEN "delete" ELSE "upsert"

AcceptedBy(d, o) == d # Undeclared /\ Operation(o) \in Accepts[d]

IsBound(s) == runtime[s].cursor # NoCursor

(***************************************************************************)
(* The cursor retention finds for a subscription.                          *)
(***************************************************************************)
Listed(s) == IF s \in registry THEN runtime[s].cursor ELSE NoCursor

(***************************************************************************)
(* A commit owes its obligation to the subscriptions registered for        *)
(* retention at the time.                                                  *)
(***************************************************************************)
Write(m, rec, gap) ==
    /\ Commit(<<m>>, <<rec>>, gap)
    /\ owed' = [s \in Subs |->
          IF /\ Listed(s) # NoCursor
             /\ \E o \in outbox' \ outbox : AcceptedBy(runtime[s].decl, o)
          THEN owed[s] \cup {lastSeq'} ELSE owed[s]]
    /\ UNCHANGED <<config, manager, runtime, registry, task, retain, changes, sent>>

(***************************************************************************)
(* reject_restart_required_changes: subscriptions and delivery settings    *)
(* are those of the boot; the collection and everything else may change.   *)
(***************************************************************************)
HotSwappable(c) == c.on = config.on /\ c.decl = config.decl

Reload(c) ==
    /\ changes.reloads < MaxRebinds
    /\ c # config /\ HotSwappable(c)
    /\ config' = c
    /\ changes' = [changes EXCEPT !.reloads = @ + 1]
    /\ UNCHANGED <<rows, outbox, lastSeq, manager, runtime, registry, task, retain, sent, owed>>

(***************************************************************************)
(* The process dies and boots on any configuration: runtimes, cursors and  *)
(* dead letters were in memory only.                                       *)
(***************************************************************************)
Restart(c) ==
    /\ changes.restarts < MaxRestarts
    /\ changes' = [changes EXCEPT !.restarts = @ + 1]
    /\ manager' = Booting
    /\ runtime' = [s \in Subs |-> NoRuntime]
    /\ registry' = {}
    /\ task' = [s \in Subs |-> NoTask]
    /\ retain' = NotPruning
    /\ config' = c
    /\ UNCHANGED <<rows, outbox, lastSeq, sent, owed>>

-----------------------------------------------------------------------------
(***************************************************************************)
(* run_manager notices another configuration.  rebind first aborts and     *)
(* joins every delivery task, whatever it was doing, ...                   *)
(***************************************************************************)
StopTasks ==
    /\ manager.pc = "idle" /\ manager.bound # config
    /\ task' = [s \in Subs |-> NoTask]
    /\ manager' = [manager EXCEPT !.pc = "read"]
    /\ UNCHANGED <<rows, outbox, lastSeq, config, runtime, registry, retain, changes, sent, owed>>

(***************************************************************************)
(* ... then reads the configuration.  Delivery disabled: every runtime and *)
(* cursor is dropped.                                                      *)
(***************************************************************************)
TakeConfig ==
    /\ manager.pc = "read"
    /\ IF config.on
       THEN /\ manager' = [manager EXCEPT !.pc = "bind", !.bound = config,
                              !.todo = {s \in Subs : config.decl[s] # Undeclared}]
            /\ UNCHANGED <<runtime, registry, owed>>
       ELSE /\ manager' = Resting
            /\ runtime' = [s \in Subs |-> NoRuntime]
            /\ registry' = {}
            /\ owed' = [s \in Subs |-> {}]
    /\ UNCHANGED <<rows, outbox, lastSeq, config, task, retain, changes, sent>>

SamePlace(s) == runtime[s].place = manager.bound.place

Matches(s) == <<manager.bound.decl[s], manager.bound.place>> \in Matching

(***************************************************************************)
(* A subscription is bound in two steps that retention can come between.   *)
(* First its runtime, a new one after a boot: a collection that no longer  *)
(* matches, or is declared otherwise, loses its cursor.                    *)
(***************************************************************************)
TakeRuntime(s) ==
    /\ manager.pc = "bind" /\ manager.at = {} /\ s \in manager.todo
    /\ manager' = [manager EXCEPT !.todo = @ \ {s}, !.at = {s}]
    /\ runtime' = [runtime EXCEPT ![s].decl = manager.bound.decl[s],
                                  ![s].cursor = IF Matches(s) /\ SamePlace(s)
                                                THEN @ ELSE NoCursor]
    /\ UNCHANGED <<rows, outbox, lastSeq, config, registry, task, retain, changes, sent, owed>>

(***************************************************************************)
(* What a subscription declared as d is owed once retention finds it at    *)
(* `start`: what is in the outbox beyond it and is neither handled nor     *)
(* about to be pruned, and what it was owed before.                        *)
(***************************************************************************)
StillOwed(s, d) ==
    {n \in owed[s] : \A o \in outbox : o.seq = n => AcceptedBy(d, o)}

OwedFrom(s, d, start) ==
    StillOwed(s, d) \cup
    {o.seq : o \in {p \in outbox :
        /\ AcceptedBy(d, p) /\ p.seq > start /\ p.seq \notin sent[s]
        /\ retain.on => p.seq > retain.floor}}

(* Faulty variant: the collection is registered at the high-water mark.    *)
SeedAtHighWater(s) == IF IsBound(s) THEN runtime[s].cursor ELSE PrimaryHighWater

(***************************************************************************)
(* Where a subscription starts: at the cursor it has kept, or at 0, which  *)
(* replays the history that is still there.                                *)
(***************************************************************************)
InitialCursor(s) == IF IsBound(s) THEN runtime[s].cursor ELSE 0

(***************************************************************************)
(* Second the cursor: reconcile_cursor and ensure_collection register the  *)
(* collection, and the delivery task is spawned.                           *)
(***************************************************************************)
RegisterCursor(s) ==
    LET d == manager.bound.decl[s]
    IN  /\ manager.pc = "bind" /\ manager.at = {s}
        /\ manager' = [manager EXCEPT !.at = {}]
        /\ IF Matches(s)
           THEN /\ runtime' = [runtime EXCEPT ![s].cursor = InitialCursor(s),
                                              ![s].place = manager.bound.place]
                /\ task' = [task EXCEPT ![s] = [NoTask EXCEPT !.pc = "resolving"]]
                /\ owed' = [owed EXCEPT ![s] =
                       IF s \in registry THEN OwedFrom(s, d, InitialCursor(s))
                       ELSE StillOwed(s, d)]
           ELSE /\ runtime' = [runtime EXCEPT ![s].place = Nowhere]
                /\ owed' = [owed EXCEPT ![s] = {}]
                /\ UNCHANGED task
        /\ UNCHANGED <<rows, outbox, lastSeq, config, registry, retain, changes, sent>>

(***************************************************************************)
(* The registry is replaced in one step; what is not declared any more is  *)
(* dropped with its cursor.                                                *)
(***************************************************************************)
FinishRebind ==
    LET Kept(s) == manager.bound.decl[s] # Undeclared
    IN  /\ manager.pc = "bind" /\ manager.at = {} /\ manager.todo = {}
        /\ manager' = [Resting EXCEPT !.bound = manager.bound]
        /\ runtime' = [s \in Subs |-> IF Kept(s) THEN runtime[s] ELSE NoRuntime]
        /\ registry' = {s \in Subs : Kept(s)}
        /\ owed' = [s \in Subs |-> IF Kept(s) /\ IsBound(s)
                                   THEN OwedFrom(s, runtime[s].decl, runtime[s].cursor)
                                   ELSE {}]
        /\ UNCHANGED <<rows, outbox, lastSeq, config, task, retain, changes, sent>>

-----------------------------------------------------------------------------
(***************************************************************************)
(* DeliveryPair::run resolves the outbox, retrying until it can.           *)
(***************************************************************************)
ResolveOutbox(s) ==
    /\ task[s].pc = "resolving"
    /\ task' = [task EXCEPT ![s] = Idle]
    /\ UNCHANGED <<rows, outbox, lastSeq, config, manager, runtime, registry, retain,
                   changes, sent, owed>>

(***************************************************************************)
(* drain_once reads a batch after the cursor.                              *)
(***************************************************************************)
ReadBatch(s) ==
    LET batch == ReadAfter(runtime[s].cursor, BatchSize)
    IN  /\ task[s].pc = "idle"
        /\ batch # {}
        /\ task' = [task EXCEPT ![s] = [NoTask EXCEPT !.pc = "deliver", !.batch = batch,
                                                      !.todo = batch]]
        /\ UNCHANGED <<rows, outbox, lastSeq, config, manager, runtime, registry, retain,
                       changes, sent, owed>>

NextUp(todo) == {o \in todo : \A p \in todo : o.seq <= p.seq}

Handled(s, o) ==
    /\ sent' = [sent EXCEPT ![s] = @ \cup {o.seq}]
    /\ owed' = [owed EXCEPT ![s] = @ \ {o.seq}]

Pop(t, o) == [t EXCEPT !.todo = @ \ {o}, !.attempt = 1]

(***************************************************************************)
(* An obligation the subscription does not accept is skipped; the others   *)
(* are posted until the receiver answers with success or the budget is     *)
(* used up, which makes a dead letter.                                     *)
(***************************************************************************)
SkipFiltered(s) ==
    /\ task[s].pc = "deliver"
    /\ \E o \in NextUp(task[s].todo) :
          /\ ~AcceptedBy(runtime[s].decl, o)
          /\ task' = [task EXCEPT ![s] = Pop(@, o)]
    /\ UNCHANGED <<rows, outbox, lastSeq, config, manager, runtime, registry, retain,
                   changes, sent, owed>>

Deliver(s) ==
    /\ task[s].pc = "deliver"
    /\ \E o \in NextUp(task[s].todo) :
          /\ AcceptedBy(runtime[s].decl, o)
          /\ task' = [task EXCEPT ![s] = Pop(@, o)]
          /\ Handled(s, o)
    /\ UNCHANGED <<rows, outbox, lastSeq, config, manager, runtime, registry, retain, changes>>

(* Faulty variant: an attempt that fails is never the last.                *)
RetryForever(s) ==
    /\ task[s].pc = "deliver"
    /\ \E o \in NextUp(task[s].todo) : AcceptedBy(runtime[s].decl, o)
    /\ task' = [task EXCEPT ![s].attempt = 3 - @]
    /\ UNCHANGED <<rows, outbox, lastSeq, config, manager, runtime, registry, retain,
                   changes, sent, owed>>

FailAttempt(s) ==
    /\ task[s].pc = "deliver"
    /\ task[s].attempt < MaxAttempts
    /\ \E o \in NextUp(task[s].todo) : AcceptedBy(runtime[s].decl, o)
    /\ task' = [task EXCEPT ![s].attempt = @ + 1]
    /\ UNCHANGED <<rows, outbox, lastSeq, config, manager, runtime, registry, retain,
                   changes, sent, owed>>

DeadLetter(s) ==
    /\ task[s].pc = "deliver"
    /\ task[s].attempt = MaxAttempts
    /\ \E o \in NextUp(task[s].todo) :
          /\ AcceptedBy(runtime[s].decl, o)
          /\ task' = [task EXCEPT ![s] = Pop(@, o)]
          /\ Handled(s, o)
    /\ UNCHANGED <<rows, outbox, lastSeq, config, manager, runtime, registry, retain, changes>>

Highest(batch) == Max({o.seq : o \in batch})

(***************************************************************************)
(* Only once the whole batch is handled does the cursor advance past it.   *)
(***************************************************************************)
AdvanceCursor(s) ==
    /\ task[s].pc = "deliver" /\ task[s].todo = {}
    /\ runtime' = [runtime EXCEPT ![s].cursor = Highest(task[s].batch)]
    /\ task' = [task EXCEPT ![s] = Idle]
    /\ UNCHANGED <<rows, outbox, lastSeq, config, manager, registry, retain, changes, sent, owed>>

-----------------------------------------------------------------------------
(***************************************************************************)
(* run_retention_consumer, started once the first binding is complete: the *)
(* floor is the least of the registered cursors and the high-water mark,   *)
(* possibly held lower by a consumer of another kind; then one bounded     *)
(* prune.                                                                  *)
(***************************************************************************)
(* Faulty variant: subscriptions are no consumers.                         *)
NoCursors == {}

RegisteredCursors == {Listed(s) : s \in Subs} \ {NoCursor}

GatherCursors(other) ==
    /\ manager.booted /\ ~retain.on
    /\ retain' = [on |-> TRUE,
                  floor |-> Min(RegisteredCursors \cup {PrimaryHighWater, other})]
    /\ UNCHANGED <<rows, outbox, lastSeq, config, manager, runtime, registry, task, changes,
                   sent, owed>>

PruneBefore ==
    /\ retain.on
    /\ Prune(retain.floor, PruneBatch)
    /\ retain' = NotPruning
    /\ UNCHANGED <<config, manager, runtime, registry, task, changes, sent, owed>>

-----------------------------------------------------------------------------
Drain(s) ==
    \/ ResolveOutbox(s)
    \/ ReadBatch(s)
    \/ SkipFiltered(s)
    \/ Deliver(s)
    \/ FailAttempt(s)
    \/ DeadLetter(s)
    \/ AdvanceCursor(s)

Rebind ==
    \/ StopTasks
    \/ TakeConfig
    \/ \E s \in Subs : TakeRuntime(s) \/ RegisterCursor(s)
    \/ FinishRebind

DeliveryNext ==
    \/ \E m \in Mutation, rec \in Recordings, gap \in 0..MaxGap : Write(m, rec, gap)
    \/ \E c \in Configs : Reload(c) \/ Restart(c)
    \/ Rebind
    \/ \E s \in Subs : Drain(s)
    \/ \E other \in OtherCursors : GatherCursors(other)
    \/ PruneBefore

DeliverySpec == DeliveryInit /\ [][DeliveryNext]_deliveryVars

(***************************************************************************)
(* The manager looks at the configuration every 100 ms, a delivery task    *)
(* polls at its interval, and every attempt is answered or times out.      *)
(***************************************************************************)
DeliveryFairness == WF_deliveryVars(Rebind) /\ \A s \in Subs : WF_deliveryVars(Drain(s))

FairDeliverySpec == DeliverySpec /\ DeliveryFairness

-----------------------------------------------------------------------------
(***************************************************************************)
(* Every structure is well formed; the registry never hides a runtime that *)
(* is bound, once no rebind is under way.                                  *)
(***************************************************************************)
DeliveryTypeOK ==
    /\ LogTypeOK
    /\ config \in Configs
    /\ manager \in [pc : {"idle", "read", "bind"}, booted : BOOLEAN, bound : Configs,
                    todo : SUBSET Subs, at : SUBSET Subs]
    /\ runtime \in [Subs -> [decl : Declarations \cup {Undeclared},
                             place : Places \cup {Nowhere}, cursor : Nat \cup {NoCursor}]]
    /\ registry \subseteq Subs
    /\ task \in [Subs -> [pc : {"off", "resolving", "idle", "deliver"},
                          batch : SUBSET Obligation, todo : SUBSET Obligation,
                          attempt : 1..MaxAttempts]]
    /\ retain \in [on : BOOLEAN, floor : Nat]
    /\ changes \in [reloads : 0..MaxRebinds, restarts : 0..MaxRestarts]
    /\ sent \in [Subs -> SUBSET (1..lastSeq)] /\ owed \in [Subs -> SUBSET (1..lastSeq)]
    /\ manager.pc = "idle" => \A s \in Subs : IsBound(s) => s \in registry

(***************************************************************************)
(* Retention removes nothing that a registered subscription has yet to     *)
(* handle, whatever rebinds, restarts and slow receivers come in between,  *)
(* as long as no reload declares its collection otherwise.                 *)
(***************************************************************************)
NothingOwedIsPruned ==
    \A s \in Subs : \A n \in owed[s] : \E o \in outbox : o.seq = n

(***************************************************************************)
(* A cursor never passes what its subscription has yet to handle: an       *)
(* aborted batch, a new runtime or a new place of the outbox resumes       *)
(* before it.                                                              *)
(***************************************************************************)
CursorNeverSkips ==
    \A s \in Subs : IsBound(s) => \A n \in owed[s] : n > runtime[s].cursor

(***************************************************************************)
(* At least once, or loudly not: once writes and rebinds are over, all     *)
(* that a subscription was owed has been delivered or dead-lettered, also  *)
(* if the receiver never answers, unless the subscription was withdrawn.   *)
(***************************************************************************)
EverythingOwedIsHandled == <>[](\A s \in Subs : owed[s] = {})
=============================================================================
