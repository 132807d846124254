--------------------------- MODULE ConcurrentOutbox ---------------------------
(***************************************************************************)
(* What the outbox of a collection promises when several writers commit to *)
(* it at the same time (the PostGIS driver): OutboxLog without the promise *)
(* that sequences become visible in order.  A commit still changes the     *)
(* stored features and adds the obligations for them in a single step, no  *)
(* sequence is used twice, and the obligations of any one feature are in   *)
(* the order of its changes.                                               *)
(*                                                                         *)
(* The extents that obligations record are no part of it (an unguarded     *)
(* write of that driver can record an older one), and neither is pruning,  *)
(* which the driver leaves to the consumers' retention.                    *)
(***************************************************************************)
EXTENDS Naturals

CONSTANTS
    Features,    \* feature ids of the collection
    Absent       \* no stored feature

VARIABLES
    stored,    \* the stored features, as any reader sees them
    outbox     \* the obligations any reader sees

contractVars == <<stored, outbox>>

(***************************************************************************)
(* The obligations for changes of f.  Deleting a feature that is not there *)
(* leaves an obligation too, but one that announces no change.             *)
(***************************************************************************)
ChangesOf(f, obligations) == {o \in obligations : o.fid = f /\ o.wrote}

SequencesUnused(new) ==
    \A o \in new, p \in outbox \cup new : p # o => p.seq # o.seq

InOrderPerFeature(new) ==
    \A o \in new : o.wrote => \A p \in ChangesOf(o.fid, outbox) : p.seq < o.seq

OthersAreTombstones(new) == \A o \in new : o.wrote \/ o.current = Absent

(***************************************************************************)
(* The newest new obligation of a feature describes it after the step; a   *)
(* feature without a new one is as it was.                                 *)
(***************************************************************************)
After(new, f, content) ==
    \/ ChangesOf(f, new) = {} /\ content = stored[f]
    \/ \E o \in ChangesOf(f, new) :
          /\ \A p \in ChangesOf(f, new) : p # o => p.seq < o.seq
          /\ content = o.current

Init == stored = [f \in Features |-> Absent] /\ outbox = {}

Commit(new) ==
    /\ SequencesUnused(new) /\ InOrderPerFeature(new) /\ OthersAreTombstones(new)
    /\ outbox' = outbox \cup new
    /\ DOMAIN stored' = Features
    /\ \A f \in Features : After(new, f, stored'[f])

Next == Commit(outbox' \ outbox)

Spec == Init /\ [][Next]_contractVars
=============================================================================
