---------------------------- MODULE DeadLetterRing ----------------------------
(***************************************************************************)
(* The dead letters of one webhook subscription (tellurion-core's          *)
(* webhooks.rs) and an operator paging through them: letters arrive and    *)
(* are evicted between two pages, and a rebind may replace the runtime     *)
(* with its ring.  A letter is its ordinal within one generation.          *)
(***************************************************************************)
EXTENDS Naturals, Sequences, FiniteSetsExt

CONSTANTS
    Capacity,    \* webhook_delivery.dead_letter_capacity
    Limit,       \* letters per page
    MaxOrdinal,  \* bound: letters per generation
    MaxReplaced  \* bound: runtimes replaced at a boot

ASSUME RingAssumption ==
    /\ Capacity \in Nat \ {0} /\ Limit \in Nat \ {0}
    /\ MaxOrdinal \in Nat /\ MaxReplaced \in Nat

VARIABLES
    generation,  \* the runtime's generation
    last,        \* the last ordinal given out
    entries,     \* the letters the ring holds, oldest first
    reader       \* the operator: token, letters read, letters owed to it

ringVars == <<generation, last, entries, reader>>

InRing == {entries[i] : i \in 1..Len(entries)}

(***************************************************************************)
(* A token is the generation and the ordinal of the last letter of a page. *)
(* As history, the reader remembers what it has read, and which letters    *)
(* were there when it began and have been there ever since.                *)
(***************************************************************************)
Away == [pc |-> "away", gen |-> 0, after |-> 0, seen |-> {}, stayed |-> {}]

RingInit ==
    /\ generation = 0
    /\ last = 0
    /\ entries = <<>>
    /\ reader = Away

-----------------------------------------------------------------------------
(* A full ring evicts its oldest letter. *)
Kept(ring, n) == Append(IF Len(ring) >= Capacity THEN Tail(ring) ELSE ring, n)

StillThere(r, ring) == [r EXCEPT !.stayed = @ \cap {ring[i] : i \in 1..Len(ring)}]

Push ==
    /\ last < MaxOrdinal
    /\ last' = last + 1
    /\ entries' = Kept(entries, last + 1)
    /\ reader' = StillThere(reader, entries')
    /\ UNCHANGED generation

(* A boot replaces the runtime: another generation, an empty ring. *)
Replace ==
    /\ generation < MaxReplaced
    /\ generation' = generation + 1
    /\ last' = 0
    /\ entries' = <<>>
    /\ reader' = StillThere(reader, <<>>)

-----------------------------------------------------------------------------
(* Faulty variant: the token counts positions of the ring.                 *)
PositionsAfter(n) == {i \in 1..Len(entries) : i > n}

(* The positions of the letters after an ordinal, and the first of them.   *)
Matched(n) == {i \in 1..Len(entries) : entries[i] > n}

FirstOf(matched) == {i \in matched : Cardinality({j \in matched : j < i}) < Limit}

HasMore(matched) == Cardinality(matched) > Limit

(* decode_cursor refuses a token of another generation. *)
Decodes(r) == r.gen = generation

(***************************************************************************)
(* One page: at most Limit letters after the token, and a token for the    *)
(* next page if there are more.                                            *)
(***************************************************************************)
ReadPage(r, after) ==
    LET matched == Matched(after)
        page == FirstOf(matched)
    IN  reader' = [r EXCEPT
            !.pc = IF HasMore(matched) THEN "paging" ELSE "done",
            !.after = IF HasMore(matched) THEN entries[Max(page)] ELSE @,
            !.seen = @ \cup {entries[i] : i \in page}]

FirstPage ==
    /\ reader.pc = "away"
    /\ ReadPage([Away EXCEPT !.gen = generation, !.stayed = InRing], 0)
    /\ UNCHANGED <<generation, last, entries>>

NextPage ==
    /\ reader.pc = "paging"
    /\ Decodes(reader)
    /\ ReadPage(reader, reader.after)
    /\ UNCHANGED <<generation, last, entries>>

(* The operator is done, was refused, or gives up. *)
Leave ==
    /\ reader.pc \in {"paging", "done"}
    /\ reader' = Away
    /\ UNCHANGED <<generation, last, entries>>

RingNext == Push \/ Replace \/ FirstPage \/ NextPage \/ Leave

RingSpec == RingInit /\ [][RingNext]_ringVars

-----------------------------------------------------------------------------
(***************************************************************************)
(* The ring is never over its capacity and holds the newest letters of its *)
(* generation, without a hole: a loss stays visible until Capacity later   *)
(* ones have been recorded.                                                *)
(***************************************************************************)
RingHoldsTheNewest ==
    /\ generation \in 0..MaxReplaced /\ last \in 0..MaxOrdinal
    /\ reader.pc \in {"away", "paging", "done"}
    /\ InRing = (IF last > Capacity THEN last - Capacity + 1 ELSE 1)..last
    /\ Len(entries) = Cardinality(InRing)

(***************************************************************************)
(* An operator that followed the tokens to the end has read every letter   *)
(* that was in the ring from the first page to the last, however many were *)
(* evicted in between.                                                     *)
(***************************************************************************)
NothingThatStayedIsSkipped ==
    reader.pc = "done" => reader.stayed \subseteq reader.seen
=============================================================================
