--------------------------- MODULE MCPostgisWrites ---------------------------
(* Small instances of PostgisWrites for TLC.                               *)
EXTENDS PostgisWrites

NoPre == [kind |-> "none", ok |-> {}]
IfMatch(S) == [kind |-> "ifMatch", ok |-> S]
IfUnmodified(S) == [kind |-> "ifUnmodified", ok |-> S]

At(l, a) == [loc |-> l, attr |-> a]

Single(kind, f, set, pre) ==
    [items |-> <<[kind |-> kind, fid |-> f, set |-> set]>>, pre |-> pre,
     batch |-> FALSE, strict |-> FALSE]

Batch(fs, c, strict) ==
    [items |-> [i \in 1..Len(fs) |-> [kind |-> "upsert", fid |-> fs[i], set |-> c]],
     pre |-> NoPre, batch |-> TRUE, strict |-> strict]

Nothing == [x \in {} |-> "none"]

(* Guarded and unguarded writes of one feature.                            *)
LockingRequests ==
    {Single("insert", "f", At("here", "x"), NoPre),
     Single("upsert", "f", At("there", "x"), NoPre),
     Single("upsert", "f", At("here", "y"), IfMatch({At("here", "x")})),
     Single("upsert", "f", At("there", "y"), IfUnmodified({At("there", "x")})),
     Single("delete", "f", Nothing, NoPre),
     Single("delete", "f", Nothing, IfMatch(Content)),
     Single("merge", "f", [loc |-> "there"], IfMatch(Content)),
     Single("merge", "f", [attr |-> "y"], IfMatch({At("here", "x"), At("there", "x")})),
     Single("merge", "f", [attr |-> "y"], NoPre)}

(* Single writes and batches that meet on two features.                    *)
BatchRequests ==
    {Batch(<<"f", "g">>, At("here", "x"), FALSE),
     Batch(<<"g", "f">>, At("there", "x"), TRUE),
     Batch(<<"f", "f">>, At("there", "x"), FALSE),
     Single("upsert", "f", At("there", "x"), NoPre),
     Single("insert", "g", At("here", "x"), NoPre),
     Single("delete", "g", Nothing, NoPre)}

(* Both: what a collection's clients send at the same time.                *)
MixedRequests == LockingRequests \cup BatchRequests

(* Unguarded single writes, for what the documentation says of them.       *)
SingleRequests ==
    {Single("upsert", f, At(l, "x"), NoPre) : f \in Features, l \in Locs}
      \cup {Single("delete", f, Nothing, NoPre) : f \in Features}
=============================================================================
