---------------------------- MODULE MCAdminReload ----------------------------
(* Small instances of AdminReload for TLC. *)
EXTENDS AdminReload

CONSTANTS k1, k2, base, extra, v1, v2, bad

Post(set, batch) == [op |-> "post", set |-> set, batch |-> batch]
Clear(set) == [op |-> "clear", set |-> set, batch |-> <<>>]
Remove(k) == [op |-> "remove", set |-> base,
              batch |-> <<[key |-> k, body |-> None]>>]
Entry(k, b) == [key |-> k, body |-> b]

\* A batch of two for the base set, a batch for a named set, a batch that
\* Load will reject, an empty batch, and every kind of deletion.
ManyCalls ==
    {Post(base, <<Entry(k1, v1), Entry(k2, v1)>>),
     Post(extra, <<Entry(k1, v2)>>),
     Post(base, <<Entry(k2, bad)>>),
     Post(base, <<>>),
     Clear(base), Clear(extra), Remove(k1)}

\* What a client does while others edit.
OutsideCalls ==
    {Post(base, <<Entry(k1, v1), Entry(k2, bad)>>), Clear(base)}

EmptySeed == {NoSets}

\* The directory defines k1 only.
OneFile == {[k \in Keys |-> IF k = k1 THEN v2 ELSE None]}
=============================================================================
