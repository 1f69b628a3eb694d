-------------------------------- MODULE Bulk --------------------------------
(***************************************************************************)
(* The bulks that the updaters collect and hand to insert or remove.       *)
(***************************************************************************)
EXTENDS Integers, Sequences, FiniteSets

Elements(s) == {s[i] : i \in DOMAIN s}

\* The entries that remain when a bulk is combined by xor: an entry that occurs
\* twice cancels out.
Odd(bulk) ==
    {bulk[i] : i \in {j \in DOMAIN bulk :
                         Cardinality({k \in DOMAIN bulk : bulk[k] = bulk[j]}) % 2 = 1}}

\* The entries that are in the bulk more than once.
Repeated(bulk) ==
    {bulk[i] : i \in {j \in DOMAIN bulk : \E k \in DOMAIN bulk : k # j /\ bulk[k] = bulk[j]}}

=============================================================================
