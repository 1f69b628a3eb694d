--------------------------- MODULE MCNodeContext ---------------------------
(* Instances of NodeContext for TLC. *)
EXTENDS NodeContextReads

CONSTANTS a, b, h1, h2

\* Two Hypertries of depth 2 over all keys of two key parts.
TwoDepth2 == (h1 :> 2) @@ (h2 :> 2)
AllKeys2 == [h \in {h1, h2} |-> Keys(2)]

\* One Hypertrie of depth 3 over six keys, and one of depth 2 that can share
\* its children.
Depth3And2 == (h1 :> 3) @@ (h2 :> 2)
KeysDepth3And2 ==
    (h1 :> {<<a, a, a>>, <<a, a, b>>, <<a, b, a>>, <<b, a, a>>, <<b, a, b>>, <<b, b, b>>})
    @@ (h2 :> {<<a, a>>, <<a, b>>, <<b, a>>})

=============================================================================
