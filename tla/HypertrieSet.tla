---------------------------- MODULE HypertrieSet ----------------------------
(***************************************************************************)
(* What the Hypertries of a context promise to their users: each is a set  *)
(* of keys of its own.  That they share nodes cannot be observed.          *)
(***************************************************************************)
EXTENDS Integers, FiniteSets

CONSTANTS Objects,   \* the Hypertries
          Depth,     \* their depths
          Entries    \* the keys that may be put into each

VARIABLES content,   \* the keys of each Hypertrie
          exists,    \* the Hypertries that exist
          pending    \* the operation that is being executed

svars == <<content, exists, pending>>

None == [kind |-> "none"]

SetInit ==
    /\ content = [h \in Objects |-> {}]
    /\ exists = {}
    /\ pending = None

Request(h, kind, es) ==
    /\ pending = None /\ h \in exists
    /\ kind = "insert" => es # {} /\ es \cap content[h] = {}
    /\ kind = "remove" => es # {} /\ es \subseteq content[h]
    /\ kind = "destroy" => es = {}
    /\ pending' = [kind |-> kind, handle |-> h, entries |-> es]
    /\ UNCHANGED <<content, exists>>

\* The operation takes effect, on its Hypertrie and on no other one.
Respond ==
    /\ pending # None
    /\ content' = [content EXCEPT ![pending.handle] =
                     CASE pending.kind = "insert"  -> @ \cup pending.entries
                       [] pending.kind = "remove"  -> @ \ pending.entries
                       [] pending.kind = "destroy" -> {}]
    /\ exists' = IF pending.kind = "destroy" THEN exists \ {pending.handle} ELSE exists
    /\ pending' = None

New(h) ==
    /\ pending = None /\ h \notin exists
    /\ exists' = exists \cup {h}
    /\ UNCHANGED <<content, pending>>

\* Construction or assignment of g from h; from "moves" says that h is gone.
Take(g, h, moves) ==
    /\ pending = None /\ h \in exists /\ Depth[g] = Depth[h]
    /\ content' = [x \in Objects |-> IF x = g THEN content[h]
                                     ELSE IF x = h /\ moves THEN {} ELSE content[x]]
    /\ exists' = ((IF moves THEN exists \ {h} ELSE exists) \cup {g})
    /\ UNCHANGED pending

Delete(h) ==
    /\ pending = None /\ h \in exists
    /\ content' = [content EXCEPT ![h] = {}]
    /\ exists' = exists \ {h}
    /\ UNCHANGED pending

SetNext ==
    \/ \E h \in Objects, kind \in {"insert", "remove", "destroy"} :
         \E es \in SUBSET Entries[h] : Request(h, kind, es)
    \/ Respond
    \/ \E h \in Objects : New(h) \/ Delete(h)
    \/ \E g, h \in Objects, moves \in BOOLEAN : Take(g, h, moves)

SetSpec == SetInit /\ [][SetNext]_svars

=============================================================================
