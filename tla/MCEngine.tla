------------------------------ MODULE MCEngine ------------------------------
(***************************************************************************)
(* Small workflows for TLC.  "t" is a trigger, the others are actions.       *)
(***************************************************************************)
EXTENDS Engine

Edge(s, d) == [src |-> s, dst |-> d, cond |-> "always"]
EdgeIf(s, d, out) == [src |-> s, dst |-> d, cond |-> out]
NoRetry == [n \in Nodes |-> 1]
RetryA == [n \in Nodes |-> IF n = "a" THEN 2 ELSE 1]
RetryB == [n \in Nodes |-> IF n = "b" THEN 2 ELSE 1]
TheTrigger == {"t"}

\* t -> a -> b
LineNodes == <<"t", "a", "b">>
LineEdges == {Edge("t", "a"), Edge("a", "b")}

\* t -> a and t -> b, with a capability node k (a database connection, say)
ToolNodes == <<"k", "t", "a", "b">>
ToolEdges == {Edge("t", "a"), Edge("t", "b")}

\* t -> a -> b -> c
LongNodes == <<"t", "a", "b", "c">>
LongEdges == {Edge("t", "a"), Edge("a", "b"), Edge("b", "c")}

\* t -> a; a -> b if yes; a -> c if no; b -> d; c -> d
BranchNodes == <<"t", "a", "b", "c", "d">>
BranchEdges == {Edge("t", "a"), EdgeIf("a", "b", "yes"), EdgeIf("a", "c", "no"),
                Edge("b", "d"), Edge("c", "d")}

\* a -> b, started by hand: no trigger
PlainNodes == <<"a", "b">>
PlainEdges == {Edge("a", "b")}

=============================================================================
