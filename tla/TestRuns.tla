-------------------------------- MODULE TestRuns -------------------------------
(***************************************************************************)
(* Test runs in the builder: a node is executed inline, after all nodes    *)
(* before it whose outputs the caller did not send along, and a test case  *)
(* then compares the output with its assertions.                           *)
(***************************************************************************)
EXTENDS Naturals, Sequences, SequencesExt, FiniteSets, FiniteSetsExt

CONSTANTS
  TestNodes,    \* nodes of the workflow; the largest is the node under test
  NoVerdict

ASSUME TestNodesAssumption == TestNodes \subseteq Nat /\ TestNodes # {}

Target == Max(TestNodes)

VARIABLES
  edges,     \* the edges in the order of the definition: sequence of <<source, target>>
  cached,    \* nodes whose output the request holds
  assertion, \* the case's assertion on the output: "none", "exists" or "not_exists"
  todo,      \* ancestors still to be looked at
  executed,  \* nodes executed, in order
  failed,    \* a node failed
  output,    \* the field "f" in the output of the node under test: "absent", "null" or "value"
  verdict    \* whether the case passed

testVars == <<edges, cached, assertion, todo, executed, failed, output, verdict>>

PredecessorsOf(es, n) == SelectSeq(es, LAMBDA e : e[2] = n)

DescendBeforeSources(n, sources) == <<n>> \o sources
SourcesFirst(n, sources) == sources \o <<n>>

NeverSeen(found, n) == FALSE
Seen(found, n) == n \in Range(found)

\* ancestors_of: depth first, the nodes before a node ahead of the node itself.
\* Visit appends to found what a visit of node n adds to it.
RECURSIVE Visit(_, _, _)
Visit(es, found, n) ==
  IF Seen(found, n) THEN found
  ELSE LET before == FoldLeft(LAMBDA f, e : Visit(es, f, e[1]), found, PredecessorsOf(es, n))
           added == SubSeq(before, Len(found) + 1, Len(before))
       IN found \o SourcesFirst(n, added)
ancestors_of(es, n) == FoldLeft(LAMBDA f, e : Visit(es, f, e[1]), <<>>, PredecessorsOf(es, n))

\* Edges lead to larger nodes: a definition without cycles, in any order of edges
TestRunsInit ==
  /\ \E es \in SUBSET {<<s, t>> \in TestNodes \X TestNodes : s < t} :
       edges \in {q \in [1..Cardinality(es) -> es] : Range(q) = es}
  /\ cached \in SUBSET (TestNodes \ {Target})
  /\ assertion \in {"none", "exists", "not_exists"}
  /\ todo = ancestors_of(edges, Target)
  /\ executed = <<>> /\ failed = FALSE /\ output = "absent" /\ verdict = NoVerdict

\* An ancestor that has a cached output is passed over.
SkipCached ==
  /\ ~failed /\ todo # <<>> /\ Head(todo) \in cached /\ todo' = Tail(todo)
  /\ UNCHANGED <<edges, cached, assertion, executed, failed, output, verdict>>

\* execute_node_inline; a failure ends the test run with a warning, not an error.
RunAncestor(ok) ==
  /\ ~failed /\ todo # <<>> /\ Head(todo) \notin cached
  /\ executed' = Append(executed, Head(todo)) /\ todo' = Tail(todo)
  /\ failed' = ~ok
  /\ UNCHANGED <<edges, cached, assertion, output, verdict>>

RunTarget(ok, field) ==
  /\ ~failed /\ todo = <<>> /\ Target \notin Range(executed)
  /\ executed' = Append(executed, Target)
  /\ failed' = ~ok /\ output' = IF ok THEN field ELSE "absent"
  /\ UNCHANGED <<edges, cached, assertion, todo, verdict>>

\* evaluate_assertion, for the field "f": a null exists.
Holds(a, field) ==
  CASE a = "none" -> TRUE [] a = "exists" -> field # "absent" [] OTHER -> field = "absent"

\* run_test_suite: a node without output counts as one with an empty output.
Judge ==
  /\ verdict = NoVerdict /\ (failed \/ Target \in Range(executed))
  /\ verdict' = Holds(assertion, output)
  /\ UNCHANGED <<edges, cached, assertion, todo, executed, failed, output>>

TestRunsNext ==
  \/ SkipCached \/ Judge
  \/ \E ok \in BOOLEAN : RunAncestor(ok) \/ \E field \in {"absent", "null", "value"} : RunTarget(ok, field)

TestRunsSpec == TestRunsInit /\ [][TestRunsNext]_testVars

(***************************************************************************)
(* Properties                                                              *)
(***************************************************************************)
\* A node runs only after every node that leads to it has run or had its output
\* sent along, whatever the order of the edges in the definition.
InputsReady ==
  \A i \in DOMAIN executed : \A e \in Range(edges) : e[2] = executed[i] =>
    e[1] \in cached \cup Range(SubSeq(executed, 1, i - 1))

\* A test run that does not fail runs each node that leads to the node under test
\* exactly once, unless its output was sent along, and no other node.
RECURSIVE Leads(_)
Leads(N) == LET more == N \cup {e[1] : e \in {x \in Range(edges) : x[2] \in N}}
            IN IF more = N THEN N ELSE Leads(more)
RunsEachNeededOnce ==
  Target \in Range(executed) =>
    /\ Range(executed) = {Target} \cup (Leads({Target}) \ cached)
    /\ IsInjective(executed)

\* A test run of a node executes what the node needs, once each and in order.
RunsWhatIsNeeded == InputsReady /\ RunsEachNeededOnce
================================================================================
