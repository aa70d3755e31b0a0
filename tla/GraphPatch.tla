----------------------------- MODULE GraphPatch -----------------------------
(***************************************************************************)
(* One graph patch in simulate_apply: the operations are put in order and  *)
(* validated on one copy of the graph, applied on another, and when an     *)
(* operation or the compile fails the inverses of what was applied are run *)
(* backwards.                                                              *)
(*                                                                         *)
(* A node has one input and one output pin, so an edge is a pair of nodes. *)
(* Descriptors, pin types and identities, limits and hashes are left out.  *)
(***************************************************************************)
EXTENDS Integers, Sequences, SequencesExt, FiniteSetsExt

CONSTANTS
  NGraphNodes,   \* nodes of the graph
  NTempNodes,    \* nodes a patch may create
  MaxOperations  \* bound: operations of a patch

ASSUME GraphAssumption ==
  NGraphNodes \in Nat /\ NTempNodes \in Nat /\ MaxOperations \in Nat

VARIABLES
  graph,     \* the caller's graph
  working,   \* the copy the patch works on
  request,   \* the patch: its operations and their explicit dependencies
  done,      \* operations handled in this phase, in order
  inverses,  \* how to take back what was applied, newest last
  stage      \* what the patch has come to

graphVars == <<graph, working, request, done, inverses, stage>>

GraphNodes == 1..NGraphNodes
Nodes == 1..(NGraphNodes + NTempNodes)
TempNodes == Nodes \ GraphNodes

\* mark: position, comment, bounds.  No other operation reads it, or enabled.
Graphs == [nodes : SUBSET Nodes, edges : SUBSET (Nodes \X Nodes),
           default : [Nodes -> 0..1], enabled : [Nodes -> 0..1], mark : [Nodes -> 0..1]]

\* An operation on one node names it twice; a self-loop needs a flag of its own.
OnNode(type, nodes, values) == {[type |-> type, from |-> n, to |-> n, value |-> v] : n \in nodes, v \in values}
OnEdge(type) ==
  {[type |-> type, from |-> e[1], to |-> e[2], value |-> 0] : e \in {p \in Nodes \X Nodes : p[1] # p[2]}}

Operation ==
  OnNode("createNode", TempNodes, {1}) \cup OnNode("setPinDefault", Nodes, {1})
  \cup OnNode("setNodeEnabled", Nodes, {0}) \cup OnNode("setNodeMark", Nodes, {1})
  \cup OnEdge("connectPins") \cup OnEdge("disconnectPins")

NoRequest == [operations |-> <<>>, dependsOn |-> <<>>]

GraphTypeOK ==
  /\ graph \in Graphs /\ working \in Graphs
  /\ request.operations \in Seq(Operation)
  /\ DOMAIN request.dependsOn = DOMAIN request.operations
  /\ done \in Seq(DOMAIN request.operations)
  /\ Len(inverses) <= Len(request.operations)
  /\ stage \in {"idle", "planning", "applying", "compensating", "rejected",
                "applied", "rolled-back", "manual-recovery"}

-----------------------------------------------------------------------------
(* Order.                                                                  *)

Op(i) == request.operations[i]

\* An operation waits for those it names and for the creation of its nodes.
Dependencies(i) ==
  request.dependsOn[i] \cup
    {j \in DOMAIN request.operations \ {i} :
       Op(j).type = "createNode" /\ Op(j).to \in {Op(i).from, Op(i).to}}

Ready == {i \in DOMAIN request.operations \ ToSet(done) : Dependencies(i) \subseteq ToSet(done)}

\* The sort takes the operation that comes first in the patch.
NextOperation == Min(Ready)

AllDone == Len(done) = Len(request.operations)

-----------------------------------------------------------------------------
(* One operation.                                                          *)

HasInput(g, n) == \E e \in g.edges : e[2] = n

\* What validation accepts on the graph as it is when the operation's turn comes.
\* A node to create is not looked for: its identity comes from the patch's.
Valid(g, op) ==
  CASE op.type = "createNode" -> TRUE
    [] op.type = "connectPins" -> {op.from, op.to} \subseteq g.nodes /\ ~HasInput(g, op.to)
    [] op.type = "disconnectPins" -> <<op.from, op.to>> \in g.edges
    [] op.type = "setPinDefault" -> op.to \in g.nodes /\ ~HasInput(g, op.to)
    [] OTHER -> op.to \in g.nodes

Applied(g, op) ==
  CASE op.type = "createNode" ->
         [g EXCEPT !.nodes = @ \cup {op.to}, !.default[op.to] = op.value]
    [] op.type = "connectPins" -> [g EXCEPT !.edges = @ \cup {<<op.from, op.to>>}]
    [] op.type = "disconnectPins" -> [g EXCEPT !.edges = @ \ {<<op.from, op.to>>}]
    [] op.type = "setPinDefault" -> [g EXCEPT !.default[op.to] = op.value]
    [] op.type = "setNodeEnabled" -> [g EXCEPT !.enabled[op.to] = op.value]
    [] OTHER -> [g EXCEPT !.mark[op.to] = op.value]

\* The inverse keeps what the operation replaces.
Inverted(g, op) ==
  [kind |-> op.type, from |-> op.from, to |-> op.to,
   old |-> CASE op.type = "setPinDefault" -> g.default[op.to]
             [] op.type = "setNodeEnabled" -> g.enabled[op.to]
             [] OTHER -> g.mark[op.to]]

\* Taking back a creation takes the node's edges with it.
TakenBack(g, inverse) ==
  CASE inverse.kind = "createNode" ->
         [g EXCEPT !.nodes = @ \ {inverse.to}, !.edges = {e \in @ : inverse.to \notin {e[1], e[2]}},
                   !.default[inverse.to] = 0]
    [] inverse.kind = "connectPins" -> [g EXCEPT !.edges = @ \ {<<inverse.from, inverse.to>>}]
    [] inverse.kind = "disconnectPins" -> [g EXCEPT !.edges = @ \cup {<<inverse.from, inverse.to>>}]
    [] inverse.kind = "setPinDefault" -> [g EXCEPT !.default[inverse.to] = inverse.old]
    [] inverse.kind = "setNodeEnabled" -> [g EXCEPT !.enabled[inverse.to] = inverse.old]
    [] OTHER -> [g EXCEPT !.mark[inverse.to] = inverse.old]

-----------------------------------------------------------------------------
(* simulate_apply.                                                         *)

\* A node is created once.  Some operation may name one after it as its predecessor.
SubmitPatch(ops, i, j) ==
  /\ \A k, l \in DOMAIN ops :
       ops[k].type = "createNode" /\ ops[l].type = "createNode" /\ ops[k].to = ops[l].to => k = l
  /\ request' = [operations |-> ops,
                 dependsOn |-> [k \in DOMAIN ops |-> IF k = i /\ i < j THEN {j} ELSE {}]]
  /\ stage' = "planning" /\ working' = graph
  /\ UNCHANGED <<graph, done, inverses>>

PlanOperation ==
  /\ stage = "planning" /\ Ready # {}
  /\ IF Valid(working, Op(NextOperation))
     THEN /\ working' = Applied(working, Op(NextOperation))
          /\ done' = Append(done, NextOperation)
          /\ UNCHANGED stage
     ELSE stage' = "rejected" /\ UNCHANGED <<working, done>>
  /\ UNCHANGED <<graph, request, inverses>>

\* A default set after its pin is connected.
DefaultAfterConnect ==
  \E k, l \in DOMAIN done :
    /\ l < k /\ Op(done[l]).type = "connectPins" /\ Op(done[k]).type = "setPinDefault"
    /\ Op(done[k]).to = Op(done[l]).to

\* A cycle leaves operations that never get ready.  The order of default and connection
\* is refused where both name the pin in the same way.
AcceptPlan ==
  /\ stage = "planning" /\ Ready = {}
  /\ \/ AllDone /\ stage' = "applying"
     \/ (~AllDone \/ DefaultAfterConnect) /\ stage' = "rejected"
  /\ working' = graph /\ done' = <<>>
  /\ UNCHANGED <<graph, request, inverses>>

ApplyOperation ==
  /\ stage = "applying" /\ Ready # {}
  /\ working' = Applied(working, Op(NextOperation))
  /\ inverses' = Append(inverses, Inverted(working, Op(NextOperation)))
  /\ done' = Append(done, NextOperation)
  /\ UNCHANGED <<graph, request, stage>>

\* An operation fails, or after the last one the compile.
FailApply ==
  /\ stage = "applying"
  /\ stage' = "compensating"
  /\ UNCHANGED <<graph, working, request, done, inverses>>

\* The mistake of taking back the oldest operation first.
TakeBack_Oldest ==
  /\ stage = "compensating" /\ inverses # <<>>
  /\ working' = TakenBack(working, Head(inverses))
  /\ inverses' = Tail(inverses)
  /\ UNCHANGED <<graph, request, done, stage>>

TakeBack ==
  /\ stage = "compensating" /\ inverses # <<>>
  /\ working' = TakenBack(working, Last(inverses))
  /\ inverses' = Front(inverses)
  /\ UNCHANGED <<graph, request, done, stage>>

\* The semantic hash has nodes with their enabled flags, edges and defaults.
SameHash == [working EXCEPT !.mark = graph.mark] = graph

FinishCompensation ==
  /\ stage = "compensating" /\ inverses = <<>>
  /\ stage' = IF SameHash THEN "rolled-back" ELSE "manual-recovery"
  /\ UNCHANGED <<graph, working, request, done, inverses>>

\* The caller takes the result as his graph.
FinishApply ==
  /\ stage = "applying" /\ AllDone
  /\ stage' = "applied" /\ graph' = working
  /\ UNCHANGED <<working, request, done, inverses>>

-----------------------------------------------------------------------------
GraphInit ==
  /\ graph = [nodes |-> GraphNodes, edges |-> {<<n, n + 1>> : n \in 1..(NGraphNodes - 1)},
              default |-> [n \in Nodes |-> 0], enabled |-> [n \in Nodes |-> 1],
              mark |-> [n \in Nodes |-> 0]]
  /\ working = graph /\ request = NoRequest
  /\ done = <<>> /\ inverses = <<>> /\ stage = "idle"

GraphNext ==
  \/ /\ stage = "idle"
     /\ \E ops \in SeqOf(Operation, MaxOperations) :
          \E i, j \in DOMAIN ops : i <= j /\ SubmitPatch(ops, i, j)
  \/ PlanOperation \/ AcceptPlan \/ ApplyOperation \/ FailApply
  \/ TakeBack \/ FinishCompensation \/ FinishApply

GraphSpec == GraphInit /\ [][GraphNext]_graphVars

-----------------------------------------------------------------------------
\* Wherever an accepted patch fails, compensation brings back the whole graph, also
\* what the hash does not cover, and never ends in manual recovery.
CompensationRestores ==
  /\ stage = "rolled-back" => working = graph
  /\ stage # "manual-recovery"
=============================================================================
