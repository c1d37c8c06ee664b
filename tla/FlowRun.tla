------------------------------- MODULE FlowRun ------------------------------
(***************************************************************************)
(* What the runner makes of a flow of the node editor: GraphCompilerImpl   *)
(* turns it into one Lua function per node, and a program that visits the  *)
(* nodes depth first from node 1. A node that needs a value calls the      *)
(* function of the node it is wired to; std.once lets each function run    *)
(* once and keeps its result.                                              *)
(*                                                                         *)
(* The compiler is a set of operators on the flow, the program a machine   *)
(* with the stack of its calls. The values that flow are left out: no      *)
(* branch of the compiled program that changes what is called depends on   *)
(* them. The texts of a flow matter once, when the program is loaded: they *)
(* are part of its source.                                                 *)
(***************************************************************************)
EXTENDS Integers, Sequences, FiniteSets, SequencesExt

VARIABLES
  flow,      \* the flow that is run: [nodes, controls, connections]
  phase,     \* idle, running, completed or failed
  stack,     \* the calls of the program: [call, node, at], the last is the
             \* innermost; at is where it goes on: 0 at its start, k at the edge
             \* of connection k or the next one after it
  visited,   \* the list of visit_node and prune_node
  done,      \* nodes whose result std.once holds
  finished   \* history: the nodes in the order their code ended

runVars == <<flow, phase, stack, visited, done, finished>>

NoFlow == [nodes |-> << >>, controls |-> << >>, connections |-> << >>]

-----------------------------------------------------------------------------
(***************************************************************************)
(* The compiler                                                            *)
(***************************************************************************)
\* NodeCompilerRegistry: Filter and Telegram_Send_Message are commented out.
Compiled == {"Decision", "Input", "Print", "Start"}
Reading == {"Decision", "Print"}

NodesOf(g) == DOMAIN g.nodes

SmallestOf(S) == CHOOSE i \in S : \A j \in S : i <= j

FirstControl(g, n) ==
  g.controls[SmallestOf({c \in DOMAIN g.controls : g.controls[c].node = n})]

ControlPort(g, n) == FirstControl(g, n).port

\* Context.getConnection of that port: the first one that touches it
Wires(g, n) ==
  {k \in DOMAIN g.connections :
     ControlPort(g, n) \in {g.connections[k].inputPort, g.connections[k].outputPort}}

Source(g, n) == g.connections[SmallestOf(Wires(g, n))].outputNode

Compiles(g) ==
  /\ NodesOf(g) # {}
  /\ \A n \in NodesOf(g) :
       /\ g.nodes[n].type \in Compiled
       /\ g.nodes[n].type \in Reading => Wires(g, n) # {}

\* Start and Input put the text of their control between quotes, as it is. A
\* text the quotes do not hold makes the whole program one that does not load,
\* whether its node is ever called or not. Texts that end the literal and go on
\* as code of their own are left out.
Inlined == {"Input", "Start"}

Loads(g) ==
  \A n \in NodesOf(g) :
    g.nodes[n].type \in Inlined /\ FirstControl(g, n).type = "Input_String"
      => FirstControl(g, n).value = "plain"

StartNode(g) ==
  LET starts == {n \in NodesOf(g) : g.nodes[n].type = "Start"}
  IN SmallestOf(IF starts # {} THEN starts ELSE NodesOf(g))

\* ComputationGraph.dependencies: the edges an output has, each for the node it
\* leads to. They are followed in the order of the connections.
EdgesOf(g, n) == {k \in DOMAIN g.connections : g.connections[k].outputNode = n}

LeadsTo(g, k) == g.connections[k].inputNode

\* Where the connections lead from root: no set of nodes that holds root and
\* that they do not lead out of is without it.
Closed(g, S) == \A k \in DOMAIN g.connections :
                  g.connections[k].outputNode \in S => LeadsTo(g, k) \in S

Reachable(g, root) ==
  {n \in NodesOf(g) :
     \A S \in SUBSET NodesOf(g) : root \in S /\ Closed(g, S) => n \in S}

\* A fault the runs are tried with: the search leaves out where it starts.
FunctionsWithoutStart(g) == Reachable(g, StartNode(g)) \ {StartNode(g)}

\* The domain of __F__: breadthFirstSearch finds nothing, not even the start
\* node, when that one leads nowhere.
Functions(g) ==
  IF EdgesOf(g, StartNode(g)) = {} THEN {} ELSE Reachable(g, StartNode(g))

-----------------------------------------------------------------------------
(***************************************************************************)
(* The compiled program                                                    *)
(***************************************************************************)
Visit(n) == [call |-> "visit_node", node |-> n, at |-> 0]
Call(n) == [call |-> "fn", node |-> n, at |-> 0]

RunInit ==
  /\ flow = NoFlow /\ phase = "idle" /\ stack = << >>
  /\ visited = {} /\ done = {} /\ finished = << >>

\* A fault the runs are tried with: any text of a flow may keep it from loading,
\* also one that no code is made of.
LaunchMindingTexts(g) ==
  /\ phase # "running"
  /\ flow' = g
  /\ visited' = {} /\ done' = {} /\ finished' = << >>
  /\ IF Compiles(g) /\ \A c \in DOMAIN g.controls : g.controls[c].value = "plain"
     THEN phase' = "running" /\ stack' = <<Visit(1)>>
     ELSE phase' = "failed" /\ stack' = << >>

\* CodeRunnerImpl with code of type Nodes: compile, load, run. A compiler that
\* throws fails the exec, and so does a program that does not load.
Launch(g) ==
  /\ phase # "running"
  /\ flow' = g
  /\ visited' = {} /\ done' = {} /\ finished' = << >>
  /\ IF Compiles(g) /\ Loads(g)
     THEN phase' = "running" /\ stack' = <<Visit(1)>>
     ELSE phase' = "failed" /\ stack' = << >>

Fail ==
  /\ phase' = "failed" /\ stack' = << >>
  /\ UNCHANGED <<flow, visited, done, finished>>

Top == stack[Len(stack)]
Running(call) == phase = "running" /\ stack # << >> /\ Top.call = call

Return == stack' = Front(stack)

\* A fault the runs are tried with: the place to go on at is not moved on.
CallOnStaying(frame, next) == stack' = Append(stack, frame)

\* The innermost call calls in turn, and goes on at next afterwards.
CallOn(frame, next) ==
  stack' = Append([stack EXCEPT ![Len(stack)].at = next], frame)

VisitNode ==
  /\ Running("visit_node") /\ Top.at = 0
  /\ \/ /\ Top.node \in visited
        /\ Return
        /\ UNCHANGED <<flow, phase, visited, done, finished>>
     \/ /\ Top.node \notin visited
        /\ Top.node \in Functions(flow)
        /\ visited' = visited \cup {Top.node}
        /\ CallOn(Call(Top.node), 1)
        /\ UNCHANGED <<flow, phase, done, finished>>
     \/ /\ Top.node \notin visited \cup Functions(flow)
        /\ Fail

FollowEdges ==
  /\ Running("visit_node") /\ Top.at > 0
  /\ LET left == {k \in EdgesOf(flow, Top.node) : k >= Top.at}
         next == SmallestOf(left)
     IN IF left # {} THEN CallOn(Visit(LeadsTo(flow, next)), next + 1) ELSE Return
  /\ UNCHANGED <<flow, phase, visited, done, finished>>

\* A fault the runs are tried with: once forgets that it has run.
FinishForgetting(n) ==
  /\ finished' = Append(finished, n)
  /\ Return
  /\ UNCHANGED <<flow, phase, done>>

\* The code of node n is at an end: once keeps what it returned.
Finish(n) ==
  /\ done' = done \cup {n}
  /\ finished' = Append(finished, n)
  /\ Return
  /\ UNCHANGED <<flow, phase>>

\* A node whose code is running is called by itself, through others or not:
\* once does not know its result yet, and the calls go on until the stack of
\* the sandbox is used up.
CallsItself ==
  \E i \in 1 .. Len(stack) - 1 : stack[i].call = "fn" /\ stack[i].node = Top.node

\* A fault the runs are tried with: a node uses its source unasked.
CallNodeUnasked ==
  /\ Running("fn") /\ Top.at = 0
  /\ \/ /\ Top.node \in done
        /\ Return
        /\ UNCHANGED <<flow, phase, visited, done, finished>>
     \/ /\ Top.node \notin done
        /\ Finish(Top.node)
        /\ UNCHANGED visited

CallNode ==
  /\ Running("fn") /\ Top.at = 0
  /\ LET n == Top.node
     IN \/ /\ n \in done
           /\ Return
           /\ UNCHANGED <<flow, phase, visited, done, finished>>
        \/ /\ n \notin done /\ CallsItself
           /\ Fail
        \/ /\ n \notin done /\ ~CallsItself
           /\ flow.nodes[n].type \notin Reading
           /\ Finish(n)
           /\ UNCHANGED visited
        \/ /\ n \notin done /\ ~CallsItself
           /\ flow.nodes[n].type \in Reading
           /\ Source(flow, n) \in Functions(flow)
           /\ CallOn(Call(Source(flow, n)), 1)
           /\ UNCHANGED <<flow, phase, visited, done, finished>>
        \/ /\ n \notin done /\ ~CallsItself
           /\ flow.nodes[n].type \in Reading
           /\ Source(flow, n) \notin Functions(flow)
           /\ Fail

\* A fault the runs are tried with: what is pruned is given a result as well,
\* be it in the flow or not.
UseSourcePruningResult ==
  /\ Running("fn") /\ Top.at > 0
  /\ LET pruned == IF flow.nodes[Top.node].type = "Decision" THEN {4} ELSE {}
     IN /\ visited' = visited \cup pruned
        /\ done' = done \cup {Top.node} \cup pruned
  /\ finished' = Append(finished, Top.node)
  /\ Return
  /\ UNCHANGED <<flow, phase>>

\* Likewise: all that lies behind what is pruned is pruned too.
UseSourcePruningBehind ==
  /\ Running("fn") /\ Top.at > 0
  /\ visited' = IF flow.nodes[Top.node].type = "Decision" /\ 4 \in NodesOf(flow)
                THEN visited \cup Reachable(flow, 4) ELSE visited
  /\ Finish(Top.node)

\* The source has answered. A Decision prunes node 4, whichever way it goes.
UseSource ==
  /\ Running("fn") /\ Top.at > 0
  /\ visited' = IF flow.nodes[Top.node].type = "Decision"
                THEN visited \cup {4} ELSE visited
  /\ Finish(Top.node)

Complete ==
  /\ phase = "running" /\ stack = << >>
  /\ phase' = "completed"
  /\ UNCHANGED <<flow, stack, visited, done, finished>>

RunNext == VisitNode \/ FollowEdges \/ CallNode \/ UseSource \/ Complete

-----------------------------------------------------------------------------
(***************************************************************************)
(* Properties                                                              *)
(***************************************************************************)
Frame == [call : {"visit_node", "fn"}, node : Nat, at : Nat]

RunTypeOK ==
  /\ phase \in {"idle", "running", "completed", "failed"}
  /\ stack \in Seq(Frame)
  /\ visited \subseteq Nat
  /\ done \subseteq NodesOf(flow)
  /\ finished \in Seq(NodesOf(flow))

\* std.once keeps its promise for the functions of a flow, although they call
\* one another and the result is kept only when the code has ended: the code
\* of a node ends at most once.
EndsOnce ==
  \A i, j \in DOMAIN finished : finished[i] = finished[j] => i = j

\* A node that reads ends after the node it is wired to, whatever the order
\* in which the visit comes by.
ReadsAfterSource ==
  \A i \in DOMAIN finished :
    flow.nodes[finished[i]].type \in Reading =>
      \E j \in 1 .. i - 1 : finished[j] = Source(flow, finished[i])

\* Reading follows the wires from node to node without coming back: of any
\* nodes that read, one is wired to a node that is not among them.
ReadsEnd(g) ==
  \A S \in SUBSET {n \in NodesOf(g) : g.nodes[n].type \in Reading} :
    S # {} => \E n \in S : Source(g, n) \notin S

\* Node 1 is where the flow starts and leads somewhere, every node can be
\* compiled, and every value that is read comes from a node the flow reaches.
WellWired(g) ==
  /\ Compiles(g)
  /\ StartNode(g) = 1 /\ EdgesOf(g, 1) # {}
  /\ \A n \in NodesOf(g) :
       g.nodes[n].type \in Reading => Source(g, n) \in Reachable(g, 1)
  /\ ReadsEnd(g)

\* A flow that is wired so does not fail, however its wires cross, as long as
\* its texts load. Without the texts this does not hold: Input.kt escapes
\* nothing, so that an apostrophe in a text fails the flow.
WellWiredNeverFails == phase = "failed" => ~(WellWired(flow) /\ Loads(flow))

\* The nodes other than those of cut that root leads to when nothing is followed
\* out of cut.
ReachableAround(g, root, cut) ==
  {n \in NodesOf(g) \ cut :
     \A S \in SUBSET NodesOf(g) :
       root \in S /\ (\A k \in DOMAIN g.connections :
                       g.connections[k].outputNode \in S \ cut => LeadsTo(g, k) \in S)
         => n \in S}

\* A run that completes has run every node that is reached from node 1 on some
\* way that does not pass through a pruned node. Only node 4 is ever pruned, and
\* only if a Decision ran.
CompletedRanAll ==
  phase = "completed" =>
    LET pruned == IF \E n \in done : flow.nodes[n].type = "Decision" THEN {4} ELSE {}
    IN ReachableAround(flow, 1, pruned) \subseteq done

\* Every run comes to an end: the visit marks nodes before it goes on, the
\* calls are cut by once or by the end of the stack.
RunEnds == (phase = "running") ~> (phase \in {"completed", "failed"})

=============================================================================
