------------------------------ MODULE NodeFlow ------------------------------
(***************************************************************************)
(* The editor and the runner together: a flow is drawn, Run posts it to    *)
(* the adhoc endpoint, and a runner compiles and runs what was posted.     *)
(*                                                                         *)
(* Mouse and keyboard are cut short to the three actions that make up a    *)
(* flow; the reducer is that of NodeEditor. The posted flow is a copy, so  *)
(* what is drawn during a run does not meet it: nothing is drawn while one *)
(* is running. Nodes and texts are drawn before connections, as their      *)
(* indices do not depend on each other.                                    *)
(***************************************************************************)
EXTENDS NodeEditor, FlowRun

CONSTANTS
  MaxSize,  \* bound: the size of a flow
  Weight    \* bound: what a node of each type counts for in it

ASSUME SizeAssumption == MaxSize \in Nat /\ Weight \in [StoredTypes -> Nat]

flowVars == <<vars, runVars>>

DrawNode(t) ==
  /\ connections = << >>
  /\ RoomForNode
  /\ Dispatch(NodeAdded(t))

Edited == {c \in DOMAIN controls : controls[c].value # "plain"}

Size ==
  MapThenSumSet(LAMBDA n : Weight[nodes[n].type], DOMAIN nodes)
    + Cardinality(Edited) + Cardinality(DOMAIN connections)

DrawText(c, v) ==
  /\ connections = << >>
  /\ Size < MaxSize
  /\ EditControl(c, v)

DrawConnection(out, in) ==
  /\ RoomForConnection
  /\ Size < MaxSize
  /\ Dispatch(ConnectionAdded(out, in))

Draw ==
  /\ phase = "idle"
  /\ \/ Reduce
     \/ queue = << >> /\ \E t \in MenuTypes : DrawNode(t)
     \/ queue = << >> /\ \E c \in DOMAIN controls, v \in Texts : DrawText(c, v)
     \/ queue = << >> /\ \E out \in OutputPorts, in \in InputPorts : DrawConnection(out, in)
  /\ UNCHANGED runVars

\* TestPage.onTest: what was rendered last goes out, and in the end a runner
\* polls it. One run is followed to its end.
Post ==
  /\ phase = "idle" /\ queue = << >>
  /\ Launch(Graph)
  /\ UNCHANGED vars

RunOn == RunNext /\ UNCHANGED vars

FlowInit == Init /\ RunInit
FlowNext == Draw \/ Post \/ RunOn

\* The program is one thread of the runner: it goes on while it can.
FlowSpec == FlowInit /\ [][FlowNext]_flowVars /\ WF_flowVars(RunOn)

=============================================================================
