----------------------------- MODULE NodeEditor -----------------------------
(***************************************************************************)
(* The node editor of the nyanbot front end (components/nodes): a flow is  *)
(* drawn by dragging node types from the library, dragging nodes about and *)
(* pulling connections from output ports to input ports. Run posts Graph.  *)
(*                                                                         *)
(* Three layers meet here. The browser calls the mouse listeners the       *)
(* widgets have registered (Draggable, PortWidget); the listeners dispatch *)
(* actions, which React queues; and the reducer (editorReducer) applies    *)
(* one queued action after the other, each with a re-render. Listeners are *)
(* closures of a render: registering the same one twice keeps one, and     *)
(* registering it again after a re-render makes two.                       *)
(*                                                                         *)
(* Pixels, sizes and the canvas are left out: a position is the widget     *)
(* that put the node there, 0 for the library.                             *)
(***************************************************************************)
EXTENDS Integers, Sequences, FiniteSets

CONSTANTS
  MenuTypes,       \* the node types of the library that are used
  Buttons,         \* mouse buttons a user may hold down at once
  MaxNodes,        \* bound: nodes of a flow
  MaxConnections,  \* bound: connections of a flow
  MaxQueue,        \* bound: the user acts only while no more actions are queued
  MaxDrags         \* bound: drags of one kind in flight

LibraryTypes ==
  {"Start", "Decision", "Input", "Input_String", "Filter", "Print",
   "Telegram_Send_Message"}

ASSUME MenuAssumption == MenuTypes \subseteq LibraryTypes
ASSUME BoundsAssumption ==
  /\ Buttons \in Nat \ {0}
  /\ MaxNodes \in Nat /\ MaxConnections \in Nat
  /\ MaxQueue \in Nat /\ MaxDrags \in Nat \ {0}

VARIABLES
  nodes,           \* node index -> [type, position, outputs]
  ports,           \* port index -> the index of its node
  controls,        \* control index -> [type, node, port, value]
  nodeControlIds,  \* node index -> its control indices
  connections,     \* connection index -> [outputPort, outputNode, inputPort, inputNode]
  current,         \* index of the selected node, 0 for null
  queue,           \* dispatched actions the reducer has not seen
  alive,           \* no render has thrown
  held,            \* mouse buttons held down
  pressed,         \* nodes pressed and not yet moved: their startPosition
  pressedMenu,     \* library items pressed and not yet moved
  nodeDrags,       \* window listeners of node drags: [at, fresh]
  menuDrags,       \* window listeners of library drags: [at, fresh]
  portDrags,       \* document listeners of connection drags: output ports
  twoDrags         \* history: a node drag began while another was in flight

graph == <<nodes, ports, controls, nodeControlIds, connections>>
mouse == <<held, pressed, pressedMenu, nodeDrags, menuDrags, portDrags>>
vars == <<graph, current, queue, alive, mouse, twoDrags>>

NoNode == 0

(***************************************************************************)
(* What a node of each type is made of: its output ports come first, the   *)
(* ports of its controls last, a port on neither (Filter) in between.      *)
(***************************************************************************)
OutputsOf(t) ==
  CASE t = "Decision" -> 2
    [] t \in {"Print", "Telegram_Send_Message"} -> 0
    [] OTHER -> 1

PortsOf(t) ==
  CASE t \in {"Decision", "Filter"} -> 3
    [] t = "Print" -> 1
    [] OTHER -> 2

ControlsOf(t) == IF t = "Telegram_Send_Message" THEN 2 ELSE 1

ControlTypeOf(t) ==
  IF t \in {"Input_String", "Print", "Telegram_Send_Message"}
  THEN "Input_String" ELSE "Input_Boolean"

StoredType(t) == IF t = "Input_String" THEN "Input" ELSE t

StoredTypes == {StoredType(t) : t \in LibraryTypes}

\* What a control may hold, told apart by what becomes of it in a Lua literal
\* '...': a text with a quote or a line break in it breaks the literal. Truth
\* values and the placeholder a new control has are plain.
Texts == {"plain", "breaking"}

\* Object.keys(...).length + 1
NextIndex(map) == Cardinality(DOMAIN map) + 1

\* map with the keys of new given their values by f, old keys overwritten
Put(map, new, f(_)) ==
  [i \in DOMAIN map \cup new |-> IF i \in new THEN f(i) ELSE map[i]]

(***************************************************************************)
(* The ports on the screen: those of the nodes' outputs and of the         *)
(* controls a node lists.                                                  *)
(***************************************************************************)
OutputPorts == UNION {nodes[n].outputs : n \in DOMAIN nodes}

InputPorts ==
  {controls[c].port : c \in UNION {nodeControlIds[n] : n \in DOMAIN nodes}}

Graph == [nodes |-> nodes, controls |-> controls, connections |-> connections]

EmptyGraph ==
  /\ nodes = << >> /\ ports = << >> /\ controls = << >>
  /\ nodeControlIds = << >> /\ connections = << >>

Init ==
  /\ EmptyGraph
  /\ current = NoNode /\ queue = << >> /\ alive = TRUE
  /\ held = 0 /\ pressed = {} /\ pressedMenu = {}
  /\ nodeDrags = << >> /\ menuDrags = << >> /\ portDrags = << >>
  /\ twoDrags = FALSE

-----------------------------------------------------------------------------
(***************************************************************************)
(* Actions of the reducer                                                  *)
(***************************************************************************)
NodeSelected(n) == [type |-> "NODE_SELECTED", index |-> n]
NodeUnselected == [type |-> "NODE_UNSELECTED"]
NodePositionUpdated(by) == [type |-> "NODE_POSITION_UPDATED", position |-> by]
NodeAdded(t) == [type |-> "NODE_ADDED", nodeType |-> t]
ConnectionAdded(out, in) ==
  [type |-> "CONNECTION_ADDED", outputPort |-> out, inputPort |-> in]
ControlUpdated(kind, c, value) == [type |-> kind, index |-> c, value |-> value]
CanvasSet == [type |-> "CANVAS_SET"]

\* A listener registered before this render is a closure no later
\* registration equals.
Stale(drags) == [i \in DOMAIN drags |-> [drags[i] EXCEPT !.fresh = FALSE]]

Rerender ==
  /\ queue' = Tail(queue)
  /\ nodeDrags' = Stale(nodeDrags) /\ menuDrags' = Stale(menuDrags)
  /\ UNCHANGED <<alive, held, pressed, pressedMenu, portDrags, twoDrags>>

\* An exception of the reducer: no error boundary stands between the editor
\* and the root, so React unmounts the page.
Throw ==
  /\ alive' = FALSE
  /\ queue' = << >>
  /\ UNCHANGED <<graph, current, mouse, twoDrags>>

Reducing(type) == alive /\ queue # << >> /\ Head(queue).type = type

\* A fault the runs are tried with: the control is given the port of the output.
ReduceNodeAddedSharing ==
  /\ Reducing("NODE_ADDED")
  /\ LET t == Head(queue).nodeType
         n == NextIndex(nodes)
         p == NextIndex(ports)
         c == NextIndex(controls)
         newPorts == p .. (p + PortsOf(t) - 1)
         newControls == c .. (c + ControlsOf(t) - 1)
         firstControlPort == p
         Node(i) == [type |-> StoredType(t), position |-> NoNode,
                     outputs |-> p .. (p + OutputsOf(t) - 1)]
         Owner(i) == n
         Control(i) == [type |-> ControlTypeOf(t), node |-> n,
                        port |-> firstControlPort + (i - c), value |-> "plain"]
         Listed(i) == newControls
     IN /\ nodes' = Put(nodes, {n}, Node)
        /\ ports' = Put(ports, newPorts, Owner)
        /\ controls' = Put(controls, newControls, Control)
        /\ nodeControlIds' = Put(nodeControlIds, {n}, Listed)
  /\ Rerender
  /\ UNCHANGED <<connections, current>>

\* Likewise: only the ports that are drawn are registered.
ReduceNodeAddedSparse ==
  /\ Reducing("NODE_ADDED")
  /\ LET t == Head(queue).nodeType
         n == NextIndex(nodes)
         p == NextIndex(ports)
         c == NextIndex(controls)
         newPorts == (p .. (p + OutputsOf(t) - 1))
                       \cup ((p + PortsOf(t) - ControlsOf(t)) .. (p + PortsOf(t) - 1))
         newControls == c .. (c + ControlsOf(t) - 1)
         firstControlPort == p + PortsOf(t) - ControlsOf(t)
         Node(i) == [type |-> StoredType(t), position |-> NoNode,
                     outputs |-> p .. (p + OutputsOf(t) - 1)]
         Owner(i) == n
         Control(i) == [type |-> ControlTypeOf(t), node |-> n,
                        port |-> firstControlPort + (i - c), value |-> "plain"]
         Listed(i) == newControls
     IN /\ nodes' = Put(nodes, {n}, Node)
        /\ ports' = Put(ports, newPorts, Owner)
        /\ controls' = Put(controls, newControls, Control)
        /\ nodeControlIds' = Put(nodeControlIds, {n}, Listed)
  /\ Rerender
  /\ UNCHANGED <<connections, current>>

ReduceNodeAdded ==
  /\ Reducing("NODE_ADDED")
  /\ LET t == Head(queue).nodeType
         n == NextIndex(nodes)
         p == NextIndex(ports)
         c == NextIndex(controls)
         newPorts == p .. (p + PortsOf(t) - 1)
         newControls == c .. (c + ControlsOf(t) - 1)
         firstControlPort == p + PortsOf(t) - ControlsOf(t)
         Node(i) == [type |-> StoredType(t), position |-> NoNode,
                     outputs |-> p .. (p + OutputsOf(t) - 1)]
         Owner(i) == n
         Control(i) == [type |-> ControlTypeOf(t), node |-> n,
                        port |-> firstControlPort + (i - c), value |-> "plain"]
         Listed(i) == newControls
     IN /\ nodes' = Put(nodes, {n}, Node)
        /\ ports' = Put(ports, newPorts, Owner)
        /\ controls' = Put(controls, newControls, Control)
        /\ nodeControlIds' = Put(nodeControlIds, {n}, Listed)
  /\ Rerender
  /\ UNCHANGED <<connections, current>>

ReduceConnectionAdded ==
  /\ Reducing("CONNECTION_ADDED")
  /\ LET out == Head(queue).outputPort
         in == Head(queue).inputPort
         New(i) == [outputPort |-> out, outputNode |-> ports[out],
                    inputPort |-> in, inputNode |-> ports[in]]
     IN IF {out, in} \subseteq DOMAIN ports
        THEN /\ connections' = Put(connections, {NextIndex(connections)}, New)
             /\ Rerender
             /\ UNCHANGED <<nodes, ports, controls, nodeControlIds, current>>
        ELSE Throw

\* The two updates of a control: only the one for texts looks at the type.
ReduceControlUpdated ==
  /\ \/ Reducing("CONTROL_INPUT_STRING_UPDATED")
     \/ Reducing("CONTROL_INPUT_BOOLEAN_UPDATED")
  /\ LET c == Head(queue).index
         fits == \/ Head(queue).type = "CONTROL_INPUT_BOOLEAN_UPDATED"
                 \/ controls[c].type = "Input_String"
     IN IF c \in DOMAIN controls /\ fits
        THEN /\ controls' = [controls EXCEPT ![c].value = Head(queue).value]
             /\ Rerender
             /\ UNCHANGED <<nodes, ports, nodeControlIds, connections, current>>
        ELSE Throw

ReduceNodeSelected ==
  /\ Reducing("NODE_SELECTED")
  /\ current' = Head(queue).index
  /\ Rerender
  /\ UNCHANGED graph

ReduceNodeUnselected ==
  /\ Reducing("NODE_UNSELECTED")
  /\ current' = NoNode
  /\ Rerender
  /\ UNCHANGED graph

\* A fault the runs are tried with: the node added last moves.
ReducePositionOfNewest ==
  /\ Reducing("NODE_POSITION_UPDATED")
  /\ IF current \in DOMAIN nodes
     THEN /\ nodes' = [nodes EXCEPT ![NextIndex(nodes) - 1].position = Head(queue).position]
          /\ Rerender
          /\ UNCHANGED <<ports, controls, nodeControlIds, connections, current>>
     ELSE Throw

\* The node that moves is the selected one, whoever dispatched the action.
ReduceNodePositionUpdated ==
  /\ Reducing("NODE_POSITION_UPDATED")
  /\ IF current \in DOMAIN nodes
     THEN /\ nodes' = [nodes EXCEPT ![current].position = Head(queue).position]
          /\ Rerender
          /\ UNCHANGED <<ports, controls, nodeControlIds, connections, current>>
     ELSE Throw

ReduceCanvasSet ==
  /\ Reducing("CANVAS_SET")
  /\ Rerender
  /\ UNCHANGED <<graph, current>>

Reduce ==
  \/ ReduceNodeAdded \/ ReduceConnectionAdded \/ ReduceControlUpdated
  \/ ReduceNodeSelected \/ ReduceNodeUnselected \/ ReduceNodePositionUpdated
  \/ ReduceCanvasSet

-----------------------------------------------------------------------------
(***************************************************************************)
(* The mouse                                                               *)
(***************************************************************************)
UserActs == alive /\ Len(queue) <= MaxQueue

Pending(type) == Cardinality({i \in DOMAIN queue : queue[i].type = type})

\* Bounds: what is begun must not outgrow MaxNodes and MaxConnections.
RoomForNode ==
  Cardinality(DOMAIN nodes) + Pending("NODE_ADDED") + Len(menuDrags)
    + Cardinality(pressedMenu) < MaxNodes
RoomForConnection ==
  Cardinality(DOMAIN connections) + Pending("CONNECTION_ADDED") + Len(portDrags)
    < MaxConnections

Press == UserActs /\ held < Buttons /\ held' = held + 1

\* Draggable.startDragDelay of a node
PressNode(n) ==
  /\ Press
  /\ n \in DOMAIN nodes
  /\ pressed' = pressed \cup {n}
  /\ UNCHANGED <<graph, current, queue, alive, pressedMenu, nodeDrags, menuDrags,
                 portDrags, twoDrags>>

\* Draggable.startDragDelay of an item of the library
PressMenu(t) ==
  /\ Press
  /\ RoomForNode
  /\ pressedMenu' = pressedMenu \cup {t}
  /\ UNCHANGED <<graph, current, queue, alive, pressed, nodeDrags, menuDrags,
                 portDrags, twoDrags>>

\* A fault the runs are tried with: an input port registers its listeners too.
PressAnyPort(p) ==
  /\ Press
  /\ Len(portDrags) < MaxDrags
  /\ RoomForConnection
  /\ portDrags' = Append(portDrags, p)
  /\ UNCHANGED <<graph, current, queue, alive, pressed, pressedMenu, nodeDrags,
                 menuDrags, twoDrags>>

\* PortWidget.handleDragStart: only an output port registers its listeners.
\* It sets its own state, so that every press registers a closure of its own.
PressPort(p) ==
  /\ Press
  /\ p \in OutputPorts
  /\ Len(portDrags) < MaxDrags
  /\ RoomForConnection
  /\ portDrags' = Append(portDrags, p)
  /\ UNCHANGED <<graph, current, queue, alive, pressed, pressedMenu, nodeDrags,
                 menuDrags, twoDrags>>

\* addEventListener: the same closure once
Register(drags, at) ==
  IF \E i \in DOMAIN drags : drags[i] = [at |-> at, fresh |-> TRUE]
  THEN drags
  ELSE Append(drags, [at |-> at, fresh |-> TRUE])

\* Draggable.updatePosition of every node drag: NodeWidget.handleDrag
Moves(drags) == [i \in DOMAIN drags |-> NodePositionUpdated(drags[i].at)]

\* Draggable.checkDragDelay, once the mouse is far enough from where it was
\* pressed: startDrag, and the listener it registers sees this same event.
StartNodeDrag(n) ==
  /\ UserActs
  /\ n \in pressed
  /\ Len(nodeDrags) < MaxDrags
  /\ pressed' = pressed \ {n}
  /\ nodeDrags' = Register(nodeDrags, n)
  /\ queue' = queue \o <<NodeSelected(n)>> \o Moves(nodeDrags')
  /\ twoDrags' = (twoDrags \/ nodeDrags # << >>)
  /\ UNCHANGED <<graph, current, alive, held, pressedMenu, menuDrags, portDrags>>

StartMenuDrag(t) ==
  /\ UserActs
  /\ t \in pressedMenu
  /\ Len(menuDrags) < MaxDrags
  /\ pressedMenu' = pressedMenu \ {t}
  /\ menuDrags' = Register(menuDrags, t)
  /\ queue' = queue \o Moves(nodeDrags)
  /\ UNCHANGED <<graph, current, alive, held, pressed, nodeDrags, portDrags,
                 twoDrags>>

\* A further move of the mouse
Drag ==
  /\ UserActs
  /\ nodeDrags # << >>
  /\ queue' = queue \o Moves(nodeDrags)
  /\ UNCHANGED <<graph, current, alive, mouse, twoDrags>>

\* A fault the runs are tried with: any port will do to drop on.
ConnectsAnyPort(target) ==
  IF target # 0
  THEN [i \in DOMAIN portDrags |-> ConnectionAdded(portDrags[i], target)]
  ELSE << >>

\* PortWidget.handleDragEnd of every connection drag
Connects(target) ==
  IF target \in InputPorts
  THEN [i \in DOMAIN portDrags |-> ConnectionAdded(portDrags[i], target)]
  ELSE << >>

\* A fault the runs are tried with: unselected first, moved after.
DropsUnselectFirst ==
  [i \in 1 .. 2 * Len(nodeDrags) |->
     IF i % 2 = 0 THEN NodePositionUpdated(nodeDrags[i \div 2].at)
                  ELSE NodeUnselected]

\* Draggable.stopDrag of every node drag: NodeWidget.handleDragEnd
Drops ==
  [i \in 1 .. 2 * Len(nodeDrags) |->
     IF i % 2 = 1 THEN NodePositionUpdated(nodeDrags[(i + 1) \div 2].at)
                  ELSE NodeUnselected]

\* Draggable.stopDrag of every library drag: MenuItem.handleDragEnd
Adds == [i \in DOMAIN menuDrags |-> NodeAdded(menuDrags[i].at)]

\* The mouse is released over target: the listeners of the document, then
\* those of the window. None asks which button it was.
Release(target) ==
  /\ UserActs
  /\ held > 0
  /\ held' = held - 1
  /\ pressed' = {} /\ pressedMenu' = {}
  /\ portDrags' = << >> /\ nodeDrags' = << >> /\ menuDrags' = << >>
  /\ queue' = queue \o Connects(target) \o Drops \o Adds
  /\ UNCHANGED <<graph, current, alive, twoDrags>>

\* The button goes up where the page does not hear of it: over the context
\* menu the press opened, or in another window.
ReleaseUnseen ==
  /\ UserActs
  /\ held > 0
  /\ held' = held - 1
  /\ UNCHANGED <<graph, current, queue, alive, pressed, pressedMenu, nodeDrags,
                 menuDrags, portDrags, twoDrags>>

-----------------------------------------------------------------------------
(***************************************************************************)
(* The rest of the page                                                    *)
(***************************************************************************)
Dispatch(action) ==
  /\ UserActs
  /\ queue' = Append(queue, action)
  /\ UNCHANGED <<graph, current, alive, mouse, twoDrags>>

\* ControlInputStringWidget and ControlInputBooleanWidget, as rendered for
\* the type of the control: a text area takes any text
EditControl(c, value) ==
  /\ c \in UNION {nodeControlIds[n] : n \in DOMAIN nodes}
  /\ \/ /\ controls[c].type = "Input_String"
        /\ Dispatch(ControlUpdated("CONTROL_INPUT_STRING_UPDATED", c, value))
     \/ /\ controls[c].type = "Input_Boolean"
        /\ value = "plain"
        /\ Dispatch(ControlUpdated("CONTROL_INPUT_BOOLEAN_UPDATED", c, value))

\* Canvas.setCanvasRect
Resize == queue = << >> /\ Dispatch(CanvasSet)

\* A page that is gone is loaded anew, with an empty flow.
Reload ==
  /\ ~alive
  /\ nodes' = << >> /\ ports' = << >> /\ controls' = << >>
  /\ nodeControlIds' = << >> /\ connections' = << >>
  /\ current' = NoNode /\ queue' = << >> /\ alive' = TRUE
  /\ held' = 0 /\ pressed' = {} /\ pressedMenu' = {}
  /\ nodeDrags' = << >> /\ menuDrags' = << >> /\ portDrags' = << >>
  /\ twoDrags' = FALSE

Next ==
  \/ Reduce
  \/ \E n \in DOMAIN nodes : PressNode(n) \/ StartNodeDrag(n)
  \/ \E t \in MenuTypes : PressMenu(t) \/ StartMenuDrag(t)
  \/ \E p \in DOMAIN ports : PressPort(p)
  \/ \E p \in OutputPorts \cup InputPorts \cup {0} : Release(p)
  \/ \E c \in DOMAIN controls, v \in Texts : EditControl(c, v)
  \/ Drag \/ ReleaseUnseen \/ Resize \/ Reload

Spec == Init /\ [][Next]_vars

-----------------------------------------------------------------------------
(***************************************************************************)
(* Properties                                                              *)
(***************************************************************************)
Listener(at) == [at : at, fresh : BOOLEAN]

TypeOK ==
  /\ DOMAIN nodes \subseteq Nat \ {0}
  /\ \A n \in DOMAIN nodes :
       nodes[n] \in [type : StoredTypes, position : Nat, outputs : SUBSET Nat]
  /\ DOMAIN ports \subseteq Nat /\ \A p \in DOMAIN ports : ports[p] \in Nat
  /\ \A c \in DOMAIN controls :
       controls[c] \in [type : {"Input_Boolean", "Input_String"}, node : Nat,
                        port : Nat, value : Texts]
  /\ \A k \in DOMAIN connections :
       connections[k] \in [outputPort : Nat, outputNode : Nat,
                           inputPort : Nat, inputNode : Nat]
  /\ current \in Nat /\ alive \in BOOLEAN /\ twoDrags \in BOOLEAN
  /\ held \in 0 .. Buttons
  /\ pressed \subseteq DOMAIN nodes /\ pressedMenu \subseteq MenuTypes
  /\ \A i \in DOMAIN nodeDrags : nodeDrags[i] \in Listener(DOMAIN nodes)
  /\ \A i \in DOMAIN menuDrags : menuDrags[i] \in Listener(MenuTypes)
  /\ \A i \in DOMAIN portDrags : portDrags[i] \in OutputPorts

\* No port is drawn twice: every output and every control of the flow has a
\* port of its own, which the editor knows to belong to its node. All four
\* kinds of indices are recomputed from sizes on every NODE_ADDED
\* (nextPortIndex and its siblings, plus one, plus two).
PortsOwned ==
  /\ \A n \in DOMAIN nodes : \A p \in nodes[n].outputs :
       p \in DOMAIN ports /\ ports[p] = n
  /\ \A c \in DOMAIN controls :
       /\ controls[c].port \in DOMAIN ports
       /\ ports[controls[c].port] = controls[c].node
       /\ controls[c].node \in DOMAIN nodes
       /\ controls[c].port \notin OutputPorts
       /\ \A d \in DOMAIN controls :
            controls[c].port = controls[d].port => c = d

\* Every connection runs from an output of the node it names to a control of
\* the node it names, however many drags are in flight when the flow changes:
\* the compiler of the flow looks connections up by port and nodes by index.
ConnectionsJoin ==
  \A k \in DOMAIN connections :
    LET new == connections[k]
    IN /\ new.outputNode \in DOMAIN nodes
       /\ new.outputPort \in nodes[new.outputNode].outputs
       /\ \E c \in DOMAIN controls :
            /\ controls[c].port = new.inputPort
            /\ controls[c].node = new.inputNode
            /\ new.inputNode \in DOMAIN nodes
            /\ c \in nodeControlIds[new.inputNode]

\* The editor goes blank in one case only: a node drag that began while
\* another was in flight (a second button, or a release the page did not
\* see). Releasing both then moves a node after it was unselected.
CrashNeedsTwoDrags == ~alive => twoDrags

\* As long as node drags do not overlap, a node is only where its own drags
\* or the library put it, although the reducer moves whatever is selected.
DragMovesOwnNode ==
  ~twoDrags => \A n \in DOMAIN nodes : nodes[n].position \in {NoNode, n}

\* Nothing of a flow is lost while it is edited: no node, control or
\* connection is overwritten by a later one of the same index.
FlowOnlyGrows ==
  [][alive =>
       /\ \A n \in DOMAIN nodes :
            /\ n \in DOMAIN nodes'
            /\ nodes'[n].type = nodes[n].type
            /\ nodes'[n].outputs = nodes[n].outputs
            /\ nodeControlIds'[n] = nodeControlIds[n]
       /\ \A p \in DOMAIN ports : p \in DOMAIN ports' /\ ports'[p] = ports[p]
       /\ \A c \in DOMAIN controls :
            /\ c \in DOMAIN controls'
            /\ [controls'[c] EXCEPT !.value = "plain"] = [controls[c] EXCEPT !.value = "plain"]
       /\ \A k \in DOMAIN connections :
            k \in DOMAIN connections' /\ connections'[k] = connections[k]]_vars

=============================================================================
