-------------------------- MODULE NodeEditorProofs --------------------------
(***************************************************************************)
(* For any library, any number of mouse buttons and any bounds: indices    *)
(* recomputed from sizes never collide, so that a flow only grows, every   *)
(* port has one owner and every connection joins ports that are there; and *)
(* the editor survives as long as node drags do not overlap.               *)
(***************************************************************************)
EXTENDS NodeEditor, FiniteSetTheorems, TLAPS

\* Indices 1, 2, ... without a gap: what makes the size plus one a free index.
Dense(map) == \E k \in Nat : DOMAIN map = 1..k

Indexed ==
  /\ Dense(nodes) /\ Dense(ports) /\ Dense(controls) /\ Dense(connections)
  /\ DOMAIN nodeControlIds = DOMAIN nodes

NodesOK ==
  \A n \in DOMAIN nodes :
    /\ nodes[n] \in [type : StoredTypes, position : Nat, outputs : SUBSET DOMAIN ports]
    /\ \A p \in nodes[n].outputs : ports[p] = n
    /\ nodeControlIds[n] \subseteq DOMAIN controls
    /\ \A c \in nodeControlIds[n] : controls[c].node = n

PortsOK == \A p \in DOMAIN ports : ports[p] \in DOMAIN nodes

ControlsOK ==
  \A c \in DOMAIN controls :
    /\ controls[c] \in [type : {"Input_Boolean", "Input_String"}, node : DOMAIN nodes,
                        port : DOMAIN ports, value : Texts]
    /\ ports[controls[c].port] = controls[c].node
    /\ \A n \in DOMAIN nodes : controls[c].port \notin nodes[n].outputs
    /\ \A d \in DOMAIN controls : controls[c].port = controls[d].port => c = d

ConnectionsOK ==
  /\ ConnectionsJoin
  /\ \A k \in DOMAIN connections :
       connections[k] \in [outputPort : DOMAIN ports, outputNode : DOMAIN nodes,
                           inputPort : DOMAIN ports, inputNode : DOMAIN nodes]

GraphOK == Indexed /\ NodesOK /\ PortsOK /\ ControlsOK /\ ConnectionsOK

\* What may be queued: actions on what the flow holds already.
Actions ==
  [type : {"NODE_SELECTED"}, index : DOMAIN nodes]
    \cup [type : {"NODE_UNSELECTED", "CANVAS_SET"}]
    \cup [type : {"NODE_POSITION_UPDATED"}, position : DOMAIN nodes]
    \cup [type : {"NODE_ADDED"}, nodeType : MenuTypes]
    \cup [type : {"CONNECTION_ADDED"}, outputPort : OutputPorts, inputPort : InputPorts]
    \cup [type : {"CONTROL_INPUT_BOOLEAN_UPDATED"}, index : DOMAIN controls, value : Texts]
    \cup [type : {"CONTROL_INPUT_STRING_UPDATED"},
          index : {c \in DOMAIN controls : controls[c].type = "Input_String"}, value : Texts]

MouseOK ==
  /\ current \in DOMAIN nodes \cup {NoNode}
  /\ alive \in BOOLEAN /\ twoDrags \in BOOLEAN /\ held \in 0..Buttons
  /\ pressed \subseteq DOMAIN nodes /\ pressedMenu \subseteq MenuTypes
  /\ nodeDrags \in Seq(Listener(DOMAIN nodes))
  /\ menuDrags \in Seq(Listener(MenuTypes))
  /\ portDrags \in Seq(OutputPorts)

QueueOK == queue \in Seq(Actions)

Typed == GraphOK /\ MouseOK /\ QueueOK

\* What FlowOnlyGrows says of a step, by field.
Kept ==
  /\ \A n \in DOMAIN nodes :
       /\ n \in DOMAIN nodes'
       /\ nodes'[n].type = nodes[n].type
       /\ nodes'[n].outputs = nodes[n].outputs
       /\ nodeControlIds'[n] = nodeControlIds[n]
  /\ \A p \in DOMAIN ports : p \in DOMAIN ports' /\ ports'[p] = ports[p]
  /\ \A c \in DOMAIN controls :
       /\ c \in DOMAIN controls'
       /\ controls'[c].type = controls[c].type
       /\ controls'[c].node = controls[c].node
       /\ controls'[c].port = controls[c].port
  /\ \A k \in DOMAIN connections :
       k \in DOMAIN connections' /\ connections'[k] = connections[k]
-----------------------------------------------------------------------------
\* The next index of a map without gaps is free, and filling it leaves none.
LEMMA DenseNext ==
  ASSUME NEW map, Dense(map)
  PROVE  NextIndex(map) \in Nat \ {0} /\ DOMAIN map = 1..(NextIndex(map) - 1)
<1>1. PICK k \in Nat : DOMAIN map = 1..k
  BY DEF Dense
<1>2. Cardinality(1..k) = k
  BY <1>1, FS_Interval
<1> QED
  BY <1>1, <1>2 DEF NextIndex

LEMMA DenseUpTo ==
  ASSUME NEW map, NEW k \in Nat, DOMAIN map = 1..k
  PROVE  Dense(map)
BY DEF Dense

\* A node's ports suffice for its outputs and its controls.
LEMMA PortsSuffice ==
  ASSUME NEW t \in LibraryTypes
  PROVE  /\ OutputsOf(t) \in Nat /\ ControlsOf(t) \in Nat /\ PortsOf(t) \in Nat
         /\ OutputsOf(t) + ControlsOf(t) <= PortsOf(t)
         /\ StoredType(t) \in StoredTypes
         /\ ControlTypeOf(t) \in {"Input_Boolean", "Input_String"}
<1>1. /\ OutputsOf(t) \in Nat /\ ControlsOf(t) \in Nat /\ PortsOf(t) \in Nat
      /\ OutputsOf(t) + ControlsOf(t) <= PortsOf(t)
  BY DEF LibraryTypes, OutputsOf, ControlsOf, PortsOf
<1> QED
  BY <1>1 DEF StoredTypes, ControlTypeOf

\* What is on the screen belongs to the flow.
LEMMA Drawn ==
  ASSUME GraphOK
  PROVE  /\ OutputPorts \subseteq DOMAIN ports /\ InputPorts \subseteq DOMAIN ports
         /\ \A p \in OutputPorts : ports[p] \in DOMAIN nodes /\ p \in nodes[ports[p]].outputs
         /\ \A p \in InputPorts :
              /\ ports[p] \in DOMAIN nodes
              /\ \E c \in nodeControlIds[ports[p]] :
                   c \in DOMAIN controls /\ controls[c].port = p /\ controls[c].node = ports[p]
<1>1. ASSUME NEW p \in OutputPorts
      PROVE  p \in DOMAIN ports /\ ports[p] \in DOMAIN nodes /\ p \in nodes[ports[p]].outputs
  BY DEF OutputPorts, GraphOK, NodesOK
<1>2. ASSUME NEW p \in InputPorts
      PROVE  /\ p \in DOMAIN ports /\ ports[p] \in DOMAIN nodes
             /\ \E c \in nodeControlIds[ports[p]] :
                  c \in DOMAIN controls /\ controls[c].port = p /\ controls[c].node = ports[p]
  <2>1. PICK n \in DOMAIN nodes : \E c \in nodeControlIds[n] : p = controls[c].port
    BY DEF InputPorts
  <2>2. PICK c \in nodeControlIds[n] : p = controls[c].port
    BY <2>1
  <2>3. c \in DOMAIN controls /\ controls[c].node = n
    BY DEF GraphOK, NodesOK
  <2> QED
    BY <2>2, <2>3 DEF GraphOK, ControlsOK
<1> QED
  BY <1>1, <1>2

\* What the queue and the mouse refer to is there after a step that keeps it.
LEMMA KeptActions ==
  ASSUME GraphOK, Kept
  PROVE  /\ DOMAIN nodes \subseteq DOMAIN nodes'
         /\ OutputPorts \subseteq OutputPorts' /\ InputPorts \subseteq InputPorts'
         /\ Actions \subseteq Actions'
<1>1. DOMAIN nodes \subseteq DOMAIN nodes'
  BY DEF Kept
<1>2. OutputPorts \subseteq OutputPorts'
  BY DEF Kept, OutputPorts
<1>3. InputPorts \subseteq InputPorts'
  <2>1. ASSUME NEW p \in InputPorts  PROVE p \in InputPorts'
    <3>1. PICK n \in DOMAIN nodes : \E c \in nodeControlIds[n] : p = controls[c].port
      BY DEF InputPorts
    <3>2. PICK c \in nodeControlIds[n] : p = controls[c].port
      BY <3>1
    <3>3. c \in DOMAIN controls
      BY DEF GraphOK, NodesOK
    <3>4. n \in DOMAIN nodes' /\ c \in nodeControlIds'[n] /\ p = controls'[c].port
      BY <3>2, <3>3 DEF Kept
    <3> QED
      BY <3>4 DEF InputPorts
  <2> QED
    BY <2>1
<1>4. DOMAIN controls \subseteq DOMAIN controls'
      /\ \A c \in DOMAIN controls : controls'[c].type = controls[c].type
  BY DEF Kept
<1> QED
  BY <1>1, <1>2, <1>3, <1>4 DEF Actions

\* A graph that is left alone is kept.
LEMMA UnchangedGraph ==
  ASSUME GraphOK, UNCHANGED graph
  PROVE  GraphOK' /\ Kept
<1>1. Kept
  BY DEF graph, Kept
<1>2. GraphOK'
  BY DEF graph, GraphOK, Indexed, Dense, NodesOK, PortsOK, ControlsOK, ConnectionsOK,
         ConnectionsJoin
<1> QED
  BY <1>1, <1>2
-----------------------------------------------------------------------------
\* What NODE_ADDED does: a node n, ports p..q and controls c..d, all of them new.
Added(n, p, q, c, d) ==
  /\ DOMAIN nodes = 1..(n - 1) /\ DOMAIN nodes' = 1..n
  /\ DOMAIN ports = 1..(p - 1) /\ DOMAIN ports' = 1..q
  /\ DOMAIN controls = 1..(c - 1) /\ DOMAIN controls' = 1..d
  /\ DOMAIN nodeControlIds' = 1..n
  /\ \A i \in 1..(n - 1) : nodes'[i] = nodes[i] /\ nodeControlIds'[i] = nodeControlIds[i]
  /\ \A i \in 1..(p - 1) : ports'[i] = ports[i]
  /\ \A i \in 1..(c - 1) : controls'[i] = controls[i]
  /\ nodes'[n] \in [type : StoredTypes, position : {NoNode}, outputs : SUBSET (p..q)]
  /\ nodeControlIds'[n] = c..d
  /\ \A i \in p..q : ports'[i] = n
  /\ \A i \in c..d :
       /\ controls'[i] \in [type : {"Input_Boolean", "Input_String"}, node : {n},
                            port : p..q, value : Texts]
       /\ controls'[i].port \notin nodes'[n].outputs
       /\ \A j \in c..d : controls'[i].port = controls'[j].port => i = j

\* The reducer takes what was queued.
LEMMA HeadOfQueue ==
  ASSUME QueueOK, NEW kind, Reducing(kind)
  PROVE  /\ alive /\ Head(queue) \in Actions /\ Head(queue).type = kind
         /\ queue # << >> /\ Tail(queue) \in Seq(Actions)
<1>1. queue \in Seq(Actions) /\ queue # << >> /\ alive /\ Head(queue).type = kind
  BY DEF QueueOK, Reducing
<1> QED
  BY <1>1

\* Of P consecutive ports the first O are outputs, the last C belong to controls.
LEMMA PortsApart ==
  ASSUME NEW p \in Nat, NEW c \in Nat, NEW O \in Nat, NEW C \in Nat, NEW P \in Nat,
         O + C <= P, NEW i \in c .. (c + C - 1)
  PROVE  /\ p + P - C + (i - c) \in p .. (p + P - 1)
         /\ p + P - C + (i - c) \notin p .. (p + O - 1)
         /\ \A j \in c .. (c + C - 1) :
              p + P - C + (i - c) = p + P - C + (j - c) => i = j
OBVIOUS

\* The maps NODE_ADDED makes, of a type with O outputs, C controls and P ports.
Puts(n, p, c, O, C, P, kind, controlKind) ==
  /\ nodes' = [i \in DOMAIN nodes \cup {n} |->
                 IF i \in {n}
                 THEN [type |-> kind, position |-> NoNode, outputs |-> p .. (p + O - 1)]
                 ELSE nodes[i]]
  /\ ports' = [i \in DOMAIN ports \cup (p .. (p + P - 1)) |->
                 IF i \in p .. (p + P - 1) THEN n ELSE ports[i]]
  /\ controls' = [i \in DOMAIN controls \cup (c .. (c + C - 1)) |->
                    IF i \in c .. (c + C - 1)
                    THEN [type |-> controlKind, node |-> n,
                          port |-> p + P - C + (i - c), value |-> "plain"]
                    ELSE controls[i]]
  /\ nodeControlIds' = [i \in DOMAIN nodeControlIds \cup {n} |->
                          IF i \in {n} THEN c .. (c + C - 1) ELSE nodeControlIds[i]]

LEMMA PutsAdd ==
  ASSUME NEW n \in Nat \ {0}, NEW p \in Nat \ {0}, NEW c \in Nat \ {0},
         NEW O \in Nat, NEW C \in Nat, NEW P \in Nat, O + C <= P,
         NEW kind \in StoredTypes, NEW controlKind \in {"Input_Boolean", "Input_String"},
         DOMAIN nodes = 1..(n - 1), DOMAIN ports = 1..(p - 1),
         DOMAIN controls = 1..(c - 1), DOMAIN nodeControlIds = 1..(n - 1),
         Puts(n, p, c, O, C, P, kind, controlKind)
  PROVE  Added(n, p, p + P - 1, c, c + C - 1)
<1> DEFINE q == p + P - 1
           d == c + C - 1
<1>1. /\ DOMAIN nodes' = 1..n /\ DOMAIN nodeControlIds' = 1..n
      /\ \A i \in 1..(n - 1) : nodes'[i] = nodes[i] /\ nodeControlIds'[i] = nodeControlIds[i]
      /\ nodes'[n] = [type |-> kind, position |-> NoNode, outputs |-> p .. (p + O - 1)]
      /\ nodeControlIds'[n] = c..d
  BY DEF Puts
<1>2. /\ DOMAIN ports' = 1..q
      /\ \A i \in 1..(p - 1) : ports'[i] = ports[i]
      /\ \A i \in p..q : ports'[i] = n
  BY DEF Puts
<1>3. /\ DOMAIN controls' = 1..d
      /\ \A i \in 1..(c - 1) : controls'[i] = controls[i]
      /\ \A i \in c..d : controls'[i] = [type |-> controlKind, node |-> n,
                                         port |-> p + P - C + (i - c), value |-> "plain"]
  BY DEF Puts
<1>4. nodes'[n] \in [type : StoredTypes, position : {NoNode}, outputs : SUBSET (p..q)]
  <2>1. p .. (p + O - 1) \subseteq p..q
    OBVIOUS
  <2> QED
    BY <1>1, <2>1 DEF NoNode
<1>5. ASSUME NEW i \in c..d
      PROVE  /\ controls'[i] \in [type : {"Input_Boolean", "Input_String"}, node : {n},
                                  port : p..q, value : Texts]
             /\ controls'[i].port \notin nodes'[n].outputs
             /\ \A j \in c..d : controls'[i].port = controls'[j].port => i = j
  <2>1. PICK at : at = [j \in c..d |-> p + P - C + (j - c)]
    OBVIOUS
  <2>2. at[i] \in p..q /\ at[i] \notin p .. (p + O - 1)
        /\ \A j \in c..d : at[i] = at[j] => i = j
    BY <2>1, PortsApart
  <2>3. \A j \in c..d : controls'[j] = [type |-> controlKind, node |-> n,
                                        port |-> at[j], value |-> "plain"]
    BY <1>3, <2>1
  <2>4. nodes'[n].outputs = p .. (p + O - 1)
    BY <1>1
  <2>5. ASSUME NEW j \in c..d  PROVE controls'[j].port = at[j]
    <3>1. controls'[j] = [type |-> controlKind, node |-> n, port |-> at[j], value |-> "plain"]
      BY <2>3
    <3> QED
      BY <3>1
  <2>6. controls'[i] \in [type : {"Input_Boolean", "Input_String"}, node : {n},
                          port : p..q, value : Texts]
    <3>1. controls'[i] = [type |-> controlKind, node |-> n, port |-> at[i], value |-> "plain"]
      BY <2>3
    <3> QED
      BY <2>2, <3>1 DEF Texts
  <2> QED
    BY <2>2, <2>4, <2>5, <2>6
<1> QED
  BY <1>1, <1>2, <1>3, <1>4, <1>5 DEF Added

LEMMA NodeAddedAdds ==
  ASSUME GraphOK, QueueOK, ReduceNodeAdded
  PROVE  \E n, p, c \in Nat \ {0} : \E q, d \in Nat :
           p <= q + 1 /\ c <= d + 1 /\ Added(n, p, q, c, d)
<1> DEFINE t == Head(queue).nodeType
           n == NextIndex(nodes)
           p == NextIndex(ports)
           c == NextIndex(controls)
           q == p + PortsOf(t) - 1
           d == c + ControlsOf(t) - 1
<1>1. t \in LibraryTypes
  <2>0. Reducing("NODE_ADDED")
    BY Zenon DEF ReduceNodeAdded
  <2>1. Head(queue) \in Actions /\ Head(queue).type = "NODE_ADDED"
    BY <2>0, HeadOfQueue
  <2>2. t \in MenuTypes
    BY <2>1 DEF Actions
  <2> QED
    BY <2>2, MenuAssumption
<1>2. /\ OutputsOf(t) \in Nat /\ ControlsOf(t) \in Nat /\ PortsOf(t) \in Nat
      /\ OutputsOf(t) + ControlsOf(t) <= PortsOf(t)
      /\ StoredType(t) \in StoredTypes
      /\ ControlTypeOf(t) \in {"Input_Boolean", "Input_String"}
  BY <1>1, PortsSuffice
<1>3. /\ n \in Nat \ {0} /\ p \in Nat \ {0} /\ c \in Nat \ {0}
      /\ DOMAIN nodes = 1..(n - 1) /\ DOMAIN ports = 1..(p - 1)
      /\ DOMAIN controls = 1..(c - 1) /\ DOMAIN nodeControlIds = 1..(n - 1)
  BY DenseNext DEF GraphOK, Indexed
<1>5. Puts(n, p, c, OutputsOf(t), ControlsOf(t), PortsOf(t), StoredType(t),
           ControlTypeOf(t))
  BY DEF ReduceNodeAdded, Put, Puts
<1> HIDE DEF n, p, c, t
<1>4. q \in Nat /\ d \in Nat /\ p <= q + 1 /\ c <= d + 1
  BY <1>2, <1>3
<1>6. Added(n, p, q, c, d)
  <2>1. ASSUME NEW k \in StoredTypes, NEW ck \in {"Input_Boolean", "Input_String"},
               NEW O \in Nat, NEW C \in Nat, NEW P \in Nat, O + C <= P,
               Puts(n, p, c, O, C, P, k, ck)
        PROVE  Added(n, p, p + P - 1, c, c + C - 1)
    BY <1>3, <2>1, PutsAdd, ZenonT(60)
  <2> QED
    BY <1>2, <1>5, <2>1
<1> HIDE DEF q, d
<1> QED
  BY <1>3, <1>4, <1>6

LEMMA AddedKeeps ==
  ASSUME GraphOK, NEW n \in Nat \ {0}, NEW p \in Nat \ {0}, NEW c \in Nat \ {0},
         NEW q \in Nat, NEW d \in Nat, p <= q + 1, c <= d + 1,
         Added(n, p, q, c, d), connections' = connections
  PROVE  GraphOK' /\ Kept
<1>1. /\ n \in DOMAIN nodes' /\ n \notin DOMAIN nodes
      /\ DOMAIN nodes' = DOMAIN nodes \cup {n}
      /\ \A i \in DOMAIN nodes : nodes'[i] = nodes[i] /\ nodeControlIds'[i] = nodeControlIds[i]
  BY DEF Added
<1>2. /\ DOMAIN ports' = DOMAIN ports \cup (p..q)
      /\ \A i \in p..q : i \notin DOMAIN ports /\ ports'[i] = n
      /\ \A i \in DOMAIN ports : ports'[i] = ports[i]
  BY DEF Added
<1>3. /\ DOMAIN controls' = DOMAIN controls \cup (c..d)
      /\ \A i \in c..d : i \notin DOMAIN controls
      /\ \A i \in DOMAIN controls : controls'[i] = controls[i]
  BY DEF Added
<1>4. Kept
  BY <1>1, <1>2, <1>3 DEF Kept
<1>5. Indexed'
  <2>1. /\ DOMAIN nodes' = 1..n /\ DOMAIN nodeControlIds' = 1..n
        /\ DOMAIN ports' = 1..q /\ DOMAIN controls' = 1..d
    BY DEF Added
  <2>2. Dense(connections')
    BY DEF GraphOK, Indexed
  <2> QED
    BY <2>1, <2>2 DEF Indexed, Dense
<1>6. NodesOK'
  <2>1. ASSUME NEW i \in DOMAIN nodes
        PROVE  /\ nodes'[i] \in [type : StoredTypes, position : Nat,
                                 outputs : SUBSET DOMAIN ports']
               /\ \A k \in nodes'[i].outputs : ports'[k] = i
               /\ nodeControlIds'[i] \subseteq DOMAIN controls'
               /\ \A k \in nodeControlIds'[i] : controls'[k].node = i
    <3>1. /\ nodes[i] \in [type : StoredTypes, position : Nat, outputs : SUBSET DOMAIN ports]
          /\ \A k \in nodes[i].outputs : ports[k] = i
          /\ nodeControlIds[i] \subseteq DOMAIN controls
          /\ \A k \in nodeControlIds[i] : controls[k].node = i
      BY DEF GraphOK, NodesOK
    <3>2. nodes[i].outputs \subseteq DOMAIN ports
      BY <3>1
    <3>3. \A k \in nodes'[i].outputs : ports'[k] = i
      BY <1>1, <1>2, <3>1, <3>2
    <3>4. \A k \in nodeControlIds'[i] : k \in DOMAIN controls' /\ controls'[k].node = i
      BY <1>1, <1>3, <3>1
    <3>5. nodes'[i] \in [type : StoredTypes, position : Nat, outputs : SUBSET DOMAIN ports']
      BY <1>1, <1>2, <3>1
    <3> QED
      BY <3>3, <3>4, <3>5
  <2>2. /\ nodes'[n] \in [type : StoredTypes, position : Nat, outputs : SUBSET DOMAIN ports']
        /\ \A k \in nodes'[n].outputs : ports'[k] = n
        /\ nodeControlIds'[n] \subseteq DOMAIN controls'
        /\ \A k \in nodeControlIds'[n] : controls'[k].node = n
    <3>1. /\ nodes'[n] \in [type : StoredTypes, position : Nat, outputs : SUBSET (p..q)]
          /\ nodeControlIds'[n] = c..d
          /\ \A i \in c..d : controls'[i].node = n
      BY DEF Added, NoNode
    <3>2. nodes'[n].outputs \subseteq p..q
      BY <3>1
    <3> QED
      BY <1>2, <1>3, <3>1, <3>2
  <2> QED
    BY <1>1, <2>1, <2>2 DEF NodesOK
<1>7. PortsOK'
  BY <1>1, <1>2 DEF GraphOK, PortsOK, PortsOK
<1>8. ControlsOK'
  <2>1. ASSUME NEW i \in DOMAIN controls
        PROVE  /\ controls'[i] \in [type : {"Input_Boolean", "Input_String"},
                                    node : DOMAIN nodes', port : DOMAIN ports', value : Texts]
               /\ controls'[i].port \in DOMAIN ports
               /\ ports'[controls'[i].port] = controls'[i].node
               /\ \A k \in DOMAIN nodes : controls'[i].port \notin nodes'[k].outputs
               /\ \A k \in DOMAIN controls : controls'[i].port = controls'[k].port => i = k
    BY <1>1, <1>2, <1>3 DEF GraphOK, ControlsOK
  <2>2. ASSUME NEW i \in c..d
        PROVE  /\ controls'[i] \in [type : {"Input_Boolean", "Input_String"},
                                    node : DOMAIN nodes', port : DOMAIN ports', value : Texts]
               /\ controls'[i].port \in p..q
               /\ ports'[controls'[i].port] = controls'[i].node
               /\ controls'[i].port \notin nodes'[n].outputs
               /\ \A k \in c..d : controls'[i].port = controls'[k].port => i = k
    BY <1>1, <1>2 DEF Added
  <2>3. \A k \in DOMAIN nodes : nodes'[k].outputs \subseteq DOMAIN ports
    BY <1>1 DEF GraphOK, NodesOK
  <2>4. nodes'[n].outputs \subseteq p..q
    BY DEF Added
  <2>5. ASSUME NEW i \in DOMAIN controls'
        PROVE  /\ \A k \in DOMAIN nodes' : controls'[i].port \notin nodes'[k].outputs
               /\ \A k \in DOMAIN controls' : controls'[i].port = controls'[k].port => i = k
    <3>1. CASE i \in DOMAIN controls
      BY <1>1, <1>2, <1>3, <2>1, <2>2, <2>4, <3>1
    <3>2. CASE i \in c..d
      BY <1>1, <1>2, <1>3, <2>1, <2>2, <2>3, <3>2
    <3> QED
      BY <1>3, <3>1, <3>2
  <2>6. ASSUME NEW i \in DOMAIN controls'
        PROVE  /\ controls'[i] \in [type : {"Input_Boolean", "Input_String"},
                                    node : DOMAIN nodes', port : DOMAIN ports', value : Texts]
               /\ ports'[controls'[i].port] = controls'[i].node
    BY <1>3, <2>1, <2>2
  <2> QED
    BY <2>5, <2>6 DEF ControlsOK
<1>9. ConnectionsOK'
  <2>1. ASSUME NEW k \in DOMAIN connections'
        PROVE  /\ connections'[k] \in [outputPort : DOMAIN ports', outputNode : DOMAIN nodes',
                                       inputPort : DOMAIN ports', inputNode : DOMAIN nodes']
               /\ connections'[k].outputNode \in DOMAIN nodes'
               /\ connections'[k].outputPort \in nodes'[connections'[k].outputNode].outputs
               /\ \E i \in DOMAIN controls' :
                    /\ controls'[i].port = connections'[k].inputPort
                    /\ controls'[i].node = connections'[k].inputNode
                    /\ connections'[k].inputNode \in DOMAIN nodes'
                    /\ i \in nodeControlIds'[connections'[k].inputNode]
    BY <1>1, <1>2, <1>3 DEF GraphOK, ConnectionsOK, ConnectionsJoin
  <2> QED
    BY <2>1 DEF ConnectionsOK, ConnectionsJoin
<1> QED
  BY <1>4, <1>5, <1>6, <1>7, <1>8, <1>9 DEF GraphOK

\* A connection joins what was drawn when it was dropped, and overwrites none.
LEMMA ConnectionAddedKeeps ==
  ASSUME GraphOK, QueueOK, ReduceConnectionAdded
  PROVE  GraphOK' /\ Kept /\ queue' = Tail(queue) /\ alive' = alive /\ current' = current
<1> DEFINE out == Head(queue).outputPort
           in == Head(queue).inputPort
           k == NextIndex(connections)
<1>1. Reducing("CONNECTION_ADDED")
  BY Zenon DEF ReduceConnectionAdded
<1>2. out \in OutputPorts /\ in \in InputPorts
  <2>1. Head(queue) \in Actions /\ Head(queue).type = "CONNECTION_ADDED"
    BY <1>1, HeadOfQueue
  <2> QED
    BY <2>1 DEF Actions
<1>3. /\ out \in DOMAIN ports /\ in \in DOMAIN ports
      /\ ports[out] \in DOMAIN nodes /\ out \in nodes[ports[out]].outputs
      /\ ports[in] \in DOMAIN nodes
      /\ \E c \in nodeControlIds[ports[in]] :
           c \in DOMAIN controls /\ controls[c].port = in /\ controls[c].node = ports[in]
  BY <1>2, Drawn
<1>4. k \in Nat \ {0} /\ DOMAIN connections = 1..(k - 1)
  BY DenseNext DEF GraphOK, Indexed
<1>5. /\ connections' = [i \in DOMAIN connections \cup {k} |->
                           IF i \in {k}
                           THEN [outputPort |-> out, outputNode |-> ports[out],
                                 inputPort |-> in, inputNode |-> ports[in]]
                           ELSE connections[i]]
      /\ UNCHANGED <<nodes, ports, controls, nodeControlIds, current>>
      /\ queue' = Tail(queue) /\ alive' = alive
  BY <1>3 DEF ReduceConnectionAdded, Put, Rerender
<1> HIDE DEF out, in, k
<1>6. /\ DOMAIN connections' = 1..k
      /\ \A i \in DOMAIN connections : i # k /\ connections'[i] = connections[i]
      /\ connections'[k] = [outputPort |-> out, outputNode |-> ports[out],
                            inputPort |-> in, inputNode |-> ports[in]]
  BY <1>4, <1>5
<1>7. Kept
  BY <1>4, <1>5, <1>6 DEF Kept
<1>8. Indexed' /\ NodesOK' /\ PortsOK' /\ ControlsOK'
  BY <1>4, <1>5, <1>6 DEF GraphOK, Indexed, Dense, NodesOK, PortsOK, ControlsOK
<1>9. ConnectionsOK'
  <2>1. ASSUME NEW i \in DOMAIN connections'
        PROVE  /\ connections'[i] \in [outputPort : DOMAIN ports, outputNode : DOMAIN nodes,
                                       inputPort : DOMAIN ports, inputNode : DOMAIN nodes]
               /\ connections'[i].outputNode \in DOMAIN nodes
               /\ connections'[i].outputPort \in nodes[connections'[i].outputNode].outputs
               /\ \E c \in DOMAIN controls :
                    /\ controls[c].port = connections'[i].inputPort
                    /\ controls[c].node = connections'[i].inputNode
                    /\ connections'[i].inputNode \in DOMAIN nodes
                    /\ c \in nodeControlIds[connections'[i].inputNode]
    <3>1. CASE i = k
      BY <1>3, <1>6, <3>1
    <3>2. CASE i \in DOMAIN connections
      BY <1>6, <3>2 DEF GraphOK, ConnectionsOK, ConnectionsJoin
    <3> QED
      BY <1>4, <1>6, <3>1, <3>2
  <2>2. ASSUME NEW i \in DOMAIN connections'
        PROVE  /\ connections'[i] \in [outputPort : DOMAIN ports', outputNode : DOMAIN nodes',
                                       inputPort : DOMAIN ports', inputNode : DOMAIN nodes']
               /\ connections'[i].outputNode \in DOMAIN nodes'
               /\ connections'[i].outputPort \in nodes'[connections'[i].outputNode].outputs
               /\ \E c \in DOMAIN controls' :
                    /\ controls'[c].port = connections'[i].inputPort
                    /\ controls'[c].node = connections'[i].inputNode
                    /\ connections'[i].inputNode \in DOMAIN nodes'
                    /\ c \in nodeControlIds'[connections'[i].inputNode]
    BY <1>5, <2>1
  <2> QED
    BY <2>2 DEF ConnectionsOK, ConnectionsJoin
<1> QED
  BY <1>5, <1>7, <1>8, <1>9 DEF GraphOK

\* An update finds the control it was drawn for, and one of its type.
LEMMA ControlUpdatedKeeps ==
  ASSUME GraphOK, QueueOK, ReduceControlUpdated
  PROVE  /\ GraphOK' /\ Kept /\ queue' = Tail(queue) /\ alive' = alive
         /\ UNCHANGED <<nodes, current>>
<1> DEFINE c == Head(queue).index
<1>1. \/ Reducing("CONTROL_INPUT_STRING_UPDATED")
      \/ Reducing("CONTROL_INPUT_BOOLEAN_UPDATED")
  BY Zenon DEF ReduceControlUpdated
<1>2. /\ c \in DOMAIN controls /\ Head(queue).value \in Texts
      /\ \/ Head(queue).type = "CONTROL_INPUT_BOOLEAN_UPDATED"
         \/ controls[c].type = "Input_String"
  <2>1. CASE Reducing("CONTROL_INPUT_STRING_UPDATED")
    <3>1. Head(queue) \in Actions /\ Head(queue).type = "CONTROL_INPUT_STRING_UPDATED"
      BY <2>1, HeadOfQueue
    <3> QED
      BY <3>1 DEF Actions
  <2>2. CASE Reducing("CONTROL_INPUT_BOOLEAN_UPDATED")
    <3>1. Head(queue) \in Actions /\ Head(queue).type = "CONTROL_INPUT_BOOLEAN_UPDATED"
      BY <2>2, HeadOfQueue
    <3> QED
      BY <3>1 DEF Actions
  <2> QED
    BY <1>1, <2>1, <2>2
<1>3. /\ controls' = [controls EXCEPT ![c].value = Head(queue).value]
      /\ UNCHANGED <<nodes, ports, nodeControlIds, connections, current>>
      /\ queue' = Tail(queue) /\ alive' = alive
  BY <1>2 DEF ReduceControlUpdated, Rerender
<1> HIDE DEF c
<1>4. /\ DOMAIN controls' = DOMAIN controls
      /\ \A i \in DOMAIN controls :
           /\ controls'[i] \in [type : {"Input_Boolean", "Input_String"}, node : DOMAIN nodes,
                                port : DOMAIN ports, value : Texts]
           /\ controls'[i].type = controls[i].type /\ controls'[i].node = controls[i].node
           /\ controls'[i].port = controls[i].port
  BY <1>2, <1>3 DEF GraphOK, ControlsOK
<1>5. Kept
  BY <1>3, <1>4 DEF Kept
<1>6. Indexed' /\ NodesOK' /\ PortsOK'
  BY <1>3, <1>4 DEF GraphOK, Indexed, Dense, NodesOK, PortsOK
<1>7. ControlsOK'
  BY <1>3, <1>4 DEF GraphOK, ControlsOK
<1>8. ConnectionsOK'
  BY <1>3, <1>4 DEF GraphOK, ConnectionsOK, ConnectionsJoin
<1> QED
  BY <1>3, <1>5, <1>6, <1>7, <1>8 DEF GraphOK

\* A move changes the position of the selected node only, or blanks the page
\* because none is selected.
LEMMA PositionUpdatedKeeps ==
  ASSUME GraphOK, QueueOK, MouseOK, ReduceNodePositionUpdated
  PROVE  /\ GraphOK' /\ Kept /\ current' = current /\ twoDrags' = twoDrags
         /\ \/ /\ current \in DOMAIN nodes
               /\ queue' = Tail(queue) /\ alive' = alive
               /\ DOMAIN nodes' = DOMAIN nodes
               /\ nodes'[current].position = Head(queue).position
               /\ \A n \in DOMAIN nodes \ {current} : nodes'[n] = nodes[n]
            \/ /\ current \notin DOMAIN nodes
               /\ alive' = FALSE /\ queue' = << >> /\ UNCHANGED <<graph, mouse>>
<1>1. /\ Head(queue).type = "NODE_POSITION_UPDATED" /\ Head(queue) \in Actions
      /\ Reducing("NODE_POSITION_UPDATED")
  <2>1. Reducing("NODE_POSITION_UPDATED")
    BY Zenon DEF ReduceNodePositionUpdated
  <2> QED
    BY <2>1, HeadOfQueue
<1>2. CASE current \in DOMAIN nodes
  <2> DEFINE at == Head(queue).position
  <2>1. at \in Nat
    <3>1. at \in DOMAIN nodes
      BY <1>1 DEF Actions
    <3>2. DOMAIN nodes \subseteq Nat
      BY DEF GraphOK, Indexed, Dense
    <3> QED
      BY <3>1, <3>2
  <2>2. /\ nodes' = [nodes EXCEPT ![current].position = at]
        /\ UNCHANGED <<ports, controls, nodeControlIds, connections, current, twoDrags>>
        /\ queue' = Tail(queue) /\ alive' = alive
    BY <1>2 DEF ReduceNodePositionUpdated, Rerender
  <2> HIDE DEF at
  <2>3. /\ DOMAIN nodes' = DOMAIN nodes
        /\ nodes'[current].position = at
        /\ \A n \in DOMAIN nodes \ {current} : nodes'[n] = nodes[n]
        /\ \A n \in DOMAIN nodes :
             /\ nodes'[n] \in [type : StoredTypes, position : Nat,
                               outputs : SUBSET DOMAIN ports]
             /\ nodes'[n].type = nodes[n].type /\ nodes'[n].outputs = nodes[n].outputs
    BY <1>2, <2>1, <2>2 DEF GraphOK, NodesOK
  <2>4. Kept
    BY <2>2, <2>3 DEF Kept
  <2>5. Indexed' /\ PortsOK'
    BY <2>2, <2>3 DEF GraphOK, Indexed, Dense, PortsOK
  <2>6. NodesOK'
    BY <2>2, <2>3 DEF GraphOK, NodesOK
  <2>7. ControlsOK'
    BY <2>2, <2>3 DEF GraphOK, ControlsOK
  <2>8. ConnectionsOK'
    BY <2>2, <2>3 DEF GraphOK, ConnectionsOK, ConnectionsJoin
  <2> QED
    BY <1>2, <2>2, <2>3, <2>4, <2>5, <2>6, <2>7, <2>8 DEF GraphOK, at
<1>3. CASE current \notin DOMAIN nodes
  <2>1. Throw
    BY <1>3 DEF ReduceNodePositionUpdated
  <2> QED
    BY <1>3, <2>1, UnchangedGraph DEF Throw
<1> QED
  BY <1>2, <1>3
-----------------------------------------------------------------------------
LEMMA SeqWider ==
  ASSUME NEW S, NEW T, S \subseteq T, NEW q \in Seq(S)
  PROVE  q \in Seq(T)
OBVIOUS

\* A re-render changes no listener but for its freshness.
LEMMA StaleTyped ==
  ASSUME NEW S, NEW drags \in Seq(Listener(S))
  PROVE  /\ Stale(drags) \in Seq(Listener(S)) /\ Len(Stale(drags)) = Len(drags)
         /\ \A i \in 1..Len(drags) : Stale(drags)[i].at = drags[i].at
<1>1. /\ DOMAIN drags = 1..Len(drags) /\ Len(drags) \in Nat
      /\ \A i \in 1..Len(drags) : drags[i] \in Listener(S)
  OBVIOUS
<1>2. ASSUME NEW i \in 1..Len(drags)
      PROVE  /\ [drags[i] EXCEPT !.fresh = FALSE] \in Listener(S)
             /\ [drags[i] EXCEPT !.fresh = FALSE].at = drags[i].at
  <2>1. drags[i] \in Listener(S)
    BY <1>1
  <2> QED
    BY <2>1 DEF Listener
<1>3. /\ DOMAIN Stale(drags) = 1..Len(drags)
      /\ \A i \in 1..Len(drags) : Stale(drags)[i] = [drags[i] EXCEPT !.fresh = FALSE]
  BY <1>1 DEF Stale
<1>4. Stale(drags) = [i \in 1..Len(drags) |-> Stale(drags)[i]]
  BY <1>1 DEF Stale
<1>5. \A i \in 1..Len(drags) : Stale(drags)[i] \in Listener(S) /\ Stale(drags)[i].at = drags[i].at
  BY <1>2, <1>3
<1> QED
  BY <1>1, <1>3, <1>4, <1>5

LEMMA Rerendered ==
  ASSUME Typed, GraphOK', Kept, Rerender, queue # << >>,
         current' \in DOMAIN nodes' \cup {NoNode}
  PROVE  Typed'
<1>1. /\ DOMAIN nodes \subseteq DOMAIN nodes'
      /\ OutputPorts \subseteq OutputPorts' /\ Actions \subseteq Actions'
  BY KeptActions DEF Typed
<1>2. queue' \in Seq(Actions')
  <2>1. Tail(queue) \in Seq(Actions)
    BY DEF Typed, QueueOK
  <2> QED
    BY <1>1, <2>1, SeqWider DEF Rerender
<1>3. nodeDrags' \in Seq(Listener(DOMAIN nodes')) /\ menuDrags' \in Seq(Listener(MenuTypes))
  <2>1. Stale(nodeDrags) \in Seq(Listener(DOMAIN nodes))
        /\ Stale(menuDrags) \in Seq(Listener(MenuTypes))
    BY StaleTyped DEF Typed, MouseOK
  <2>2. Listener(DOMAIN nodes) \subseteq Listener(DOMAIN nodes')
    BY <1>1 DEF Listener
  <2> QED
    BY <2>1, <2>2, SeqWider DEF Rerender
<1>4. portDrags' \in Seq(OutputPorts')
  BY <1>1, SeqWider DEF Rerender, Typed, MouseOK
<1>5. /\ UNCHANGED <<alive, twoDrags, held, pressed, pressedMenu>>
      /\ alive \in BOOLEAN /\ twoDrags \in BOOLEAN
      /\ held \in 0..Buttons /\ pressed \subseteq DOMAIN nodes /\ pressedMenu \subseteq MenuTypes
  BY DEF Rerender, Typed, MouseOK
<1>6. MouseOK'
  BY <1>1, <1>3, <1>4, <1>5 DEF MouseOK
<1> QED
  BY <1>2, <1>6 DEF Typed, QueueOK

\* What the screen shows and the queue may hold depends on the flow alone.
LEMMA SameScreen ==
  ASSUME UNCHANGED graph
  PROVE  /\ Actions' = Actions /\ OutputPorts' = OutputPorts /\ InputPorts' = InputPorts
         /\ nodes' = nodes
BY DEF graph, Actions, OutputPorts, InputPorts

LEMMA Thrown ==
  ASSUME Typed, UNCHANGED <<graph, current, mouse, twoDrags>>, alive' = FALSE, queue' = << >>
  PROVE  Typed' /\ Kept
<1>1. GraphOK' /\ Kept
  BY UnchangedGraph DEF Typed
<1>2. MouseOK'
  BY SameScreen DEF Typed, MouseOK, mouse
<1> QED
  BY <1>1, <1>2 DEF Typed, QueueOK

\* The reducer keeps the types, and the flow.
LEMMA ReduceKeeps ==
  ASSUME Typed, Reduce
  PROVE  Typed' /\ Kept
<1>0. GraphOK /\ MouseOK /\ QueueOK
  BY DEF Typed
<1>1. CASE ReduceNodeAdded
  <2>1. Rerender /\ connections' = connections /\ current' = current /\ Reducing("NODE_ADDED")
    BY <1>1, Zenon DEF ReduceNodeAdded
  <2>2. GraphOK' /\ Kept
    BY <1>0, <1>1, <2>1, NodeAddedAdds, AddedKeeps
  <2>3. current' \in DOMAIN nodes' \cup {NoNode}
    BY <1>0, <2>1, <2>2, KeptActions DEF MouseOK
  <2> QED
    BY <2>1, <2>2, <2>3, Rerendered DEF Reducing
<1>2. CASE ReduceConnectionAdded
  <2>1. GraphOK' /\ Kept /\ current' = current /\ alive' = alive
    BY <1>0, <1>2, ConnectionAddedKeeps
  <2>2. Reducing("CONNECTION_ADDED") /\ (Rerender \/ Throw)
    BY <1>2, Zenon DEF ReduceConnectionAdded
  <2>3. CASE Rerender
    <3>1. current' \in DOMAIN nodes' \cup {NoNode}
      BY <1>0, <2>1, KeptActions DEF MouseOK
    <3> QED
      BY <2>1, <2>2, <2>3, <3>1, Rerendered DEF Reducing
  <2>4. CASE Throw
    BY <2>4, Thrown DEF Throw
  <2> QED
    BY <2>2, <2>3, <2>4
<1>3. CASE ReduceControlUpdated
  <2>1. GraphOK' /\ Kept /\ current' = current
    BY <1>0, <1>3, ControlUpdatedKeeps
  <2>2. queue # << >> /\ (Rerender \/ Throw)
    BY <1>3, Zenon DEF ReduceControlUpdated, Reducing
  <2>3. CASE Rerender
    <3>1. current' \in DOMAIN nodes' \cup {NoNode}
      BY <1>0, <2>1, KeptActions DEF MouseOK
    <3> QED
      BY <2>1, <2>2, <2>3, <3>1, Rerendered
  <2>4. CASE Throw
    BY <2>4, Thrown DEF Throw
  <2> QED
    BY <2>2, <2>3, <2>4
<1>4. CASE ReduceNodeSelected
  <2>1. Reducing("NODE_SELECTED") /\ Rerender /\ UNCHANGED graph /\ current' = Head(queue).index
    BY <1>4 DEF ReduceNodeSelected
  <2>2. Head(queue) \in Actions /\ Head(queue).type = "NODE_SELECTED" /\ queue # << >>
    BY <1>0, <2>1, HeadOfQueue
  <2>3. Head(queue).index \in DOMAIN nodes
    BY <2>2 DEF Actions
  <2>4. GraphOK' /\ Kept /\ nodes' = nodes
    BY <1>0, <2>1, UnchangedGraph, SameScreen
  <2> QED
    BY <2>1, <2>2, <2>3, <2>4, Rerendered
<1>5. CASE ReduceNodeUnselected
  <2>1. queue # << >> /\ Rerender /\ UNCHANGED graph /\ current' = NoNode
    BY <1>5 DEF ReduceNodeUnselected, Reducing
  <2>2. GraphOK' /\ Kept
    BY <1>0, <2>1, UnchangedGraph
  <2> QED
    BY <2>1, <2>2, Rerendered
<1>6. CASE ReduceNodePositionUpdated
  <2>1. GraphOK' /\ Kept /\ current' = current
    BY <1>0, <1>6, PositionUpdatedKeeps
  <2>2. queue # << >> /\ (Rerender \/ Throw)
    BY <1>6, Zenon DEF ReduceNodePositionUpdated, Reducing
  <2>3. CASE Rerender
    <3>1. current' \in DOMAIN nodes' \cup {NoNode}
      BY <1>0, <2>1, KeptActions DEF MouseOK
    <3> QED
      BY <2>1, <2>2, <2>3, <3>1, Rerendered
  <2>4. CASE Throw
    BY <2>4, Thrown DEF Throw
  <2> QED
    BY <2>2, <2>3, <2>4
<1>7. CASE ReduceCanvasSet
  <2>1. queue # << >> /\ Rerender /\ UNCHANGED graph /\ current' = current
    BY <1>7 DEF ReduceCanvasSet, Reducing
  <2>2. GraphOK' /\ Kept /\ nodes' = nodes
    BY <1>0, <2>1, UnchangedGraph, SameScreen
  <2> QED
    BY <1>0, <2>1, <2>2, Rerendered DEF MouseOK
<1> QED
  BY <1>1, <1>2, <1>3, <1>4, <1>5, <1>6, <1>7 DEF Reduce
-----------------------------------------------------------------------------
\* The user and the page change no flow: they press, drag and queue actions.
LEMMA MouseKeeps ==
  ASSUME Typed, UNCHANGED <<graph, current, alive>>, twoDrags' \in BOOLEAN,
         held' \in 0..Buttons, pressed' \subseteq DOMAIN nodes,
         pressedMenu' \subseteq MenuTypes,
         nodeDrags' \in Seq(Listener(DOMAIN nodes)), menuDrags' \in Seq(Listener(MenuTypes)),
         portDrags' \in Seq(OutputPorts), queue' \in Seq(Actions)
  PROVE  Typed' /\ Kept
<1>1. GraphOK' /\ Kept
  BY UnchangedGraph DEF Typed
<1>2. /\ Actions' = Actions /\ OutputPorts' = OutputPorts /\ nodes' = nodes
      /\ current' = current /\ alive' = alive
  BY SameScreen
<1>3. MouseOK'
  BY <1>2 DEF Typed, MouseOK
<1> QED
  BY <1>1, <1>2, <1>3 DEF Typed, QueueOK

\* What the listeners dispatch may be queued.
LEMMA DispatchedActions ==
  /\ \A n \in DOMAIN nodes : NodeSelected(n) \in Actions /\ NodePositionUpdated(n) \in Actions
  /\ NodeUnselected \in Actions /\ CanvasSet \in Actions
  /\ \A t \in MenuTypes : NodeAdded(t) \in Actions
  /\ \A out \in OutputPorts, in \in InputPorts : ConnectionAdded(out, in) \in Actions
BY DEF Actions, NodeSelected, NodePositionUpdated, NodeUnselected, CanvasSet, NodeAdded,
       ConnectionAdded

LEMMA EditDispatches ==
  ASSUME NEW c \in DOMAIN controls, NEW v \in Texts, EditControl(c, v)
  PROVE  \E a \in Actions : Dispatch(a)
<1>1. CASE controls[c].type = "Input_String"
  <2>1. ControlUpdated("CONTROL_INPUT_STRING_UPDATED", c, v) \in Actions
    BY <1>1 DEF Actions, ControlUpdated
  <2> QED
    BY <1>1, <2>1 DEF EditControl
<1>2. CASE controls[c].type = "Input_Boolean"
  <2>1. ControlUpdated("CONTROL_INPUT_BOOLEAN_UPDATED", c, v) \in Actions
    BY DEF Actions, ControlUpdated
  <2> QED
    BY <1>2, <2>1 DEF EditControl
<1> QED
  BY <1>1, <1>2 DEF EditControl

LEMMA DragsTyped ==
  ASSUME NEW S, NEW drags \in Seq(Listener(S))
  PROVE  /\ DOMAIN drags = 1..Len(drags) /\ Len(drags) \in Nat
         /\ \A i \in 1..Len(drags) : drags[i].at \in S
         /\ \A at \in S : Register(drags, at) \in Seq(Listener(S))
<1>1. /\ DOMAIN drags = 1..Len(drags) /\ Len(drags) \in Nat
      /\ \A i \in 1..Len(drags) : drags[i] \in Listener(S)
  OBVIOUS
<1>2. ASSUME NEW i \in 1..Len(drags)  PROVE drags[i].at \in S
  <2>1. drags[i] \in Listener(S)
    BY <1>1
  <2> QED
    BY <2>1 DEF Listener
<1>3. ASSUME NEW at \in S  PROVE Register(drags, at) \in Seq(Listener(S))
  <2>1. [at |-> at, fresh |-> TRUE] \in Listener(S)
    BY DEF Listener
  <2>2. Append(drags, [at |-> at, fresh |-> TRUE]) \in Seq(Listener(S))
    BY <2>1
  <2> QED
    BY <2>2 DEF Register
<1> QED
  BY <1>1, <1>2, <1>3

LEMMA MovesTyped ==
  ASSUME NEW drags \in Seq(Listener(DOMAIN nodes))
  PROVE  /\ Moves(drags) \in Seq(Actions) /\ Len(Moves(drags)) = Len(drags)
         /\ \A i \in 1..Len(drags) : Moves(drags)[i] = NodePositionUpdated(drags[i].at)
<1>1. /\ DOMAIN drags = 1..Len(drags) /\ Len(drags) \in Nat
      /\ \A i \in 1..Len(drags) : drags[i].at \in DOMAIN nodes
  BY DragsTyped
<1>2. \A i \in 1..Len(drags) : NodePositionUpdated(drags[i].at) \in Actions
  BY <1>1, DispatchedActions
<1>3. Moves(drags) = [i \in 1..Len(drags) |-> NodePositionUpdated(drags[i].at)]
  BY <1>1 DEF Moves
<1> QED
  BY <1>1, <1>2, <1>3

LEMMA ReleaseTyped ==
  ASSUME Typed, NEW target
  PROVE  Connects(target) \in Seq(Actions) /\ Drops \in Seq(Actions) /\ Adds \in Seq(Actions)
<1>0. /\ nodeDrags \in Seq(Listener(DOMAIN nodes)) /\ menuDrags \in Seq(Listener(MenuTypes))
      /\ portDrags \in Seq(OutputPorts)
  BY DEF Typed, MouseOK
<1>1. Connects(target) \in Seq(Actions)
  <2>1. CASE target \in InputPorts
    <3>1. /\ DOMAIN portDrags = 1..Len(portDrags) /\ Len(portDrags) \in Nat
          /\ \A i \in 1..Len(portDrags) : portDrags[i] \in OutputPorts
      BY <1>0
    <3>2. \A i \in 1..Len(portDrags) : ConnectionAdded(portDrags[i], target) \in Actions
      BY <2>1, <3>1, DispatchedActions
    <3>3. Connects(target) = [i \in 1..Len(portDrags) |-> ConnectionAdded(portDrags[i], target)]
      BY <2>1, <3>1 DEF Connects
    <3> QED
      BY <3>1, <3>2, <3>3
  <2>2. CASE target \notin InputPorts
    BY <2>2 DEF Connects
  <2> QED
    BY <2>1, <2>2
<1>2. Drops \in Seq(Actions)
  <2>1. /\ Len(nodeDrags) \in Nat
        /\ \A i \in 1..Len(nodeDrags) : nodeDrags[i].at \in DOMAIN nodes
    BY <1>0, DragsTyped
  <2>2. ASSUME NEW i \in 1 .. 2 * Len(nodeDrags)
        PROVE  (IF i % 2 = 1 THEN NodePositionUpdated(nodeDrags[(i + 1) \div 2].at)
                ELSE NodeUnselected) \in Actions
    <3>1. CASE i % 2 = 1
      <4>1. (i + 1) \div 2 \in 1..Len(nodeDrags)
        BY <2>1, <3>1
      <4>2. nodeDrags[(i + 1) \div 2].at \in DOMAIN nodes
        BY <2>1, <4>1
      <4> QED
        BY <3>1, <4>2, DispatchedActions
    <3>2. CASE i % 2 # 1
      BY <3>2, DispatchedActions
    <3> QED
      BY <3>1, <3>2
  <2> QED
    BY <2>1, <2>2 DEF Drops
<1>3. Adds \in Seq(Actions)
  <2>1. /\ DOMAIN menuDrags = 1..Len(menuDrags) /\ Len(menuDrags) \in Nat
        /\ \A i \in 1..Len(menuDrags) : menuDrags[i].at \in MenuTypes
    BY <1>0, DragsTyped
  <2>2. \A i \in 1..Len(menuDrags) : NodeAdded(menuDrags[i].at) \in Actions
    BY <2>1, DispatchedActions
  <2>3. Adds = [i \in 1..Len(menuDrags) |-> NodeAdded(menuDrags[i].at)]
    BY <2>1 DEF Adds
  <2> QED
    BY <2>1, <2>2, <2>3
<1> QED
  BY <1>1, <1>2, <1>3

LEMMA UserKeeps ==
  ASSUME Typed, Next, ~Reduce, ~Reload
  PROVE  Typed' /\ Kept
<1>0. /\ alive \in BOOLEAN /\ twoDrags \in BOOLEAN /\ held \in 0..Buttons /\ Buttons \in Nat
      /\ pressed \subseteq DOMAIN nodes /\ pressedMenu \subseteq MenuTypes
      /\ nodeDrags \in Seq(Listener(DOMAIN nodes)) /\ menuDrags \in Seq(Listener(MenuTypes))
      /\ portDrags \in Seq(OutputPorts) /\ queue \in Seq(Actions)
  BY BoundsAssumption DEF Typed, MouseOK, QueueOK
<1>1. ASSUME NEW n \in DOMAIN nodes, PressNode(n)  PROVE Typed' /\ Kept
  <2>1. /\ UNCHANGED <<graph, current, queue, alive, pressedMenu, nodeDrags, menuDrags,
                       portDrags, twoDrags>>
        /\ held' \in 0..Buttons /\ pressed' \subseteq DOMAIN nodes
    BY <1>0, <1>1 DEF PressNode, Press
  <2> QED
    BY <1>0, <2>1, MouseKeeps
<1>2. ASSUME NEW n \in DOMAIN nodes, StartNodeDrag(n)  PROVE Typed' /\ Kept
  <2>1. /\ UNCHANGED <<graph, current, alive, held, pressedMenu, menuDrags, portDrags>>
        /\ pressed' \subseteq DOMAIN nodes /\ twoDrags' \in BOOLEAN
        /\ nodeDrags' = Register(nodeDrags, n)
        /\ queue' = queue \o <<NodeSelected(n)>> \o Moves(nodeDrags')
    BY <1>0, <1>2 DEF StartNodeDrag
  <2>2. nodeDrags' \in Seq(Listener(DOMAIN nodes))
    BY <1>0, <2>1, DragsTyped
  <2>3. Moves(nodeDrags') \in Seq(Actions) /\ NodeSelected(n) \in Actions
    BY <2>2, MovesTyped, DispatchedActions
  <2>4. queue' \in Seq(Actions)
    BY <1>0, <2>1, <2>3
  <2> QED
    BY <1>0, <2>1, <2>2, <2>4, MouseKeeps
<1>3. ASSUME NEW t \in MenuTypes, PressMenu(t)  PROVE Typed' /\ Kept
  <2>1. /\ UNCHANGED <<graph, current, queue, alive, pressed, nodeDrags, menuDrags,
                       portDrags, twoDrags>>
        /\ held' \in 0..Buttons /\ pressedMenu' \subseteq MenuTypes
    BY <1>0, <1>3 DEF PressMenu, Press
  <2> QED
    BY <1>0, <2>1, MouseKeeps
<1>4. ASSUME NEW t \in MenuTypes, StartMenuDrag(t)  PROVE Typed' /\ Kept
  <2>1. /\ UNCHANGED <<graph, current, alive, held, pressed, nodeDrags, portDrags, twoDrags>>
        /\ pressedMenu' \subseteq MenuTypes
        /\ menuDrags' = Register(menuDrags, t) /\ queue' = queue \o Moves(nodeDrags)
    BY <1>0, <1>4 DEF StartMenuDrag
  <2>2. menuDrags' \in Seq(Listener(MenuTypes))
    BY <1>0, <2>1, DragsTyped
  <2>3. queue' \in Seq(Actions)
    BY <1>0, <2>1, MovesTyped
  <2> QED
    BY <1>0, <2>1, <2>2, <2>3, MouseKeeps
<1>5. ASSUME NEW p, PressPort(p)  PROVE Typed' /\ Kept
  <2>1. /\ UNCHANGED <<graph, current, queue, alive, pressed, pressedMenu, nodeDrags,
                       menuDrags, twoDrags>>
        /\ held' \in 0..Buttons /\ portDrags' = Append(portDrags, p) /\ p \in OutputPorts
    BY <1>0, <1>5 DEF PressPort, Press
  <2>2. portDrags' \in Seq(OutputPorts)
    BY <1>0, <2>1
  <2> QED
    BY <1>0, <2>1, <2>2, MouseKeeps
<1>6. ASSUME NEW target, Release(target)  PROVE Typed' /\ Kept
  <2>1. /\ UNCHANGED <<graph, current, alive, twoDrags>>
        /\ held' \in 0..Buttons
        /\ pressed' = {} /\ pressedMenu' = {}
        /\ portDrags' = << >> /\ nodeDrags' = << >> /\ menuDrags' = << >>
        /\ queue' = queue \o Connects(target) \o Drops \o Adds
    BY <1>0, <1>6 DEF Release
  <2>2. queue' \in Seq(Actions)
    BY <1>0, <2>1, ReleaseTyped
  <2> QED
    BY <1>0, <2>1, <2>2, MouseKeeps
<1>7. ASSUME NEW c \in DOMAIN controls, NEW v \in Texts, EditControl(c, v)  PROVE Typed' /\ Kept
  <2>1. \E a \in Actions : Dispatch(a)
    BY <1>7, EditDispatches
  <2>2. UNCHANGED <<graph, current, alive, mouse, twoDrags>> /\ queue' \in Seq(Actions)
    BY <1>0, <2>1 DEF Dispatch
  <2> QED
    BY <1>0, <2>2, MouseKeeps DEF mouse
<1>8. CASE Drag
  <2>1. UNCHANGED <<graph, current, alive, mouse, twoDrags>> /\ queue' \in Seq(Actions)
    BY <1>0, <1>8, MovesTyped DEF Drag
  <2> QED
    BY <1>0, <2>1, MouseKeeps DEF mouse
<1>9. CASE ReleaseUnseen
  <2>1. /\ UNCHANGED <<graph, current, queue, alive, pressed, pressedMenu, nodeDrags,
                       menuDrags, portDrags, twoDrags>>
        /\ held' \in 0..Buttons
    BY <1>0, <1>9 DEF ReleaseUnseen
  <2> QED
    BY <1>0, <2>1, MouseKeeps
<1>10. CASE Resize
  <2>1. UNCHANGED <<graph, current, alive, mouse, twoDrags>> /\ queue' \in Seq(Actions)
    BY <1>0, <1>10, DispatchedActions DEF Resize, Dispatch
  <2> QED
    BY <1>0, <2>1, MouseKeeps DEF mouse
<1> QED
  BY <1>1, <1>2, <1>3, <1>4, <1>5, <1>6, <1>7, <1>8, <1>9, <1>10 DEF Next

LEMMA EmptyTyped ==
  ASSUME nodes = << >>, ports = << >>, controls = << >>, nodeControlIds = << >>,
         connections = << >>, current = NoNode, queue = << >>, alive = TRUE, held = 0,
         pressed = {}, pressedMenu = {}, nodeDrags = << >>, menuDrags = << >>,
         portDrags = << >>, twoDrags = FALSE
  PROVE  Typed
<1>1. \A map : map = << >> => Dense(map) /\ DOMAIN map = {}
  <2>1. DOMAIN << >> = 1..0 /\ 1..0 = {}
    OBVIOUS
  <2> QED
    BY <2>1 DEF Dense
<1>2. GraphOK
  BY <1>1 DEF GraphOK, Indexed, NodesOK, PortsOK, ControlsOK, ConnectionsOK, ConnectionsJoin
<1>3. MouseOK
  <2>1. 0 \in 0..Buttons /\ \A S : << >> \in Seq(S)
    BY BoundsAssumption
  <2> QED
    BY <2>1 DEF MouseOK
<1> QED
  BY <1>2, <1>3 DEF Typed, QueueOK

LEMMA Reloaded ==
  ASSUME Reload
  PROVE  Typed'
<1>1. \A map : map = << >> => Dense(map) /\ DOMAIN map = {}
  <2>1. DOMAIN << >> = 1..0 /\ 1..0 = {}
    OBVIOUS
  <2> QED
    BY <2>1 DEF Dense
<1>2. GraphOK'
  BY <1>1 DEF Reload, GraphOK, Indexed, NodesOK, PortsOK, ControlsOK, ConnectionsOK,
              ConnectionsJoin
<1>3. MouseOK'
  <2>1. 0 \in 0..Buttons /\ \A S : << >> \in Seq(S)
    BY BoundsAssumption
  <2> QED
    BY <2>1 DEF Reload, MouseOK
<1> QED
  BY <1>2, <1>3 DEF Reload, Typed, QueueOK

LEMMA TypedInvariant == Spec => []Typed
<1>1. Init => Typed
  BY EmptyTyped DEF Init, EmptyGraph
<1>2. Typed /\ [Next]_vars => Typed'
  <2> SUFFICES ASSUME Typed, [Next]_vars  PROVE Typed'
    OBVIOUS
  <2>1. CASE Reduce
    BY <2>1, ReduceKeeps
  <2>2. CASE Reload
    BY <2>2, Reloaded
  <2>3. CASE Next /\ ~Reduce /\ ~Reload
    BY <2>3, UserKeeps
  <2>4. CASE UNCHANGED vars
    <3>1. UNCHANGED <<graph, current, queue, alive, mouse, twoDrags>>
      BY <2>4 DEF vars
    <3> QED
      BY <3>1, MouseKeeps DEF Typed, MouseOK, QueueOK, mouse
  <2> QED
    BY <2>1, <2>2, <2>3, <2>4
<1> QED
  BY <1>1, <1>2, PTL DEF Spec
-----------------------------------------------------------------------------
\* Every variable keeps its type: what the mouse, the queue and the selection
\* refer to is in the flow.
THEOREM TypeCorrect == Spec => []TypeOK
<1>1. Typed => TypeOK
  <2> SUFFICES ASSUME Typed  PROVE TypeOK
    OBVIOUS
  <2>1. /\ DOMAIN nodes \subseteq Nat \ {0} /\ DOMAIN ports \subseteq Nat
        /\ DOMAIN controls \subseteq Nat
    BY DEF Typed, GraphOK, Indexed, Dense
  <2>2. \A n \in DOMAIN nodes :
          nodes[n] \in [type : StoredTypes, position : Nat, outputs : SUBSET Nat]
    BY <2>1 DEF Typed, GraphOK, NodesOK
  <2>3. \A p \in DOMAIN ports : ports[p] \in Nat
    BY <2>1 DEF Typed, GraphOK, PortsOK
  <2>4. \A c \in DOMAIN controls :
          controls[c] \in [type : {"Input_Boolean", "Input_String"}, node : Nat,
                           port : Nat, value : Texts]
    BY <2>1 DEF Typed, GraphOK, ControlsOK
  <2>5. \A k \in DOMAIN connections :
          connections[k] \in [outputPort : Nat, outputNode : Nat,
                              inputPort : Nat, inputNode : Nat]
    BY <2>1 DEF Typed, GraphOK, ConnectionsOK
  <2>6. /\ current \in Nat /\ alive \in BOOLEAN /\ twoDrags \in BOOLEAN
        /\ held \in 0..Buttons
        /\ pressed \subseteq DOMAIN nodes /\ pressedMenu \subseteq MenuTypes
        /\ \A i \in DOMAIN nodeDrags : nodeDrags[i] \in Listener(DOMAIN nodes)
        /\ \A i \in DOMAIN menuDrags : menuDrags[i] \in Listener(MenuTypes)
        /\ \A i \in DOMAIN portDrags : portDrags[i] \in OutputPorts
    BY <2>1 DEF Typed, MouseOK, NoNode
  <2> QED
    BY <2>1, <2>2, <2>3, <2>4, <2>5, <2>6 DEF TypeOK
<1> QED
  BY <1>1, TypedInvariant, PTL

\* No port is drawn twice: the sizes the indices are computed from never give
\* out one that is taken.
THEOREM PortsHaveOneOwner == Spec => []PortsOwned
<1>1. Typed => PortsOwned
  BY DEF Typed, GraphOK, NodesOK, ControlsOK, PortsOwned, OutputPorts
<1> QED
  BY <1>1, TypedInvariant, PTL

\* Every connection joins an output and a control of the nodes it names,
\* whatever was queued between the drop and the reducer.
THEOREM ConnectionsAlwaysJoin == Spec => []ConnectionsJoin
<1>1. Typed => ConnectionsJoin
  BY DEF Typed, GraphOK, ConnectionsOK
<1> QED
  BY <1>1, TypedInvariant, PTL

\* A flow only grows while it is edited.
THEOREM FlowGrows == Spec => FlowOnlyGrows
<1> DEFINE Grows ==
      alive =>
        /\ \A n \in DOMAIN nodes :
             /\ n \in DOMAIN nodes'
             /\ nodes'[n].type = nodes[n].type
             /\ nodes'[n].outputs = nodes[n].outputs
             /\ nodeControlIds'[n] = nodeControlIds[n]
        /\ \A p \in DOMAIN ports : p \in DOMAIN ports' /\ ports'[p] = ports[p]
        /\ \A c \in DOMAIN controls :
             /\ c \in DOMAIN controls'
             /\ [controls'[c] EXCEPT !.value = "plain"] = [controls[c] EXCEPT !.value = "plain"]
        /\ \A k \in DOMAIN connections :
             k \in DOMAIN connections' /\ connections'[k] = connections[k]
<1>1. Typed /\ Typed' /\ [Next]_vars => [Grows]_vars
  <2> SUFFICES ASSUME Typed, Typed', Next, alive  PROVE Grows
    OBVIOUS
  <2>1. Kept
    <3>1. ~Reload
      BY DEF Reload
    <3> QED
      BY <3>1, ReduceKeeps, UserKeeps
  <2>2. ASSUME NEW c \in DOMAIN controls
        PROVE  /\ c \in DOMAIN controls'
               /\ [controls'[c] EXCEPT !.value = "plain"] = [controls[c] EXCEPT !.value = "plain"]
    <3>1. /\ c \in DOMAIN controls'
          /\ controls'[c].type = controls[c].type /\ controls'[c].node = controls[c].node
          /\ controls'[c].port = controls[c].port
      BY <2>1 DEF Kept
    <3>2. controls[c] \in [type : {"Input_Boolean", "Input_String"}, node : DOMAIN nodes,
                           port : DOMAIN ports, value : Texts]
      BY DEF Typed, GraphOK, ControlsOK
    <3>3. controls'[c] \in [type : {"Input_Boolean", "Input_String"}, node : DOMAIN nodes',
                            port : DOMAIN ports', value : Texts]
      BY <3>1 DEF Typed, GraphOK, ControlsOK
    <3> QED
      BY <3>1, <3>2, <3>3
  <2> QED
    BY <2>1, <2>2 DEF Kept
<1> QED
  BY <1>1, TypedInvariant, PTL DEF Spec, FlowOnlyGrows
-----------------------------------------------------------------------------
\* Which node is selected when the reducer, from the selection cur, comes to q[i].
Selects(a) == a.type \in {"NODE_SELECTED", "NODE_UNSELECTED"}

SelectedAt(q, cur, i, n) ==
  \/ cur = n /\ \A j \in 1..(i - 1) : ~Selects(q[j])
  \/ \E j \in 1..(i - 1) :
       /\ q[j].type = "NODE_SELECTED" /\ q[j].index = n
       /\ \A k \in (j + 1)..(i - 1) : ~Selects(q[k])

\* Every move in the queue will find the node selected that its drag began with.
Moved(q, cur) ==
  \A i \in 1..Len(q) :
    q[i].type = "NODE_POSITION_UPDATED" => SelectedAt(q, cur, i, q[i].position)

OneDrag ==
  ~twoDrags =>
    /\ alive
    /\ \A n \in DOMAIN nodes : nodes[n].position \in {NoNode, n}
    /\ Moved(queue, current)
    /\ Len(nodeDrags) <= 1
    /\ nodeDrags # << >> => SelectedAt(queue, current, Len(queue) + 1, nodeDrags[1].at)

\* The selection once the reducer has taken a.
After(a, cur) ==
  CASE a.type = "NODE_SELECTED" -> a.index
    [] a.type = "NODE_UNSELECTED" -> NoNode
    [] OTHER -> cur

LEMMA SelectedInTail ==
  ASSUME NEW S, NEW q \in Seq(S), q # << >>, NEW cur, NEW i \in 1..Len(q), NEW n,
         SelectedAt(q, cur, i + 1, n)
  PROVE  SelectedAt(Tail(q), After(Head(q), cur), i, n)
<1>1. /\ \A j \in 1..(i - 1) : j \in 1..(Len(q) - 1) /\ Tail(q)[j] = q[j + 1]
      /\ Head(q) = q[1]
  OBVIOUS
<1>2. CASE cur = n /\ \A j \in 1..i : ~Selects(q[j])
  <2>1. ~Selects(q[1])
    BY <1>2
  <2>2. After(Head(q), cur) = n
    BY <1>1, <1>2, <2>1 DEF After, Selects
  <2>3. \A j \in 1..(i - 1) : ~Selects(Tail(q)[j])
    BY <1>1, <1>2
  <2> QED
    BY <2>2, <2>3 DEF SelectedAt
<1>3. CASE \E j \in 1..i : /\ q[j].type = "NODE_SELECTED" /\ q[j].index = n
                           /\ \A k \in (j + 1)..i : ~Selects(q[k])
  <2>1. PICK j \in 1..i : /\ q[j].type = "NODE_SELECTED" /\ q[j].index = n
                          /\ \A k \in (j + 1)..i : ~Selects(q[k])
    BY <1>3
  <2>2. \A k \in j..(i - 1) : k \in 1..(i - 1) /\ ~Selects(Tail(q)[k])
    BY <1>1, <2>1
  <2>3. CASE j = 1
    <3>1. After(Head(q), cur) = n
      BY <1>1, <2>1, <2>3 DEF After
    <3>2. \A k \in 1..(i - 1) : ~Selects(Tail(q)[k])
      BY <2>2, <2>3
    <3> QED
      BY <3>1, <3>2 DEF SelectedAt
  <2>4. CASE j > 1
    <3>1. /\ j - 1 \in 1..(i - 1)
          /\ Tail(q)[j - 1].type = "NODE_SELECTED" /\ Tail(q)[j - 1].index = n
      BY <1>1, <2>1, <2>4
    <3>2. \A k \in ((j - 1) + 1)..(i - 1) : ~Selects(Tail(q)[k])
      BY <2>2
    <3> QED
      BY <3>1, <3>2 DEF SelectedAt
  <2> QED
    BY <2>3, <2>4
<1>4. (i + 1) - 1 = i
  OBVIOUS
<1>5. \/ cur = n /\ \A j \in 1..i : ~Selects(q[j])
      \/ \E j \in 1..i : /\ q[j].type = "NODE_SELECTED" /\ q[j].index = n
                        /\ \A k \in (j + 1)..i : ~Selects(q[k])
  BY <1>4, Zenon DEF SelectedAt
<1> QED
  BY <1>2, <1>3, <1>5

\* What is appended changes nothing for what is queued before.
LEMMA SelectedExtends ==
  ASSUME NEW S, NEW q \in Seq(S), NEW m \in Seq(S), NEW cur,
         NEW i \in 1..(Len(q) + 1), NEW n
  PROVE  SelectedAt(q \o m, cur, i, n) <=> SelectedAt(q, cur, i, n)
<1>1. \A j \in 1..(i - 1) : (q \o m)[j] = q[j]
  OBVIOUS
<1> QED
  BY <1>1 DEF SelectedAt

\* Actions that do not select leave the selection.
LEMMA SelectedOn ==
  ASSUME NEW q, NEW cur, NEW i \in Nat \ {0}, NEW k \in Nat, i <= k, NEW n,
         SelectedAt(q, cur, i, n), \A j \in i..(k - 1) : ~Selects(q[j])
  PROVE  SelectedAt(q, cur, k, n)
<1>1. \A j \in 1..(k - 1) : j \in 1..(i - 1) \/ j \in i..(k - 1)
  OBVIOUS
<1>2. CASE cur = n /\ \A j \in 1..(i - 1) : ~Selects(q[j])
  BY <1>1, <1>2 DEF SelectedAt
<1>3. CASE \E j \in 1..(i - 1) : /\ q[j].type = "NODE_SELECTED" /\ q[j].index = n
                                 /\ \A h \in (j + 1)..(i - 1) : ~Selects(q[h])
  <2>1. PICK j \in 1..(i - 1) : /\ q[j].type = "NODE_SELECTED" /\ q[j].index = n
                                /\ \A h \in (j + 1)..(i - 1) : ~Selects(q[h])
    BY <1>3
  <2>2. \A h \in (j + 1)..(k - 1) : h \in (j + 1)..(i - 1) \/ h \in i..(k - 1)
    OBVIOUS
  <2>3. j \in 1..(k - 1) /\ \A h \in (j + 1)..(k - 1) : ~Selects(q[h])
    BY <2>1, <2>2
  <2> QED
    BY <2>1, <2>3 DEF SelectedAt
<1> QED
  BY <1>2, <1>3 DEF SelectedAt

\* Queueing actions that neither select nor move.
LEMMA MovedPlain ==
  ASSUME NEW S, NEW q \in Seq(S), NEW m \in Seq(S), NEW cur, Moved(q, cur),
         \A i \in 1..Len(m) : ~Selects(m[i]) /\ m[i].type # "NODE_POSITION_UPDATED"
  PROVE  /\ Moved(q \o m, cur)
         /\ \A n : SelectedAt(q, cur, Len(q) + 1, n)
                     => SelectedAt(q \o m, cur, Len(q \o m) + 1, n)
<1>1. /\ Len(q \o m) = Len(q) + Len(m) /\ Len(q) \in Nat /\ Len(m) \in Nat
      /\ \A i \in 1..Len(q) : (q \o m)[i] = q[i]
      /\ \A i \in (Len(q) + 1)..(Len(q) + Len(m)) :
           i - Len(q) \in 1..Len(m) /\ (q \o m)[i] = m[i - Len(q)]
  OBVIOUS
<1>2. Moved(q \o m, cur)
  <2>1. ASSUME NEW i \in 1..Len(q \o m), (q \o m)[i].type = "NODE_POSITION_UPDATED"
        PROVE  SelectedAt(q \o m, cur, i, (q \o m)[i].position)
    <3>1. i \in 1..Len(q)
      BY <1>1, <2>1
    <3>2. SelectedAt(q, cur, i, q[i].position)
      BY <1>1, <2>1, <3>1 DEF Moved
    <3> QED
      BY <1>1, <3>1, <3>2, SelectedExtends
  <2> QED
    BY <2>1 DEF Moved
<1>3. ASSUME NEW n, SelectedAt(q, cur, Len(q) + 1, n)
      PROVE  SelectedAt(q \o m, cur, Len(q \o m) + 1, n)
  <2>1. SelectedAt(q \o m, cur, Len(q) + 1, n)
    BY <1>1, <1>3, SelectedExtends
  <2>2. \A j \in (Len(q) + 1)..((Len(q \o m) + 1) - 1) : ~Selects((q \o m)[j])
    BY <1>1
  <2>3. Len(q) + 1 \in Nat \ {0} /\ Len(q \o m) + 1 \in Nat /\ Len(q) + 1 <= Len(q \o m) + 1
    BY <1>1
  <2> QED
    BY <2>1, <2>2, <2>3, SelectedOn
<1> QED
  BY <1>2, <1>3

\* Queueing one action that moves the node selected by then, or none.
LEMMA MovedAppend ==
  ASSUME NEW S, NEW q \in Seq(S), NEW a \in S, NEW cur, Moved(q, cur),
         a.type = "NODE_POSITION_UPDATED" => SelectedAt(q, cur, Len(q) + 1, a.position)
  PROVE  /\ Moved(q \o <<a>>, cur) /\ Len(q \o <<a>>) = Len(q) + 1
         /\ a.type = "NODE_SELECTED" => SelectedAt(q \o <<a>>, cur, Len(q) + 2, a.index)
         /\ a.type = "NODE_POSITION_UPDATED"
              => SelectedAt(q \o <<a>>, cur, Len(q) + 2, a.position)
<1>1. /\ <<a>> \in Seq(S) /\ Len(<<a>>) = 1
      /\ Len(q \o <<a>>) = Len(q) + 1 /\ Len(q) \in Nat
      /\ \A i \in 1..Len(q) : (q \o <<a>>)[i] = q[i]
      /\ (q \o <<a>>)[Len(q) + 1] = a
  OBVIOUS
<1> DEFINE r == q \o <<a>>
<1>2. \A n : \A i \in 1..(Len(q) + 1) : SelectedAt(q, cur, i, n) => SelectedAt(r, cur, i, n)
  BY <1>1, SelectedExtends
<1>3. /\ Len(r) = Len(q) + 1 /\ r[Len(q) + 1] = a
      /\ \A i \in 1..Len(q) : r[i] = q[i]
  BY <1>1
<1> HIDE DEF r
<1>4. Moved(r, cur)
  <2>1. ASSUME NEW i \in 1..Len(r), r[i].type = "NODE_POSITION_UPDATED"
        PROVE  SelectedAt(r, cur, i, r[i].position)
    <3>1. CASE i \in 1..Len(q)
      <4>1. SelectedAt(q, cur, i, q[i].position)
        BY <1>3, <2>1, <3>1 DEF Moved
      <4> QED
        BY <1>1, <1>2, <1>3, <3>1, <4>1
    <3>2. CASE i = Len(q) + 1
      BY <1>1, <1>2, <1>3, <2>1, <3>2
    <3> QED
      BY <1>1, <1>3, <3>1, <3>2
  <2> QED
    BY <2>1 DEF Moved
<1>5. a.type = "NODE_SELECTED" => SelectedAt(r, cur, Len(q) + 2, a.index)
  <2>1. /\ Len(q) + 1 \in 1..((Len(q) + 2) - 1)
        /\ \A k \in ((Len(q) + 1) + 1)..((Len(q) + 2) - 1) : FALSE
    BY <1>1
  <2> QED
    BY <1>3, <2>1 DEF SelectedAt
<1>6. ASSUME a.type = "NODE_POSITION_UPDATED"
      PROVE  SelectedAt(r, cur, Len(q) + 2, a.position)
  <2>1. SelectedAt(r, cur, Len(q) + 1, a.position)
    BY <1>1, <1>2, <1>6
  <2>2. \A j \in (Len(q) + 1)..((Len(q) + 2) - 1) : j = Len(q) + 1
    BY <1>1
  <2>3. ~Selects(a)
    BY <1>6 DEF Selects
  <2>4. Len(q) + 1 \in Nat \ {0} /\ Len(q) + 2 \in Nat /\ Len(q) + 1 <= Len(q) + 2
    BY <1>1
  <2>5. \A j \in (Len(q) + 1)..((Len(q) + 2) - 1) : ~Selects(r[j])
    BY <1>3, <2>2, <2>3
  <2> QED
    BY <2>1, <2>4, <2>5, SelectedOn
<1> QED
  BY <1>1, <1>4, <1>5, <1>6 DEF r
-----------------------------------------------------------------------------
LEMMA TailMoved ==
  ASSUME Typed, queue # << >>, Moved(queue, current),
         current' = After(Head(queue), current), queue' = Tail(queue)
  PROVE  /\ Moved(queue', current')
         /\ \A n : SelectedAt(queue, current, Len(queue) + 1, n)
                     => SelectedAt(queue', current', Len(queue') + 1, n)
<1>1. /\ queue \in Seq(Actions) /\ Len(queue) \in Nat \ {0}
      /\ Len(Tail(queue)) = Len(queue) - 1
      /\ \A i \in 1..Len(Tail(queue)) : Tail(queue)[i] = queue[i + 1]
  BY DEF Typed, QueueOK
<1>2. Moved(queue', current')
  <2>1. ASSUME NEW i \in 1..Len(Tail(queue)), Tail(queue)[i].type = "NODE_POSITION_UPDATED"
        PROVE  SelectedAt(Tail(queue), After(Head(queue), current), i, Tail(queue)[i].position)
    <3>1. i \in 1..Len(queue) /\ i + 1 \in 1..Len(queue)
      BY <1>1
    <3>2. SelectedAt(queue, current, i + 1, queue[i + 1].position)
      BY <1>1, <2>1, <3>1 DEF Moved
    <3> QED
      BY <1>1, <3>1, <3>2, SelectedInTail
  <2>2. Moved(Tail(queue), After(Head(queue), current))
    BY <2>1 DEF Moved
  <2> QED
    BY <2>2
<1>3. ASSUME NEW n, SelectedAt(queue, current, Len(queue) + 1, n)
      PROVE  SelectedAt(queue', current', Len(queue') + 1, n)
  <2>1. Len(queue) \in 1..Len(queue) /\ Len(queue') + 1 = Len(queue)
    BY <1>1
  <2>2. SelectedAt(Tail(queue), After(Head(queue), current), Len(queue), n)
    BY <1>1, <1>3, <2>1, SelectedInTail
  <2> QED
    BY <2>1, <2>2
<1> QED
  BY <1>2, <1>3

\* A reduction that finds what it needs and leaves every position right.
LEMMA OneDragReduced ==
  ASSUME Typed, OneDrag, Rerender, queue # << >>,
         current' = After(Head(queue), current),
         ~twoDrags => \A n \in DOMAIN nodes' : nodes'[n].position \in {NoNode, n}
  PROVE  OneDrag'
<1> SUFFICES ASSUME ~twoDrags'
             PROVE  /\ alive' /\ Moved(queue', current') /\ Len(nodeDrags') <= 1
                    /\ \A n \in DOMAIN nodes' : nodes'[n].position \in {NoNode, n}
                    /\ nodeDrags' # << >> =>
                         SelectedAt(queue', current', Len(queue') + 1, nodeDrags'[1].at)
  BY DEF OneDrag
<1>1. /\ queue' = Tail(queue) /\ nodeDrags' = Stale(nodeDrags) /\ alive' = alive
      /\ ~twoDrags
  BY DEF Rerender
<1>2. /\ alive /\ Moved(queue, current) /\ Len(nodeDrags) <= 1
      /\ nodeDrags # << >> => SelectedAt(queue, current, Len(queue) + 1, nodeDrags[1].at)
  BY <1>1 DEF OneDrag
<1>3. /\ nodeDrags \in Seq(Listener(DOMAIN nodes))
      /\ Len(Stale(nodeDrags)) = Len(nodeDrags)
      /\ \A i \in 1..Len(nodeDrags) : Stale(nodeDrags)[i].at = nodeDrags[i].at
      /\ Stale(nodeDrags) \in Seq(Listener(DOMAIN nodes))
  BY StaleTyped DEF Typed, MouseOK
<1>4. /\ Moved(queue', current')
      /\ \A n : SelectedAt(queue, current, Len(queue) + 1, n)
                  => SelectedAt(queue', current', Len(queue') + 1, n)
  BY <1>1, <1>2, TailMoved
<1>5. Stale(nodeDrags) # << >> => nodeDrags # << >> /\ 1 \in 1..Len(nodeDrags)
  BY <1>3
<1>6. nodeDrags' # << >> => SelectedAt(queue', current', Len(queue') + 1, nodeDrags'[1].at)
  BY <1>1, <1>2, <1>3, <1>4, <1>5
<1> QED
  BY <1>1, <1>2, <1>3, <1>4, <1>6

LEMMA ReduceOneDrag ==
  ASSUME Typed, OneDrag, Reduce
  PROVE  OneDrag'
<1>0. GraphOK /\ MouseOK /\ QueueOK
  BY DEF Typed
<1>1. CASE ReduceNodeAdded
  <2>1. Rerender /\ current' = current /\ Reducing("NODE_ADDED")
    BY <1>1, Zenon DEF ReduceNodeAdded
  <2>2. current' = After(Head(queue), current) /\ queue # << >>
    BY <2>1 DEF After, Reducing
  <2>3. PICK n \in Nat \ {0} : \E p, c \in Nat \ {0} : \E q, d \in Nat : Added(n, p, q, c, d)
    BY <1>0, <1>1, NodeAddedAdds
  <2>4. /\ DOMAIN nodes = 1..(n - 1) /\ DOMAIN nodes' = 1..n
        /\ \A i \in 1..(n - 1) : nodes'[i] = nodes[i]
        /\ nodes'[n].position = NoNode
    BY <2>3 DEF Added
  <2>5. ~twoDrags => \A i \in DOMAIN nodes' : nodes'[i].position \in {NoNode, i}
    BY <2>4 DEF OneDrag
  <2> QED
    BY <2>1, <2>2, <2>5, OneDragReduced
<1>2. CASE ReduceConnectionAdded
  <2>1. Reducing("CONNECTION_ADDED") /\ ((Rerender /\ nodes' = nodes) \/ Throw)
    BY <1>2, Zenon DEF ReduceConnectionAdded
  <2>2. alive' = alive /\ current' = current
    BY <1>0, <1>2, ConnectionAddedKeeps
  <2>3. Rerender /\ nodes' = nodes
    BY <2>1, <2>2 DEF Throw, Reducing
  <2>4. current' = After(Head(queue), current) /\ queue # << >>
    BY <2>1, <2>2 DEF After, Reducing
  <2> QED
    BY <2>3, <2>4, OneDragReduced DEF OneDrag
<1>3. CASE ReduceControlUpdated
  <2>1. /\ Reducing("CONTROL_INPUT_STRING_UPDATED") \/ Reducing("CONTROL_INPUT_BOOLEAN_UPDATED")
        /\ Rerender \/ Throw
    BY <1>3, Zenon DEF ReduceControlUpdated
  <2>2. alive' = alive /\ current' = current /\ nodes' = nodes
    BY <1>0, <1>3, ControlUpdatedKeeps
  <2>3. Rerender
    BY <2>1, <2>2 DEF Throw, Reducing
  <2>4. current' = After(Head(queue), current) /\ queue # << >>
    BY <2>1, <2>2 DEF After, Reducing
  <2> QED
    BY <2>2, <2>3, <2>4, OneDragReduced DEF OneDrag
<1>4. CASE ReduceNodeSelected
  <2>1. /\ Rerender /\ nodes' = nodes /\ queue # << >>
        /\ current' = After(Head(queue), current)
    BY <1>4, SameScreen DEF ReduceNodeSelected, Reducing, After
  <2> QED
    BY <2>1, OneDragReduced DEF OneDrag
<1>5. CASE ReduceNodeUnselected
  <2>1. /\ Rerender /\ nodes' = nodes /\ queue # << >>
        /\ current' = After(Head(queue), current)
    BY <1>5, SameScreen DEF ReduceNodeUnselected, Reducing, After
  <2> QED
    BY <2>1, OneDragReduced DEF OneDrag
<1>6. CASE ReduceNodePositionUpdated
  <2>1. Reducing("NODE_POSITION_UPDATED") /\ (Rerender \/ Throw)
    BY <1>6, Zenon DEF ReduceNodePositionUpdated
  <2>2. Head(queue) \in Actions /\ Head(queue).type = "NODE_POSITION_UPDATED"
    BY <1>0, <2>1, HeadOfQueue
  <2>3. Head(queue).position \in DOMAIN nodes
    BY <2>2 DEF Actions
  <2>4. queue # << >> /\ Head(queue) = queue[1] /\ 1 \in 1..Len(queue)
    BY <1>0, <2>1 DEF QueueOK, Reducing
  <2>5. ~twoDrags => current = Head(queue).position
    <3>1. ~twoDrags => SelectedAt(queue, current, 1, Head(queue).position)
      BY <2>2, <2>4 DEF OneDrag, Moved
    <3>2. 1..(1 - 1) = {}
      OBVIOUS
    <3> QED
      BY <3>1, <3>2 DEF SelectedAt
  <2>6. /\ current' = current /\ twoDrags' = twoDrags
        /\ \/ /\ current \in DOMAIN nodes
              /\ queue' = Tail(queue) /\ alive' = alive
              /\ DOMAIN nodes' = DOMAIN nodes
              /\ nodes'[current].position = Head(queue).position
              /\ \A n \in DOMAIN nodes \ {current} : nodes'[n] = nodes[n]
           \/ current \notin DOMAIN nodes
    BY <1>0, <1>6, PositionUpdatedKeeps
  <2>7. current' = After(Head(queue), current)
    BY <2>2, <2>6 DEF After
  <2>8. CASE twoDrags
    BY <2>6, <2>8 DEF OneDrag
  <2>9. CASE ~twoDrags
    <3>1. current \in DOMAIN nodes
      BY <2>3, <2>5, <2>9
    <3>2. Rerender
      BY <1>6, <3>1 DEF ReduceNodePositionUpdated
    <3>3. \A n \in DOMAIN nodes' : nodes'[n].position \in {NoNode, n}
      BY <2>5, <2>6, <2>9, <3>1 DEF OneDrag
    <3> QED
      BY <2>4, <2>7, <3>2, <3>3, OneDragReduced
  <2> QED
    BY <2>8, <2>9
<1>7. CASE ReduceCanvasSet
  <2>1. /\ Rerender /\ nodes' = nodes /\ queue # << >>
        /\ current' = After(Head(queue), current)
    BY <1>7, SameScreen DEF ReduceCanvasSet, Reducing, After
  <2> QED
    BY <2>1, OneDragReduced DEF OneDrag
<1> QED
  BY <1>1, <1>2, <1>3, <1>4, <1>5, <1>6, <1>7 DEF Reduce

\* The user acts: the flow and the selection stay, the queue may grow.
LEMMA OneDragUser ==
  ASSUME OneDrag, UNCHANGED <<nodes, current, alive>>, twoDrags' = twoDrags,
         ~twoDrags => /\ Moved(queue', current) /\ Len(nodeDrags') <= 1
                      /\ nodeDrags' # << >> =>
                           SelectedAt(queue', current, Len(queue') + 1, nodeDrags'[1].at)
  PROVE  OneDrag'
<1>1. /\ ~twoDrags' => Moved(queue', current') /\ Len(nodeDrags') <= 1
      /\ ~twoDrags' => (nodeDrags' # << >> =>
                          SelectedAt(queue', current', Len(queue') + 1, nodeDrags'[1].at))
  OBVIOUS
<1>2. ~twoDrags' => alive' /\ \A n \in DOMAIN nodes' : nodes'[n].position \in {NoNode, n}
  BY DEF OneDrag
<1> QED
  BY <1>1, <1>2 DEF OneDrag

\* A mouse move queues a move of the one node that is dragged, if any.
LEMMA MovesOneDrag ==
  ASSUME Typed, OneDrag, ~twoDrags
  PROVE  /\ Moved(queue \o Moves(nodeDrags), current)
         /\ nodeDrags # << >> =>
              SelectedAt(queue \o Moves(nodeDrags), current,
                         Len(queue \o Moves(nodeDrags)) + 1, nodeDrags[1].at)
<1>1. /\ Moved(queue, current) /\ Len(nodeDrags) <= 1
      /\ nodeDrags # << >> => SelectedAt(queue, current, Len(queue) + 1, nodeDrags[1].at)
  BY DEF OneDrag
<1>2. /\ queue \in Seq(Actions) /\ nodeDrags \in Seq(Listener(DOMAIN nodes))
      /\ Moves(nodeDrags) \in Seq(Actions) /\ Len(Moves(nodeDrags)) = Len(nodeDrags)
      /\ \A i \in 1..Len(nodeDrags) : Moves(nodeDrags)[i] = NodePositionUpdated(nodeDrags[i].at)
  BY MovesTyped DEF Typed, QueueOK, MouseOK
<1>3. CASE nodeDrags = << >>
  <2>1. queue \o Moves(nodeDrags) = queue
    BY <1>2, <1>3
  <2> QED
    BY <1>1, <1>3, <2>1
<1>4. CASE nodeDrags # << >>
  <2> DEFINE n == nodeDrags[1].at
  <2>1. Len(nodeDrags) = 1
    BY <1>1, <1>2, <1>4
  <2>2. Moves(nodeDrags) = <<NodePositionUpdated(n)>>
    BY <1>2, <2>1
  <2>3. n \in DOMAIN nodes
    <3>1. \A i \in 1..Len(nodeDrags) : nodeDrags[i].at \in DOMAIN nodes
      BY <1>2, DragsTyped
    <3> QED
      BY <2>1, <3>1
  <2> HIDE DEF n
  <2>4. /\ NodePositionUpdated(n) \in Actions
        /\ NodePositionUpdated(n).type = "NODE_POSITION_UPDATED"
        /\ NodePositionUpdated(n).position = n
    BY <2>3, DispatchedActions DEF NodePositionUpdated
  <2>5. SelectedAt(queue, current, Len(queue) + 1, n)
    BY <1>1, <1>4 DEF n
  <2>6. /\ Moved(queue \o <<NodePositionUpdated(n)>>, current)
        /\ Len(queue \o <<NodePositionUpdated(n)>>) = Len(queue) + 1
        /\ SelectedAt(queue \o <<NodePositionUpdated(n)>>, current, Len(queue) + 2, n)
    BY <1>1, <1>2, <2>4, <2>5, MovedAppend
  <2>7. (Len(queue) + 1) + 1 = Len(queue) + 2
    BY <1>2
  <2> QED
    BY <2>2, <2>6, <2>7 DEF n
<1> QED
  BY <1>3, <1>4

\* A drag that begins alone selects its node before it moves it.
LEMMA StartOneDrag ==
  ASSUME Typed, OneDrag, NEW n \in DOMAIN nodes, StartNodeDrag(n)
  PROVE  OneDrag'
<1>1. /\ nodes' = nodes /\ current' = current /\ alive' = alive
      /\ nodeDrags' = Register(nodeDrags, n)
      /\ queue' = queue \o <<NodeSelected(n)>> \o Moves(nodeDrags')
      /\ twoDrags' = (twoDrags \/ nodeDrags # << >>)
  BY SameScreen DEF StartNodeDrag
<1>2. CASE twoDrags \/ nodeDrags # << >>
  BY <1>1, <1>2 DEF OneDrag
<1>3. CASE ~twoDrags /\ nodeDrags = << >>
  <2> DEFINE q1 == queue \o <<NodeSelected(n)>>
             q2 == q1 \o <<NodePositionUpdated(n)>>
  <2>1. queue \in Seq(Actions) /\ Moved(queue, current) /\ alive
        /\ \A i \in DOMAIN nodes : nodes[i].position \in {NoNode, i}
    BY <1>3 DEF OneDrag, Typed, QueueOK
  <2>2. nodeDrags' = <<[at |-> n, fresh |-> TRUE]>>
    <3>1. DOMAIN << >> = {} /\ \A x : Append(<< >>, x) = <<x>>
      OBVIOUS
    <3> QED
      BY <1>1, <1>3, <3>1 DEF Register
  <2>3. /\ Len(nodeDrags') = 1 /\ nodeDrags'[1].at = n
        /\ Moves(nodeDrags') = <<NodePositionUpdated(n)>>
    BY <2>2 DEF Moves
  <2>4. /\ NodeSelected(n) \in Actions /\ NodePositionUpdated(n) \in Actions
        /\ NodeSelected(n).type = "NODE_SELECTED" /\ NodeSelected(n).index = n
        /\ NodePositionUpdated(n).type = "NODE_POSITION_UPDATED"
        /\ NodePositionUpdated(n).position = n
    BY DispatchedActions DEF NodeSelected, NodePositionUpdated
  <2>5. /\ Moved(q1, current) /\ Len(q1) = Len(queue) + 1
        /\ SelectedAt(q1, current, Len(queue) + 2, n)
    BY <2>1, <2>4, MovedAppend
  <2>6. q1 \in Seq(Actions) /\ Len(queue) + 2 = Len(q1) + 1
    BY <2>1, <2>4, <2>5
  <2> HIDE DEF q1
  <2>7. /\ Moved(q2, current) /\ Len(q2) = Len(q1) + 1
        /\ SelectedAt(q2, current, Len(q1) + 2, n)
    BY <2>4, <2>5, <2>6, MovedAppend
  <2>8. Len(q1) + 2 = Len(q2) + 1
    BY <2>6, <2>7
  <2>9. queue' = q2
    BY <1>1, <2>3 DEF q1
  <2> HIDE DEF q2
  <2>10. /\ Moved(queue', current') /\ Len(nodeDrags') <= 1
         /\ SelectedAt(queue', current', Len(queue') + 1, nodeDrags'[1].at)
         /\ alive' /\ \A i \in DOMAIN nodes' : nodes'[i].position \in {NoNode, i}
    <3>1. Moved(queue', current') /\ SelectedAt(queue', current', Len(queue') + 1, n)
      BY <1>1, <2>7, <2>8, <2>9
    <3>2. alive' /\ \A i \in DOMAIN nodes' : nodes'[i].position \in {NoNode, i}
      BY <1>1, <2>1, Zenon
    <3> QED
      BY <2>3, <3>1, <3>2
  <2> QED
    BY <2>10 DEF OneDrag
<1> QED
  BY <1>2, <1>3

\* A release moves the dragged node a last time before it unselects it.
LEMMA ReleaseOneDrag ==
  ASSUME Typed, OneDrag, NEW target, Release(target)
  PROVE  OneDrag'
<1>1. /\ nodes' = nodes /\ current' = current /\ alive' = alive /\ twoDrags' = twoDrags
      /\ nodeDrags' = << >>
      /\ queue' = queue \o Connects(target) \o Drops \o Adds
  BY SameScreen DEF Release
<1>2. ASSUME ~twoDrags  PROVE Moved(queue', current)
  <2> DEFINE q1 == queue \o Connects(target)
             q2 == q1 \o Drops
  <2>1. /\ queue \in Seq(Actions) /\ Moved(queue, current) /\ Len(nodeDrags) <= 1
        /\ nodeDrags # << >> => SelectedAt(queue, current, Len(queue) + 1, nodeDrags[1].at)
        /\ nodeDrags \in Seq(Listener(DOMAIN nodes))
        /\ menuDrags \in Seq(Listener(MenuTypes)) /\ portDrags \in Seq(OutputPorts)
    BY <1>2 DEF OneDrag, Typed, QueueOK, MouseOK
  <2>2. Connects(target) \in Seq(Actions) /\ Drops \in Seq(Actions) /\ Adds \in Seq(Actions)
    BY ReleaseTyped
  <2>3. \A i \in 1..Len(Connects(target)) : Connects(target)[i].type = "CONNECTION_ADDED"
    <3>1. CASE target \in InputPorts
      <4>1. DOMAIN portDrags = 1..Len(portDrags)
        BY <2>1
      <4>2. Connects(target) = [i \in 1..Len(portDrags) |-> ConnectionAdded(portDrags[i], target)]
        BY <3>1, <4>1 DEF Connects
      <4>3. Len(Connects(target)) = Len(portDrags)
        BY <2>1, <4>2
      <4>4. \A o : ConnectionAdded(o, target).type = "CONNECTION_ADDED"
        BY DEF ConnectionAdded
      <4> QED
        BY <4>2, <4>3, <4>4
    <3>2. CASE target \notin InputPorts
      BY <3>2 DEF Connects
    <3> QED
      BY <3>1, <3>2
  <2>4. /\ Moved(q1, current) /\ q1 \in Seq(Actions)
        /\ \A n : SelectedAt(queue, current, Len(queue) + 1, n)
                    => SelectedAt(q1, current, Len(q1) + 1, n)
    <3>1. \A i \in 1..Len(Connects(target)) :
            /\ ~Selects(Connects(target)[i])
            /\ Connects(target)[i].type # "NODE_POSITION_UPDATED"
      BY <2>3 DEF Selects
    <3>2. q1 \in Seq(Actions)
      BY <2>1, <2>2
    <3>3. /\ Moved(queue \o Connects(target), current)
          /\ \A n : SelectedAt(queue, current, Len(queue) + 1, n)
                      => SelectedAt(queue \o Connects(target), current,
                                    Len(queue \o Connects(target)) + 1, n)
      BY <2>1, <2>2, <3>1, MovedPlain
    <3> QED
      BY <3>2, <3>3
  <2> HIDE DEF q1
  <2>5. Moved(q2, current) /\ q2 \in Seq(Actions)
    <3>1. CASE nodeDrags = << >>
      <4>1. Drops = << >>
        BY <3>1 DEF Drops
      <4>2. q2 = q1
        BY <2>4, <4>1
      <4> QED
        BY <2>4, <4>2
    <3>2. CASE nodeDrags # << >>
      <4> DEFINE n == nodeDrags[1].at
                 q3 == q1 \o <<NodePositionUpdated(n)>>
                 q4 == q3 \o <<NodeUnselected>>
      <4>0. /\ Len(nodeDrags) \in Nat
            /\ \A i \in 1..Len(nodeDrags) : nodeDrags[i].at \in DOMAIN nodes
        BY <2>1, DragsTyped
      <4>1. Len(nodeDrags) = 1
        <5>1. Len(nodeDrags) # 0
          BY <2>1, <3>2
        <5>2. Len(nodeDrags) <= 1
          BY <2>1
        <5> QED
          BY <4>0, <5>1, <5>2
      <4>2. n \in DOMAIN nodes
        BY <4>0, <4>1
      <4>3. Drops = <<NodePositionUpdated(n), NodeUnselected>>
        <5>1. 2 * Len(nodeDrags) = 2
          BY <4>1
        <5>2. /\ 1 % 2 = 1 /\ 2 % 2 = 0 /\ (1 + 1) \div 2 = 1
          OBVIOUS
        <5>3. Drops = [i \in 1..2 |-> IF i % 2 = 1
                                      THEN NodePositionUpdated(nodeDrags[(i + 1) \div 2].at)
                                      ELSE NodeUnselected]
          BY <5>1 DEF Drops
        <5>4. Drops[1] = NodePositionUpdated(n) /\ Drops[2] = NodeUnselected
          BY <5>2, <5>3
        <5> QED
          BY <5>3, <5>4
      <4>4. SelectedAt(q1, current, Len(q1) + 1, n)
        BY <2>1, <2>4, <3>2
      <4> HIDE DEF n
      <4>5. /\ NodePositionUpdated(n) \in Actions /\ NodeUnselected \in Actions
            /\ NodePositionUpdated(n).position = n
            /\ NodeUnselected.type = "NODE_UNSELECTED"
        BY <4>2, DispatchedActions DEF NodePositionUpdated, NodeUnselected
      <4>6. Moved(q3, current) /\ q3 \in Seq(Actions)
        BY <2>4, <4>4, <4>5, MovedAppend
      <4>7. q2 = q4
        BY <2>4, <4>3, <4>5
      <4> HIDE DEF q3
      <4>8. Moved(q4, current) /\ q4 \in Seq(Actions)
        BY <4>5, <4>6, MovedAppend
      <4> QED
        BY <4>7, <4>8
    <3> QED
      BY <3>1, <3>2
  <2>6. \A i \in 1..Len(Adds) : Adds[i].type = "NODE_ADDED"
    <3>1. /\ DOMAIN menuDrags = 1..Len(menuDrags) /\ Len(menuDrags) \in Nat
      BY <2>1, DragsTyped
    <3>2. Adds = [i \in 1..Len(menuDrags) |-> NodeAdded(menuDrags[i].at)]
      BY <3>1 DEF Adds
    <3>3. Len(Adds) = Len(menuDrags)
      BY <3>1, <3>2
    <3>4. \A t : NodeAdded(t).type = "NODE_ADDED"
      BY DEF NodeAdded
    <3> QED
      BY <3>2, <3>3, <3>4
  <2>7. queue' = q2 \o Adds
    BY <1>1 DEF q1
  <2> HIDE DEF q2
  <2>8. \A i \in 1..Len(Adds) : ~Selects(Adds[i]) /\ Adds[i].type # "NODE_POSITION_UPDATED"
    BY <2>6 DEF Selects
  <2>9. Moved(q2 \o Adds, current)
    BY <2>2, <2>5, <2>8, MovedPlain
  <2> QED
    BY <2>7, <2>9
<1>3. Len(<< >>) = 0
  OBVIOUS
<1> QED
  BY <1>1, <1>2, <1>3, OneDragUser

LEMMA DispatchOneDrag ==
  ASSUME Typed, OneDrag, NEW a \in Actions, Dispatch(a),
         ~Selects(a), a.type # "NODE_POSITION_UPDATED"
  PROVE  OneDrag'
<1>1. /\ UNCHANGED <<nodes, current, alive, nodeDrags>> /\ twoDrags' = twoDrags
      /\ queue' = Append(queue, a)
  BY SameScreen DEF Dispatch, mouse
<1>2. ASSUME ~twoDrags
      PROVE  /\ Moved(queue', current) /\ Len(nodeDrags') <= 1
             /\ nodeDrags' # << >> =>
                  SelectedAt(queue', current, Len(queue') + 1, nodeDrags'[1].at)
  <2>1. /\ Moved(queue, current) /\ Len(nodeDrags) <= 1
        /\ nodeDrags # << >> => SelectedAt(queue, current, Len(queue) + 1, nodeDrags[1].at)
    BY <1>2 DEF OneDrag
  <2>2. /\ queue \in Seq(Actions) /\ <<a>> \in Seq(Actions)
        /\ \A i \in 1..Len(<<a>>) : <<a>>[i] = a
        /\ queue' = queue \o <<a>>
    BY <1>1 DEF Typed, QueueOK
  <2>3. \A i \in 1..Len(<<a>>) :
          ~Selects(<<a>>[i]) /\ <<a>>[i].type # "NODE_POSITION_UPDATED"
    BY <2>2
  <2>4. /\ Moved(queue \o <<a>>, current)
        /\ \A n : SelectedAt(queue, current, Len(queue) + 1, n)
                    => SelectedAt(queue \o <<a>>, current, Len(queue \o <<a>>) + 1, n)
    BY <2>1, <2>2, <2>3, MovedPlain
  <2> QED
    BY <1>1, <2>1, <2>2, <2>4
<1> QED
  BY <1>1, <1>2, OneDragUser

LEMMA OneDragStep ==
  ASSUME Typed, OneDrag, [Next]_vars
  PROVE  OneDrag'
<1>1. CASE Reduce
  BY <1>1, ReduceOneDrag
<1>2. ASSUME NEW n \in DOMAIN nodes, PressNode(n)  PROVE OneDrag'
  BY <1>2, SameScreen, OneDragUser DEF PressNode, OneDrag
<1>3. ASSUME NEW n \in DOMAIN nodes, StartNodeDrag(n)  PROVE OneDrag'
  BY <1>3, StartOneDrag
<1>4. ASSUME NEW t \in MenuTypes, PressMenu(t)  PROVE OneDrag'
  BY <1>4, SameScreen, OneDragUser DEF PressMenu, OneDrag
<1>5. ASSUME NEW t \in MenuTypes, StartMenuDrag(t)  PROVE OneDrag'
  <2>1. /\ UNCHANGED <<nodes, current, alive>> /\ twoDrags' = twoDrags
        /\ nodeDrags' = nodeDrags /\ queue' = queue \o Moves(nodeDrags)
    BY <1>5, SameScreen DEF StartMenuDrag
  <2>2. ~twoDrags => Len(nodeDrags') <= 1
    BY <2>1 DEF OneDrag
  <2> QED
    BY <2>1, <2>2, MovesOneDrag, OneDragUser
<1>6. ASSUME NEW p, PressPort(p)  PROVE OneDrag'
  BY <1>6, SameScreen, OneDragUser DEF PressPort, OneDrag
<1>7. ASSUME NEW target, Release(target)  PROVE OneDrag'
  BY <1>7, ReleaseOneDrag
<1>8. ASSUME NEW c \in DOMAIN controls, NEW v \in Texts, EditControl(c, v)  PROVE OneDrag'
  <2>1. CASE controls[c].type = "Input_String" /\
             Dispatch(ControlUpdated("CONTROL_INPUT_STRING_UPDATED", c, v))
    <3>1. ControlUpdated("CONTROL_INPUT_STRING_UPDATED", c, v) \in Actions
      BY <2>1 DEF Actions, ControlUpdated
    <3>2. /\ ~Selects(ControlUpdated("CONTROL_INPUT_STRING_UPDATED", c, v))
          /\ ControlUpdated("CONTROL_INPUT_STRING_UPDATED", c, v).type # "NODE_POSITION_UPDATED"
      BY DEF Selects, ControlUpdated
    <3> QED
      BY <2>1, <3>1, <3>2, DispatchOneDrag
  <2>2. CASE Dispatch(ControlUpdated("CONTROL_INPUT_BOOLEAN_UPDATED", c, v))
    <3>1. ControlUpdated("CONTROL_INPUT_BOOLEAN_UPDATED", c, v) \in Actions
      BY DEF Actions, ControlUpdated
    <3>2. /\ ~Selects(ControlUpdated("CONTROL_INPUT_BOOLEAN_UPDATED", c, v))
          /\ ControlUpdated("CONTROL_INPUT_BOOLEAN_UPDATED", c, v).type # "NODE_POSITION_UPDATED"
      BY DEF Selects, ControlUpdated
    <3> QED
      BY <2>2, <3>1, <3>2, DispatchOneDrag
  <2> QED
    BY <1>8, <2>1, <2>2 DEF EditControl
<1>9. CASE Drag
  <2>1. /\ UNCHANGED <<nodes, current, alive>> /\ twoDrags' = twoDrags
        /\ nodeDrags' = nodeDrags /\ queue' = queue \o Moves(nodeDrags)
    BY <1>9, SameScreen DEF Drag, mouse
  <2>2. ~twoDrags => Len(nodeDrags') <= 1
    BY <2>1 DEF OneDrag
  <2> QED
    BY <2>1, <2>2, MovesOneDrag, OneDragUser
<1>10. CASE ReleaseUnseen
  BY <1>10, SameScreen, OneDragUser DEF ReleaseUnseen, OneDrag
<1>11. CASE Resize
  <2>1. /\ CanvasSet \in Actions /\ ~Selects(CanvasSet)
        /\ CanvasSet.type # "NODE_POSITION_UPDATED"
    BY DispatchedActions DEF Selects, CanvasSet
  <2> QED
    BY <1>11, <2>1, DispatchOneDrag DEF Resize
<1>12. CASE Reload
  <2>1. /\ nodes' = << >> /\ queue' = << >> /\ nodeDrags' = << >> /\ alive' = TRUE
    BY <1>12 DEF Reload
  <2>2. Len(<< >>) = 0 /\ DOMAIN << >> = {} /\ 1..0 = {}
    OBVIOUS
  <2>3. Moved(queue', current')
    BY <2>1, <2>2 DEF Moved
  <2>4. Len(nodeDrags') <= 1 /\ ~(nodeDrags' # << >>)
        /\ \A n \in DOMAIN nodes' : nodes'[n].position \in {NoNode, n}
    BY <2>1, <2>2
  <2> QED
    BY <2>1, <2>3, <2>4 DEF OneDrag
<1>13. CASE UNCHANGED vars
  BY <1>13, SameScreen, OneDragUser DEF vars, mouse, OneDrag
<1> QED
  BY <1>1, <1>2, <1>3, <1>4, <1>5, <1>6, <1>7, <1>8, <1>9, <1>10, <1>11, <1>12, <1>13
  DEF Next

LEMMA OneDragInvariant == Spec => []OneDrag
<1>1. Init => OneDrag
  <2>1. Len(<< >>) = 0 /\ DOMAIN << >> = {} /\ 1..0 = {}
    OBVIOUS
  <2> QED
    BY <2>1 DEF Init, EmptyGraph, OneDrag, Moved
<1>2. Typed /\ OneDrag /\ [Next]_vars => OneDrag'
  BY OneDragStep
<1> QED
  BY <1>1, <1>2, TypedInvariant, PTL DEF Spec

\* The reducer throws only after two node drags have overlapped: no other order
\* of presses, moves, releases and re-renders makes the page go blank.
THEOREM OnlyTwoDragsCrash == Spec => []CrashNeedsTwoDrags
<1>1. OneDrag => CrashNeedsTwoDrags
  BY DEF OneDrag, CrashNeedsTwoDrags
<1> QED
  BY <1>1, OneDragInvariant, PTL

\* Every move the reducer applies is applied to the node it was meant for.
THEOREM DragsMoveTheirOwn == Spec => []DragMovesOwnNode
<1>1. OneDrag => DragMovesOwnNode
  BY DEF OneDrag, DragMovesOwnNode
<1> QED
  BY <1>1, OneDragInvariant, PTL
=============================================================================
