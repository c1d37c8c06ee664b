--------------------------- MODULE NodeFlowProofs ---------------------------
(***************************************************************************)
(* For any library and any bounds: whatever flow the editor posts, the     *)
(* program made of it keeps the promise of once, reads after what it is    *)
(* wired to, runs all it reaches, and fails only when the flow is not well *)
(* wired or a text in it does not load. The editor's part is TypedInvariant: a flow that is posted joins *)
(* nodes that are there.                                                   *)
(***************************************************************************)
EXTENDS NodeFlow, NodeEditorProofs, WellFoundedInduction

\* What the program takes from the editor: numbered nodes and connections,
\* and connections between nodes of the flow.
FlowOK(g) ==
  /\ \E n \in Nat : NodesOf(g) = 1..n
  /\ DOMAIN g.connections \subseteq Nat \ {0}
  /\ \A k \in DOMAIN g.connections : LeadsTo(g, k) \in NodesOf(g)

RunTyped ==
  /\ FlowOK(flow)
  /\ phase \in {"idle", "running", "completed", "failed"}
  /\ stack \in Seq(Frame)
  /\ visited \subseteq Nat
  /\ finished \in Seq(NodesOf(flow))
  /\ done = {finished[i] : i \in DOMAIN finished}
  /\ phase # "running" => stack = << >>

Reads(n) == flow.nodes[n].type \in Reading

\* Frame i is a call of the function of n.
CallOf(i, n) == i \in DOMAIN stack /\ stack[i].call = "fn" /\ stack[i].node = n

\* Every call but the last waits for the one it made: a function for its
\* source, a visit for the function of its node.
CallOK(i) ==
  LET n == stack[i].node
  IN /\ n \in Functions(flow)
     /\ stack[i].at > 0 =>
          /\ Reads(n) /\ n \notin done
          /\ CallOf(i + 1, Source(flow, n)) \/ (i = Len(stack) /\ Source(flow, n) \in done)

VisitFrameOK(i) ==
  LET n == stack[i].node
  IN stack[i].at > 0 =>
       n \in visited /\ n \in Functions(flow) /\ (n \in done \/ CallOf(i + 1, n))

StackOK ==
  \A i \in DOMAIN stack :
    /\ stack[i].at = 0 => i = Len(stack)
    /\ stack[i].call = "fn" => CallOK(i)
    /\ stack[i].call = "visit_node" => VisitFrameOK(i)

\* No two calls wait in the code of one node.
NotTwice ==
  \A i, j \in DOMAIN stack :
    /\ stack[i].call = "fn" /\ stack[i].at > 0
    /\ stack[j].call = "fn" /\ stack[j].at > 0
    /\ stack[i].node = stack[j].node
    => i = j

Decided == \E n \in done : flow.nodes[n].type = "Decision"

\* A visit of n is on the stack, about to begin or to go on at from.
Visiting(n, from) ==
  \E i \in DOMAIN stack :
    stack[i].call = "visit_node" /\ stack[i].node = n /\ stack[i].at = from

Begun(n) == \E from \in Nat \ {0} : Visiting(n, from)

\* A node that was visited has run, and where it leads to has been visited,
\* or there are calls that will; only 4 may be marked without a visit.
Explored(n) ==
  /\ n \in Functions(flow)
  /\ n \in done \/ Begun(n)
  /\ \A k \in EdgesOf(flow, n) :
       \/ LeadsTo(flow, k) \in visited
       \/ Visiting(LeadsTo(flow, k), 0)
       \/ \E from \in 1..k : Visiting(n, from)

VisitOK ==
  phase \in {"running", "completed"} =>
    /\ 1 \in visited \/ Visiting(1, 0)
    /\ \A n \in visited : (n = 4 /\ Decided) \/ Explored(n)

\* The calls stay where node 1 leads, if the flow is well wired.
WiredOK ==
  WellWired(flow) =>
    /\ \A i \in DOMAIN stack : stack[i].node \in Reachable(flow, 1)
    /\ Loads(flow) => phase # "failed"

RunInv ==
  /\ RunTyped /\ StackOK /\ NotTwice /\ VisitOK /\ WiredOK
  /\ EndsOnce /\ ReadsAfterSource
-----------------------------------------------------------------------------
\* Numbers have a smallest one among them.
LEMMA Smallest ==
  ASSUME NEW S \in SUBSET Nat, S # {}
  PROVE  SmallestOf(S) \in S /\ \A j \in S : SmallestOf(S) <= j
<1>1. PICK m \in S : \A j \in S : ~(<<j, m>> \in OpToRel(<, Nat))
  BY NatLessThanWellFounded, WFMin
<1>2. ASSUME NEW j \in S  PROVE m <= j
  <2>1. <<j, m>> \in Nat \X Nat
    OBVIOUS
  <2>2. ~(<<j, m>>[1] < <<j, m>>[2])
    BY <1>1, <2>1 DEF OpToRel
  <2> QED
    BY <2>2
<1> QED
  BY <1>2 DEF SmallestOf

LEMMA LastOrBefore ==
  ASSUME NEW n \in Nat \ {0}
  PROVE  \A k \in 1..n : k = n \/ k \in 1..(n - 1)
OBVIOUS

\* Where the connections lead from a node of the flow is a set of nodes they do
\* not lead out of, and the least one.
LEMMA ReachableCloses ==
  ASSUME NEW g, FlowOK(g), NEW root \in NodesOf(g)
  PROVE  /\ root \in Reachable(g, root) /\ Reachable(g, root) \subseteq NodesOf(g)
         /\ Closed(g, Reachable(g, root))
<1>1. root \in Reachable(g, root) /\ Reachable(g, root) \subseteq NodesOf(g)
  BY DEF Reachable
<1>2. ASSUME NEW k \in DOMAIN g.connections,
             g.connections[k].outputNode \in Reachable(g, root)
      PROVE  LeadsTo(g, k) \in Reachable(g, root)
  <2>1. LeadsTo(g, k) \in NodesOf(g)
    BY DEF FlowOK
  <2>2. ASSUME NEW S \in SUBSET NodesOf(g), root \in S, Closed(g, S)
        PROVE  LeadsTo(g, k) \in S
    BY <1>2, <2>2 DEF Reachable, Closed
  <2> QED
    BY <2>1, <2>2 DEF Reachable
<1> QED
  BY <1>1, <1>2 DEF Closed

LEMMA FunctionsAreNodes ==
  ASSUME NEW g
  PROVE  Functions(g) \subseteq NodesOf(g)
BY DEF Functions, Reachable

\* A flow that is well wired starts at node 1, and has the functions it needs.
LEMMA WellWiredFlow ==
  ASSUME NEW g, FlowOK(g), WellWired(g)
  PROVE  1 \in NodesOf(g) /\ Functions(g) = Reachable(g, 1)
<1>1. PICK n \in Nat : NodesOf(g) = 1..n
  BY DEF FlowOK
<1>2. n # 0
  BY <1>1 DEF WellWired, Compiles
<1> QED
  BY <1>1, <1>2 DEF WellWired, Functions
-----------------------------------------------------------------------------
\* What a return and a call do to the stack.
LEMMA Returns ==
  ASSUME stack \in Seq(Frame), stack # << >>, Return
  PROVE  /\ stack' \in Seq(Frame) /\ Len(stack) \in Nat \ {0}
         /\ DOMAIN stack = 1..Len(stack) /\ DOMAIN stack' = 1..(Len(stack) - 1)
         /\ Len(stack') = Len(stack) - 1
         /\ \A i \in 1..(Len(stack) - 1) : stack'[i] = stack[i]
         /\ Top = stack[Len(stack)] /\ Top \in Frame
<1> DEFINE L == Len(stack)
<1>1. L \in Nat \ {0} /\ DOMAIN stack = 1..L /\ Top = stack[L] /\ Top \in Frame
  BY DEF Top
<1>2. stack' = SubSeq(stack, 1, L - 1)
  BY DEF Return, Front
<1>3. stack' \in Seq(Frame) /\ Len(stack') = L - 1
  BY <1>1, <1>2
<1>4. \A i \in 1..(L - 1) : stack'[i] = stack[i]
  BY <1>1, <1>2
<1> QED
  BY <1>1, <1>3, <1>4

LEMMA Calls ==
  ASSUME stack \in Seq(Frame), stack # << >>, NEW frame \in Frame, NEW next \in Nat,
         CallOn(frame, next)
  PROVE  /\ stack' \in Seq(Frame) /\ Len(stack) \in Nat \ {0}
         /\ DOMAIN stack = 1..Len(stack) /\ DOMAIN stack' = 1..(Len(stack) + 1)
         /\ Len(stack') = Len(stack) + 1
         /\ \A i \in 1..(Len(stack) - 1) : stack'[i] = stack[i]
         /\ stack'[Len(stack)] = [call |-> Top.call, node |-> Top.node, at |-> next]
         /\ stack'[Len(stack) + 1] = frame
         /\ Top = stack[Len(stack)] /\ Top \in Frame
<1> DEFINE L == Len(stack)
           moved == [stack EXCEPT ![L].at = next]
<1>1. L \in Nat \ {0} /\ DOMAIN stack = 1..L /\ Top = stack[L] /\ Top \in Frame
  BY DEF Top
<1>2. [Top EXCEPT !.at = next] = [call |-> Top.call, node |-> Top.node, at |-> next]
      /\ [Top EXCEPT !.at = next] \in Frame
  BY <1>1 DEF Frame
<1>3. moved \in Seq(Frame) /\ Len(moved) = L /\ DOMAIN moved = 1..L
      /\ moved[L] = [Top EXCEPT !.at = next]
      /\ \A i \in 1..(L - 1) : moved[i] = stack[i]
  BY <1>1, <1>2
<1>4. stack' = Append(moved, frame)
  BY DEF CallOn
<1> HIDE DEF moved
<1>5. stack' \in Seq(Frame) /\ Len(stack') = L + 1 /\ DOMAIN stack' = 1..(L + 1)
  BY <1>1, <1>3, <1>4
<1>6. stack'[L + 1] = frame /\ \A i \in 1..L : stack'[i] = moved[i]
  BY <1>1, <1>3, <1>4
<1> QED
  BY <1>1, <1>2, <1>3, <1>5, <1>6
-----------------------------------------------------------------------------
\* No run yet, and a run that is about to begin.
LEMMA NoRunYet ==
  ASSUME RunInit
  PROVE  RunInv
<1>1. FlowOK(NoFlow)
  BY DEF FlowOK, NoFlow, NodesOf
<1>2. stack = << >> /\ finished = << >> /\ visited = {} /\ done = {} /\ flow = NoFlow
      /\ phase = "idle"
  BY DEF RunInit
<1>3. RunTyped
  BY <1>1, <1>2 DEF RunTyped
<1> QED
  BY <1>2, <1>3 DEF RunInv, StackOK, NotTwice, VisitOK, WiredOK, EndsOnce, ReadsAfterSource

LEMMA Launched ==
  ASSUME NEW g, FlowOK(g), Launch(g)
  PROVE  RunInv'
<1> USE DEF Launch
<1>1. Visit(1) \in Frame
  BY DEF Visit, Frame
<1>2. stack' \in Seq(Frame) /\ finished' = << >> /\ visited' = {} /\ done' = {} /\ flow' = g
      /\ phase' \in {"running", "failed"}
  <2>1. <<Visit(1)>> \in Seq(Frame) /\ << >> \in Seq(Frame)
    BY <1>1
  <2> QED
    BY <2>1, Zenon
<1>3. RunTyped'
  BY <1>2 DEF RunTyped
<1>4. CASE Compiles(g) /\ Loads(g)
  <2>1. phase' = "running" /\ stack' = <<Visit(1)>>
    BY <1>4
  <2>2. Len(stack') = 1 /\ DOMAIN stack' = {1} /\ stack'[1] = Visit(1)
    BY <2>1
  <2>3. stack'[1].call = "visit_node" /\ stack'[1].node = 1 /\ stack'[1].at = 0
    BY <2>2 DEF Visit
  <2>4. VisitOK'
    BY <1>2, <2>2, <2>3 DEF VisitOK, Visiting
  <2>5. WiredOK'
    <3>1. ASSUME WellWired(g)  PROVE 1 \in Reachable(g, 1)
      BY <3>1, WellWiredFlow, ReachableCloses
    <3> QED
      BY <1>2, <2>1, <2>2, <2>3, <3>1 DEF WiredOK
  <2>6. StackOK' /\ NotTwice'
    BY <2>2, <2>3 DEF StackOK, VisitFrameOK, NotTwice
  <2> QED
    BY <1>2, <1>3, <2>4, <2>5, <2>6 DEF RunInv, EndsOnce, ReadsAfterSource
<1>5. CASE ~(Compiles(g) /\ Loads(g))
  <2>1. phase' = "failed" /\ stack' = << >>
    BY <1>5
  <2>2. DOMAIN stack' = {}
    BY <2>1
  <2>3. WiredOK'
    BY <1>2, <1>5, <2>2 DEF WiredOK, WellWired
  <2> QED
    BY <1>2, <1>3, <2>1, <2>3
       DEF RunInv, StackOK, NotTwice, VisitOK, EndsOnce, ReadsAfterSource
<1> QED
  BY <1>4, <1>5

\* A run that fails keeps what it did, on a flow that is not well wired.
LEMMA Fails ==
  ASSUME RunInv, Fail, ~WellWired(flow)
  PROVE  RunInv'
<1>1. flow' = flow /\ visited' = visited /\ done' = done /\ finished' = finished
      /\ phase' = "failed" /\ stack' = << >>
  BY DEF Fail
<1>2. RunTyped'
  BY <1>1 DEF RunInv, RunTyped
<1>3. StackOK' /\ NotTwice' /\ VisitOK' /\ WiredOK'
  BY <1>1 DEF StackOK, NotTwice, VisitOK, WiredOK
<1>4. EndsOnce' /\ ReadsAfterSource'
  BY <1>1 DEF RunInv, EndsOnce, ReadsAfterSource
<1> QED
  BY <1>2, <1>3, <1>4 DEF RunInv
-----------------------------------------------------------------------------
\* What every step of a program that runs can use.
LEMMA Innermost ==
  ASSUME RunInv, phase = "running", stack # << >>
  PROVE  /\ Top = stack[Len(stack)] /\ Len(stack) \in DOMAIN stack /\ DOMAIN stack = 1..Len(stack)
         /\ Len(stack) \in Nat \ {0} /\ Top \in Frame
         /\ \A i \in 1..(Len(stack) - 1) : stack[i].at # 0
         /\ \A i \in DOMAIN stack : stack[i] \in Frame
BY DEF RunInv, RunTyped, StackOK, Top

\* The visits stay where they are, but for those that find their node visited.
StillVisiting ==
  \A n, from : Visiting(n, from) => Visiting(n, from)' \/ (from = 0 /\ n \in visited')

LEMMA StillExplored ==
  ASSUME VisitOK, StillVisiting, flow' = flow, phase' = phase,
         visited \subseteq visited', done \subseteq done',
         \A n \in visited' \ visited : (n = 4 /\ Decided') \/ Explored(n)'
  PROVE  VisitOK'
<1> SUFFICES ASSUME phase \in {"running", "completed"}
             PROVE  VisitOK'
  BY DEF VisitOK
<1>1. 1 \in visited' \/ Visiting(1, 0)'
  BY DEF VisitOK, StillVisiting
<1>2. Decided => Decided'
  BY DEF Decided
<1>3. ASSUME NEW n \in visited, Explored(n)  PROVE Explored(n)'
  BY <1>3 DEF Explored, Begun, StillVisiting
<1> QED
  BY <1>1, <1>2, <1>3 DEF VisitOK

\* What a visit that returns leaves of the stack is in order.
LEMMA VisitReturns ==
  ASSUME RunInv, Running("visit_node"), Return,
         UNCHANGED <<flow, phase, visited, done, finished>>
  PROVE  RunTyped' /\ StackOK' /\ NotTwice' /\ WiredOK'
<1> DEFINE L == Len(stack)
<1>0. RunTyped /\ StackOK /\ NotTwice /\ VisitOK /\ WiredOK /\ EndsOnce /\ ReadsAfterSource
      /\ phase = "running" /\ stack # << >> /\ Top.call = "visit_node"
      /\ stack \in Seq(Frame)
  BY DEF RunInv, RunTyped, Running
<1>1. /\ stack' \in Seq(Frame) /\ L \in Nat \ {0}
      /\ DOMAIN stack = 1..L /\ DOMAIN stack' = 1..(L - 1) /\ Len(stack') = L - 1
      /\ \A i \in 1..(L - 1) : stack'[i] = stack[i]
      /\ Top = stack[L] /\ Top \in Frame
  BY <1>0, Returns
<1>2. \A i \in 1..(L - 1) : stack[i].at # 0
  BY <1>0, Innermost
<1>3. RunTyped'
  BY <1>0, <1>1 DEF RunTyped
<1>4. StackOK'
  <2> SUFFICES ASSUME NEW i \in DOMAIN stack'
               PROVE  /\ stack'[i].at # 0
                      /\ stack'[i].call = "fn" => CallOK(i)'
                      /\ stack'[i].call = "visit_node" => VisitFrameOK(i)'
    BY DEF StackOK
  <2>1. stack'[i] = stack[i] /\ i \in DOMAIN stack /\ i # L /\ i + 1 \in DOMAIN stack
    BY <1>1
  <2>2. stack[i + 1].call = "fn" => i + 1 \in DOMAIN stack' /\ stack'[i + 1] = stack[i + 1]
    BY <1>0, <1>1, <2>1
  <2>3. stack[i].call = "fn" => CallOK(i)'
    BY <1>0, <2>1, <2>2 DEF StackOK, CallOK, CallOf, Reads
  <2>4. stack[i].call = "visit_node" => VisitFrameOK(i)'
    BY <1>0, <2>1, <2>2 DEF StackOK, VisitFrameOK, CallOf
  <2> QED
    BY <1>2, <2>1, <2>3, <2>4
<1>5. NotTwice'
  BY <1>0, <1>1 DEF NotTwice
<1>7. WiredOK'
  BY <1>0, <1>1 DEF WiredOK
<1> QED
  BY <1>3, <1>4, <1>5, <1>7

\* A visit of a node that was visited returns.
LEMMA VisitedReturns ==
  ASSUME RunInv, Running("visit_node"), Top.at = 0, Top.node \in visited, Return,
         UNCHANGED <<flow, phase, visited, done, finished>>
  PROVE  RunInv'
<1>1. stack \in Seq(Frame) /\ stack # << >> /\ VisitOK
  BY DEF RunInv, RunTyped, Running
<1>2. StillVisiting
  BY <1>1, Returns DEF StillVisiting, Visiting
<1>3. VisitOK'
  BY <1>1, <1>2, StillExplored
<1>4. EndsOnce' /\ ReadsAfterSource'
  BY DEF RunInv, EndsOnce, ReadsAfterSource
<1> QED
  BY <1>3, <1>4, VisitReturns DEF RunInv

\* A visit that has followed all edges of its node returns.
LEMMA VisitEnds ==
  ASSUME RunInv, Running("visit_node"), Top.at > 0,
         \A k \in EdgesOf(flow, Top.node) : ~(k >= Top.at), Return,
         UNCHANGED <<flow, phase, visited, done, finished>>
  PROVE  RunInv'
<1> DEFINE L == Len(stack)
<1>m. PICK m, at : m = Top.node /\ at = Top.at
  OBVIOUS
<1>0. RunTyped /\ StackOK /\ VisitOK /\ stack \in Seq(Frame) /\ stack # << >> /\ FlowOK(flow)
      /\ Top.call = "visit_node"
  BY DEF RunInv, RunTyped, Running
<1>1. /\ L \in Nat \ {0} /\ DOMAIN stack = 1..L /\ DOMAIN stack' = 1..(L - 1)
      /\ \A i \in 1..(L - 1) : stack'[i] = stack[i]
      /\ Top = stack[L]
  BY <1>0, Returns
<1>2. m \in done
  BY <1>0, <1>1, <1>m DEF StackOK, VisitFrameOK, CallOf
<1>3. ASSUME NEW n, NEW from, Visiting(n, from)
      PROVE  Visiting(n, from)' \/ (n = m /\ from = at)
  BY <1>m, <1>1, <1>3 DEF Visiting
<1>4. at # 0
  BY <1>m
<1>5. ASSUME NEW n \in visited, Explored(n)  PROVE Explored(n)'
  <2>1. n \in done' \/ Begun(n)'
    BY <1>2, <1>3, <1>5 DEF Explored, Begun
  <2>2. ASSUME NEW k \in EdgesOf(flow, n), NEW from \in 1..k, Visiting(n, from)
        PROVE  Visiting(n, from)'
    <3>1. CASE n = m /\ from = at
      <4>1. k \in Nat
        BY <1>0 DEF EdgesOf, FlowOK
      <4> QED
        BY <1>m, <3>1, <4>1
    <3> QED
      BY <1>3, <2>2, <3>1
  <2>3. ASSUME NEW k \in EdgesOf(flow, n)
        PROVE  \/ LeadsTo(flow, k) \in visited
               \/ Visiting(LeadsTo(flow, k), 0)'
               \/ \E from \in 1..k : Visiting(n, from)'
    BY <1>3, <1>4, <1>5, <2>2 DEF Explored
  <2> QED
    BY <1>5, <2>1, <2>3 DEF Explored
<1>6. VisitOK'
  BY <1>0, <1>3, <1>4, <1>5 DEF VisitOK, Decided
<1>7. EndsOnce' /\ ReadsAfterSource'
  BY DEF RunInv, EndsOnce, ReadsAfterSource
<1> QED
  BY <1>6, <1>7, VisitReturns DEF RunInv

\* A node that was not visited is marked, and its function is called.
LEMMA VisitBegins ==
  ASSUME RunInv, Running("visit_node"), Top.at = 0,
         Top.node \notin visited, Top.node \in Functions(flow),
         visited' = visited \cup {Top.node}, CallOn(Call(Top.node), 1),
         UNCHANGED <<flow, phase, done, finished>>
  PROVE  RunInv'
<1> DEFINE L == Len(stack)
<1>m. PICK m : m = Top.node
  OBVIOUS
<1>0. RunTyped /\ StackOK /\ NotTwice /\ VisitOK /\ WiredOK /\ EndsOnce /\ ReadsAfterSource
      /\ phase = "running" /\ stack # << >> /\ Top.call = "visit_node"
      /\ stack \in Seq(Frame) /\ FlowOK(flow) /\ visited \subseteq Nat
  BY DEF RunInv, RunTyped, Running
<1>a. m \in Nat
  BY <1>0, <1>m, Innermost DEF Frame
<1>b. Call(m) \in Frame
  BY <1>a DEF Call, Frame
<1>1. /\ stack' \in Seq(Frame) /\ L \in Nat \ {0}
      /\ DOMAIN stack = 1..L /\ DOMAIN stack' = 1..(L + 1) /\ Len(stack') = L + 1
      /\ \A i \in 1..(L - 1) : stack'[i] = stack[i]
      /\ stack'[L] = [call |-> Top.call, node |-> m, at |-> 1]
      /\ stack'[L + 1] = Call(m)
      /\ Top = stack[L] /\ Top \in Frame /\ Top.node = m
  BY <1>0, <1>b, <1>m, Calls
<1>2. /\ stack'[L].call = "visit_node" /\ stack'[L].node = m /\ stack'[L].at = 1
      /\ stack'[L + 1].call = "fn" /\ stack'[L + 1].node = m /\ stack'[L + 1].at = 0
  BY <1>0, <1>1 DEF Call
<1>3. \A i \in 1..(L - 1) : stack[i].at # 0
  BY <1>0, Innermost
<1>4. RunTyped'
  BY <1>0, <1>1, <1>a DEF RunTyped
<1>5. StackOK'
  <2> SUFFICES ASSUME NEW i \in DOMAIN stack'
               PROVE  /\ stack'[i].at = 0 => i = Len(stack')
                      /\ stack'[i].call = "fn" => CallOK(i)'
                      /\ stack'[i].call = "visit_node" => VisitFrameOK(i)'
    BY DEF StackOK
  <2>1. CASE i = L + 1
    BY <1>1, <1>2, <2>1 DEF CallOK
  <2>2. CASE i = L
    <3>1. /\ stack'[i].call = "visit_node" /\ stack'[i].node = m /\ stack'[i].at = 1
          /\ i + 1 \in DOMAIN stack' /\ stack'[i + 1].call = "fn" /\ stack'[i + 1].node = m
      BY <1>1, <1>2, <2>2
    <3>2. VisitFrameOK(i)'
      BY <1>1, <3>1 DEF VisitFrameOK, CallOf
    <3> QED
      BY <3>1, <3>2
  <2>3. CASE i \in 1..(L - 1)
    <3>1. stack'[i] = stack[i] /\ i \in DOMAIN stack /\ i # L /\ i + 1 \in DOMAIN stack
      BY <1>1, <2>3
    <3>2. stack[i + 1].call = "fn" => i + 1 \in DOMAIN stack' /\ stack'[i + 1] = stack[i + 1]
      BY <1>0, <1>1, <3>1
    <3>3. stack[i].call = "fn" => CallOK(i)'
      BY <1>0, <3>1, <3>2 DEF StackOK, CallOK, CallOf, Reads
    <3>4. stack[i].call = "visit_node" => VisitFrameOK(i)'
      BY <1>0, <3>1, <3>2 DEF StackOK, VisitFrameOK, CallOf
    <3> QED
      BY <1>3, <2>3, <3>1, <3>3, <3>4
  <2> QED
    BY <1>1, <2>1, <2>2, <2>3
<1>6. NotTwice'
  BY <1>0, <1>1, <1>2 DEF NotTwice
<1>7. VisitOK'
  <2>1. StillVisiting
    BY <1>0, <1>1, <1>2 DEF StillVisiting, Visiting
  <2>2. Visiting(m, 1)'
    BY <1>1, <1>2 DEF Visiting
  <2>3. ASSUME NEW k \in EdgesOf(flow, m)  PROVE 1 \in 1..k
    BY <1>0 DEF EdgesOf, FlowOK
  <2>4. Explored(m)'
    BY <1>1, <2>2, <2>3 DEF Explored, Begun
  <2> QED
    BY <1>0, <1>1, <2>1, <2>4, StillExplored
<1>8. WiredOK'
  BY <1>0, <1>1, <1>2 DEF WiredOK
<1> QED
  BY <1>0, <1>4, <1>5, <1>6, <1>7, <1>8 DEF RunInv, EndsOnce, ReadsAfterSource

\* A visit goes on along the next edge of its node.
LEMMA EdgeFollowed ==
  ASSUME RunInv, Running("visit_node"), Top.at > 0,
         NEW next \in EdgesOf(flow, Top.node), next >= Top.at,
         \A k \in EdgesOf(flow, Top.node) : k >= Top.at => k >= next,
         CallOn(Visit(LeadsTo(flow, next)), next + 1),
         UNCHANGED <<flow, phase, visited, done, finished>>
  PROVE  RunInv'
<1> DEFINE L == Len(stack)
<1>m. PICK m, to : m = Top.node /\ to = LeadsTo(flow, next)
  OBVIOUS
<1>0. RunTyped /\ StackOK /\ NotTwice /\ VisitOK /\ WiredOK /\ EndsOnce /\ ReadsAfterSource
      /\ phase = "running" /\ stack # << >> /\ Top.call = "visit_node"
      /\ stack \in Seq(Frame) /\ FlowOK(flow)
  BY DEF RunInv, RunTyped, Running
<1>a. next \in Nat /\ to \in NodesOf(flow) /\ NodesOf(flow) \subseteq Nat
  BY <1>0, <1>m DEF EdgesOf, FlowOK
<1>b. Visit(to) \in Frame
  BY <1>a DEF Visit, Frame
<1>1. /\ stack' \in Seq(Frame) /\ L \in Nat \ {0}
      /\ DOMAIN stack = 1..L /\ DOMAIN stack' = 1..(L + 1) /\ Len(stack') = L + 1
      /\ \A i \in 1..(L - 1) : stack'[i] = stack[i]
      /\ stack'[L] = [call |-> Top.call, node |-> m, at |-> next + 1]
      /\ stack'[L + 1] = Visit(to)
      /\ Top = stack[L] /\ Top \in Frame /\ Top.node = m
  BY <1>0, <1>a, <1>b, <1>m, Calls
<1>2. /\ stack'[L].call = "visit_node" /\ stack'[L].node = m /\ stack'[L].at = next + 1
      /\ stack'[L + 1].call = "visit_node" /\ stack'[L + 1].node = to /\ stack'[L + 1].at = 0
  BY <1>0, <1>1 DEF Visit
<1>3. \A i \in 1..(L - 1) : stack[i].at # 0
  BY <1>0, Innermost
<1>4. RunTyped'
  BY <1>0, <1>1 DEF RunTyped
<1>c. m \in visited /\ m \in Functions(flow) /\ m \in done
  BY <1>0, <1>1, <1>m DEF StackOK, VisitFrameOK, CallOf
<1>5. StackOK'
  <2> SUFFICES ASSUME NEW i \in DOMAIN stack'
               PROVE  /\ stack'[i].at = 0 => i = Len(stack')
                      /\ stack'[i].call = "fn" => CallOK(i)'
                      /\ stack'[i].call = "visit_node" => VisitFrameOK(i)'
    BY DEF StackOK
  <2>1. CASE i = L + 1
    BY <1>1, <1>2, <2>1 DEF VisitFrameOK
  <2>2. CASE i = L
    <3>1. stack'[i].call = "visit_node" /\ stack'[i].node = m /\ stack'[i].at = next + 1
      BY <1>1, <1>2, <2>2
    <3>2. VisitFrameOK(i)'
      BY <1>c, <3>1 DEF VisitFrameOK
    <3> QED
      BY <1>a, <3>1, <3>2
  <2>3. CASE i \in 1..(L - 1)
    <3>1. stack'[i] = stack[i] /\ i \in DOMAIN stack /\ i # L /\ i + 1 \in DOMAIN stack
      BY <1>1, <2>3
    <3>2. stack[i + 1].call = "fn" => i + 1 \in DOMAIN stack' /\ stack'[i + 1] = stack[i + 1]
      BY <1>0, <1>1, <3>1
    <3>3. stack[i].call = "fn" => CallOK(i)'
      BY <1>0, <3>1, <3>2 DEF StackOK, CallOK, CallOf, Reads
    <3>4. stack[i].call = "visit_node" => VisitFrameOK(i)'
      BY <1>0, <3>1, <3>2 DEF StackOK, VisitFrameOK, CallOf
    <3> QED
      BY <1>3, <2>3, <3>1, <3>3, <3>4
  <2> QED
    BY <1>1, <2>1, <2>2, <2>3
<1>6. NotTwice'
  BY <1>0, <1>1, <1>2 DEF NotTwice
<1>7. VisitOK'
  <2>1. ASSUME NEW n, NEW from, Visiting(n, from)
        PROVE  Visiting(n, from)' \/ (n = m /\ from = Top.at)
    BY <1>0, <1>1, <2>1 DEF Visiting
  <2>2. Visiting(m, next + 1)' /\ Visiting(to, 0)'
    BY <1>1, <1>2 DEF Visiting
  <2>3. 1 \in visited' \/ Visiting(1, 0)'
    BY <1>0, <2>1 DEF VisitOK
  <2>4. ASSUME NEW n \in visited, Explored(n)  PROVE Explored(n)'
    <3>1. n \in Functions(flow)' /\ (n \in done' \/ Begun(n)')
      BY <1>a, <2>1, <2>2, <2>4 DEF Explored, Begun
    <3>2. ASSUME NEW k \in EdgesOf(flow, n)
          PROVE  \/ LeadsTo(flow, k) \in visited
                 \/ Visiting(LeadsTo(flow, k), 0)'
                 \/ \E from \in 1..k : Visiting(n, from)'
      <4>1. CASE LeadsTo(flow, k) \in visited
        BY <4>1
      <4>2. CASE Visiting(LeadsTo(flow, k), 0)
        BY <2>1, <4>2
      <4>3. ASSUME NEW from \in 1..k, Visiting(n, from)
            PROVE  Visiting(LeadsTo(flow, k), 0)' \/ \E f \in 1..k : Visiting(n, f)'
        <5>1. CASE Visiting(n, from)'
          BY <5>1
        <5>2. CASE n = m /\ from = Top.at
          <6>0. k \in Nat
            BY <1>0 DEF EdgesOf, FlowOK
          <6>1. k >= next
            BY <1>1, <4>3, <5>2, <6>0
          <6>2. CASE k = next
            BY <1>m, <2>2, <6>2
          <6>3. CASE k > next
            BY <1>a, <1>1, <2>2, <5>2, <6>0, <6>3
          <6> QED
            BY <1>a, <6>0, <6>1, <6>2, <6>3
        <5> QED
          BY <2>1, <4>3, <5>1, <5>2
      <4> QED
        BY <2>4, <4>1, <4>2, <4>3 DEF Explored
    <3> QED
      BY <3>1, <3>2 DEF Explored
  <2> QED
    BY <1>0, <2>3, <2>4 DEF VisitOK, Decided
<1>8. WiredOK'
  <2>1. ASSUME WellWired(flow)  PROVE to \in Reachable(flow, 1)
    <3>1. m \in Reachable(flow, 1) /\ 1 \in NodesOf(flow)
      BY <1>0, <1>1, <2>1, WellWiredFlow DEF WiredOK
    <3>2. Closed(flow, Reachable(flow, 1))
      BY <1>0, <3>1, ReachableCloses
    <3> QED
      BY <1>m, <3>1, <3>2 DEF Closed, EdgesOf
  <2> QED
    BY <1>0, <1>1, <1>2, <2>1 DEF WiredOK
<1> QED
  BY <1>0, <1>4, <1>5, <1>6, <1>7, <1>8 DEF RunInv, EndsOnce, ReadsAfterSource
\* The function of a node that has run returns to whoever called it.
LEMMA FunctionReturns ==
  ASSUME RunInv, Running("fn"), Return, flow' = flow, visited \subseteq visited',
         Top.node \in done', done \subseteq done',
         \A i \in 1..(Len(stack) - 1) : stack[i].call = "fn" => stack[i].node \notin done'
  PROVE  /\ stack' \in Seq(Frame) /\ StackOK' /\ NotTwice' /\ StillVisiting
         /\ WellWired(flow) => \A i \in DOMAIN stack' : stack'[i].node \in Reachable(flow, 1)
<1> DEFINE L == Len(stack)
<1>m. PICK m : m = Top.node
  OBVIOUS
<1>0. RunTyped /\ StackOK /\ NotTwice /\ WiredOK /\ phase = "running" /\ stack # << >>
      /\ Top.call = "fn" /\ stack \in Seq(Frame)
  BY DEF RunInv, RunTyped, Running
<1>1. /\ stack' \in Seq(Frame) /\ L \in Nat \ {0}
      /\ DOMAIN stack = 1..L /\ DOMAIN stack' = 1..(L - 1) /\ Len(stack') = L - 1
      /\ \A i \in 1..(L - 1) : stack'[i] = stack[i]
      /\ Top = stack[L] /\ Top \in Frame
  BY <1>0, Returns
<1>2. \A i \in 1..(L - 1) : stack[i].at # 0
  BY <1>0, Innermost
<1>3. StackOK'
  <2> SUFFICES ASSUME NEW i \in DOMAIN stack'
               PROVE  /\ stack'[i].at # 0
                      /\ stack'[i].call = "fn" => CallOK(i)'
                      /\ stack'[i].call = "visit_node" => VisitFrameOK(i)'
    BY DEF StackOK
  <2>1. stack'[i] = stack[i] /\ i \in DOMAIN stack /\ i # L /\ i + 1 \in DOMAIN stack
    BY <1>1
  <2>2. CASE i + 1 = L
    <3>1. stack[i + 1].node = m /\ m \in done' /\ i = Len(stack')
      BY <1>1, <1>m, <2>1, <2>2
    <3>2. stack[i].call = "fn" => CallOK(i)'
      BY <1>0, <1>1, <2>1, <3>1 DEF StackOK, CallOK, CallOf, Reads
    <3>3. stack[i].call = "visit_node" => VisitFrameOK(i)'
      BY <1>0, <1>1, <2>1, <3>1 DEF StackOK, VisitFrameOK, CallOf
    <3> QED
      BY <1>1, <1>2, <2>1, <3>2, <3>3
  <2>3. CASE i + 1 # L
    <3>1. i + 1 \in DOMAIN stack' /\ stack'[i + 1] = stack[i + 1]
      BY <1>1, <2>1, <2>3
    <3>2. stack[i].call = "fn" => CallOK(i)'
      BY <1>0, <1>1, <2>1, <3>1 DEF StackOK, CallOK, CallOf, Reads
    <3>3. stack[i].call = "visit_node" => VisitFrameOK(i)'
      BY <1>0, <1>1, <2>1, <3>1 DEF StackOK, VisitFrameOK, CallOf
    <3> QED
      BY <1>1, <1>2, <2>1, <3>2, <3>3
  <2> QED
    BY <2>2, <2>3
<1>4. NotTwice'
  BY <1>0, <1>1 DEF NotTwice
<1>5. StillVisiting
  BY <1>0, <1>1 DEF StillVisiting, Visiting
<1>6. ASSUME WellWired(flow), NEW i \in DOMAIN stack'
      PROVE  stack'[i].node \in Reachable(flow, 1)
  BY <1>0, <1>1, <1>6 DEF WiredOK
<1> QED
  BY <1>1, <1>3, <1>4, <1>5, <1>6

\* A node whose code has not ended before ends, and its source has if it reads.
LEMMA Finishes ==
  ASSUME RunInv, NEW n \in NodesOf(flow), n \notin done, flow' = flow,
         Reads(n) => Source(flow, n) \in done,
         done' = done \cup {n}, finished' = Append(finished, n)
  PROVE  /\ finished' \in Seq(NodesOf(flow))
         /\ done' = {finished'[i] : i \in DOMAIN finished'}
         /\ EndsOnce' /\ ReadsAfterSource'
<1> DEFINE F == Len(finished)
<1>1. /\ finished \in Seq(NodesOf(flow)) /\ done = {finished[i] : i \in DOMAIN finished}
      /\ EndsOnce /\ ReadsAfterSource
  BY DEF RunInv, RunTyped
<1>2. /\ F \in Nat /\ DOMAIN finished = 1..F /\ DOMAIN finished' = 1..(F + 1)
      /\ finished'[F + 1] = n /\ \A i \in 1..F : finished'[i] = finished[i]
      /\ finished' \in Seq(NodesOf(flow))
  BY <1>1
<1>3. done' = {finished'[i] : i \in DOMAIN finished'}
  <2>1. ASSUME NEW d \in done'  PROVE \E i \in DOMAIN finished' : finished'[i] = d
    BY <1>1, <1>2
  <2>2. ASSUME NEW i \in DOMAIN finished'  PROVE finished'[i] \in done'
    BY <1>1, <1>2
  <2> QED
    BY <2>1, <2>2
<1>4. \A i \in DOMAIN finished : finished[i] # n
  BY <1>1
<1>5. EndsOnce'
  <2> SUFFICES ASSUME NEW i \in DOMAIN finished', NEW j \in DOMAIN finished',
                      finished'[i] = finished'[j]
               PROVE  i = j
    BY DEF EndsOnce
  <2>1. CASE i \in 1..F /\ j \in 1..F
    BY <1>1, <1>2, <2>1 DEF EndsOnce
  <2>2. CASE i = F + 1 \/ j = F + 1
    BY <1>2, <1>4, <2>2
  <2> QED
    BY <1>2, <2>1, <2>2
<1>6. ReadsAfterSource'
  <2> SUFFICES ASSUME NEW i \in DOMAIN finished', flow.nodes[finished'[i]].type \in Reading
               PROVE  \E j \in 1..(i - 1) : finished'[j] = Source(flow, finished'[i])
    BY DEF ReadsAfterSource
  <2>1. CASE i \in 1..F
    <3>1. finished'[i] = finished[i]
      BY <1>2, <2>1
    <3>2. PICK j \in 1..(i - 1) : finished[j] = Source(flow, finished[i])
      BY <1>1, <1>2, <2>1, <3>1 DEF ReadsAfterSource
    <3>3. finished'[j] = finished[j]
      BY <1>2, <2>1, <3>2
    <3> QED
      BY <3>1, <3>2, <3>3
  <2>2. CASE i = F + 1
    <3>1. Source(flow, n) \in done
      BY <1>2, <2>2 DEF Reads
    <3>2. PICK j \in DOMAIN finished : finished[j] = Source(flow, n)
      BY <1>1, <3>1
    <3> QED
      BY <1>2, <2>2, <3>2
  <2> QED
    BY <1>2, <2>1, <2>2
<1> QED
  BY <1>2, <1>3, <1>5, <1>6
\* once answers for a node that has run.
LEMMA OnceAnswers ==
  ASSUME RunInv, Running("fn"), Top.node \in done, Return,
         UNCHANGED <<flow, phase, visited, done, finished>>
  PROVE  RunInv'
<1>1. /\ RunTyped /\ StackOK /\ VisitOK /\ WiredOK /\ phase = "running"
      /\ DOMAIN stack = 1..Len(stack) /\ Len(stack) \in Nat \ {0}
      /\ \A i \in DOMAIN stack : stack[i] \in Frame
      /\ \A i \in 1..(Len(stack) - 1) : stack[i].at # 0
  BY Innermost DEF RunInv, Running
<1>2. ASSUME NEW i \in 1..(Len(stack) - 1), stack[i].call = "fn"
      PROVE  stack[i].node \notin done'
  <2>1. stack[i].at > 0
    BY <1>1 DEF Frame
  <2> QED
    BY <1>1, <1>2, <2>1 DEF StackOK, CallOK
<1>3. /\ stack' \in Seq(Frame) /\ StackOK' /\ NotTwice' /\ StillVisiting
      /\ WellWired(flow) => \A i \in DOMAIN stack' : stack'[i].node \in Reachable(flow, 1)
  BY <1>2, FunctionReturns
<1>4. RunTyped'
  BY <1>1, <1>3 DEF RunTyped
<1>5. VisitOK'
  BY <1>1, <1>3, StillExplored
<1>6. WiredOK'
  BY <1>1, <1>3 DEF WiredOK
<1>7. EndsOnce' /\ ReadsAfterSource'
  BY DEF RunInv, EndsOnce, ReadsAfterSource
<1> QED
  BY <1>3, <1>4, <1>5, <1>6, <1>7 DEF RunInv

\* The code of a node ends, whether it read or not.
LEMMA CodeEnds ==
  ASSUME RunInv, Running("fn"), Top.node \notin done, Finish(Top.node),
         Reads(Top.node) => Source(flow, Top.node) \in done,
         Top.at = 0 => ~CallsItself,
         \/ visited' = visited
         \/ visited' = visited \cup {4} /\ flow.nodes[Top.node].type = "Decision"
  PROVE  RunInv'
<1>m. PICK m : m = Top.node
  OBVIOUS
<1>1. /\ RunTyped /\ StackOK /\ NotTwice /\ VisitOK /\ WiredOK /\ phase = "running"
      /\ DOMAIN stack = 1..Len(stack) /\ Len(stack) \in Nat \ {0} /\ Top = stack[Len(stack)]
      /\ Top \in Frame /\ Top.call = "fn"
      /\ \A i \in DOMAIN stack : stack[i] \in Frame
      /\ \A i \in 1..(Len(stack) - 1) : stack[i].at # 0
  BY Innermost DEF RunInv, Running
<1>2. /\ done' = done \cup {m} /\ finished' = Append(finished, m) /\ Return
      /\ flow' = flow /\ phase' = phase
  BY <1>m DEF Finish
<1>3. m \in NodesOf(flow)
  BY <1>1, <1>m, FunctionsAreNodes DEF StackOK, CallOK
<1>4. ASSUME NEW i \in 1..(Len(stack) - 1), stack[i].call = "fn"
      PROVE  stack[i].node \notin done'
  <2>1. stack[i].at > 0
    BY <1>1 DEF Frame
  <2>2. stack[i].node \notin done
    BY <1>1, <1>4, <2>1 DEF StackOK, CallOK
  <2>3. stack[i].node # m
    <3>1. CASE Top.at = 0
      BY <1>m, <1>4, <3>1 DEF CallsItself
    <3>2. CASE Top.at # 0
      <4>1. Top.at > 0
        BY <1>1, <3>2 DEF Frame
      <4> QED
        BY <1>1, <1>m, <1>4, <2>1, <4>1 DEF NotTwice
    <3> QED
      BY <3>1, <3>2
  <2> QED
    BY <1>2, <2>2, <2>3
<1>5. /\ finished' \in Seq(NodesOf(flow)) /\ done' = {finished'[i] : i \in DOMAIN finished'}
      /\ EndsOnce' /\ ReadsAfterSource'
  BY <1>m, <1>2, <1>3, Finishes
<1>6. /\ stack' \in Seq(Frame) /\ StackOK' /\ NotTwice' /\ StillVisiting
      /\ WellWired(flow) => \A i \in DOMAIN stack' : stack'[i].node \in Reachable(flow, 1)
  BY <1>m, <1>2, <1>4, FunctionReturns
<1>7. RunTyped'
  <2>1. visited' \subseteq Nat
    <3>1. visited \subseteq Nat /\ visited' \subseteq visited \cup {4}
      BY <1>1 DEF RunTyped
    <3> QED
      BY <3>1
  <2>2. FlowOK(flow') /\ phase' = "running" /\ finished' \in Seq(NodesOf(flow'))
    BY <1>1, <1>2, <1>5 DEF RunTyped
  <2> QED
    BY <1>5, <1>6, <2>1, <2>2 DEF RunTyped
<1>8. VisitOK'
  <2>1. ASSUME visited' # visited  PROVE Decided'
    BY <1>m, <1>2, <2>1 DEF Decided
  <2>2. \A n \in visited' \ visited : (n = 4 /\ Decided') \/ Explored(n)'
    BY <2>1
  <2> QED
    BY <1>1, <1>2, <1>6, <2>2, StillExplored
<1>9. WiredOK'
  BY <1>1, <1>2, <1>6 DEF WiredOK
<1> QED
  BY <1>5, <1>6, <1>7, <1>8, <1>9 DEF RunInv

\* A node that reads calls the function of its source.
LEMMA SourceCalled ==
  ASSUME RunInv, Running("fn"), Top.at = 0, Top.node \notin done, ~CallsItself,
         Reads(Top.node), Source(flow, Top.node) \in Functions(flow),
         CallOn(Call(Source(flow, Top.node)), 1),
         UNCHANGED <<flow, phase, visited, done, finished>>
  PROVE  RunInv'
<1> DEFINE L == Len(stack)
<1>m. PICK m, from : m = Top.node /\ from = Source(flow, m)
  OBVIOUS
<1>0. RunTyped /\ StackOK /\ NotTwice /\ VisitOK /\ WiredOK /\ phase = "running"
      /\ stack # << >> /\ Top.call = "fn" /\ stack \in Seq(Frame) /\ FlowOK(flow)
  BY DEF RunInv, RunTyped, Running
<1>a. from \in Nat
  BY <1>0, <1>m, FunctionsAreNodes DEF FlowOK
<1>b. Call(from) \in Frame
  BY <1>a DEF Call, Frame
<1>1. /\ stack' \in Seq(Frame) /\ L \in Nat \ {0}
      /\ DOMAIN stack = 1..L /\ DOMAIN stack' = 1..(L + 1) /\ Len(stack') = L + 1
      /\ \A i \in 1..(L - 1) : stack'[i] = stack[i]
      /\ stack'[L] = [call |-> Top.call, node |-> m, at |-> 1]
      /\ stack'[L + 1] = Call(from)
      /\ Top = stack[L] /\ Top \in Frame /\ Top.node = m
  BY <1>0, <1>b, <1>m, Calls
<1>2. /\ stack'[L].call = "fn" /\ stack'[L].node = m /\ stack'[L].at = 1
      /\ stack'[L + 1].call = "fn" /\ stack'[L + 1].node = from /\ stack'[L + 1].at = 0
  BY <1>0, <1>1 DEF Call
<1>3. \A i \in 1..(L - 1) : stack[i].at # 0
  BY <1>0, Innermost
<1>4. RunTyped'
  BY <1>0, <1>1 DEF RunTyped
<1>5. StackOK'
  <2> SUFFICES ASSUME NEW i \in DOMAIN stack'
               PROVE  /\ stack'[i].at = 0 => i = Len(stack')
                      /\ stack'[i].call = "fn" => CallOK(i)'
                      /\ stack'[i].call = "visit_node" => VisitFrameOK(i)'
    BY DEF StackOK
  <2>1. CASE i = L + 1
    <3>1. CallOK(i)'
      BY <1>m, <1>2, <2>1 DEF CallOK
    <3> QED
      BY <1>1, <1>2, <2>1, <3>1
  <2>2. CASE i = L
    <3>1. /\ stack'[i].call = "fn" /\ stack'[i].node = m /\ stack'[i].at = 1
          /\ i + 1 \in DOMAIN stack' /\ stack'[i + 1].call = "fn" /\ stack'[i + 1].node = from
      BY <1>1, <1>2, <2>2
    <3>2. m \in Functions(flow)
      BY <1>0, <1>1 DEF StackOK, CallOK
    <3>3. CallOK(i)'
      BY <1>m, <3>1, <3>2 DEF CallOK, CallOf, Reads
    <3> QED
      BY <3>1, <3>3
  <2>3. CASE i \in 1..(L - 1)
    <3>1. stack'[i] = stack[i] /\ i \in DOMAIN stack /\ i # L /\ i + 1 \in DOMAIN stack
      BY <1>1, <2>3
    <3>2. i + 1 \in DOMAIN stack' /\ stack'[i + 1].call = stack[i + 1].call
          /\ stack'[i + 1].node = stack[i + 1].node
      BY <1>0, <1>1, <1>2, <3>1
    <3>3. stack[i].call = "fn" => CallOK(i)'
      BY <1>0, <3>1, <3>2 DEF StackOK, CallOK, CallOf, Reads
    <3>4. stack[i].call = "visit_node" => VisitFrameOK(i)'
      BY <1>0, <3>1, <3>2 DEF StackOK, VisitFrameOK, CallOf
    <3> QED
      BY <1>3, <2>3, <3>1, <3>3, <3>4
  <2> QED
    BY <1>1, <2>1, <2>2, <2>3
<1>6. NotTwice'
  <2>1. ASSUME NEW i \in 1..(L - 1), stack[i].call = "fn"  PROVE stack[i].node # m
    BY <1>1, <2>1 DEF CallsItself
  <2> SUFFICES ASSUME NEW i \in 1..L, NEW j \in 1..L,
                      stack'[i].call = "fn", stack'[j].call = "fn",
                      stack'[i].at > 0, stack'[j].at > 0, stack'[i].node = stack'[j].node
               PROVE  i = j
    BY <1>1, <1>2 DEF NotTwice
  <2>2. CASE i \in 1..(L - 1) /\ j \in 1..(L - 1)
    BY <1>0, <1>1, <2>2 DEF NotTwice
  <2>3. \A k \in 1..L : k = L \/ k \in 1..(L - 1)
    BY <1>1, LastOrBefore
  <2>4. \A k \in 1..L : stack'[k].call = "fn" /\ stack'[k].node = m => k = L
    BY <1>1, <2>1, <2>3
  <2>5. CASE i = L \/ j = L
    <3>1. stack'[i].node = m /\ stack'[j].node = m
      BY <1>2, <2>5
    <3> QED
      BY <2>4, <3>1
  <2> QED
    BY <2>2, <2>3, <2>5
<1>7. VisitOK'
  <2>1. StillVisiting
    BY <1>0, <1>1, <1>2 DEF StillVisiting, Visiting
  <2> QED
    BY <1>0, <2>1, StillExplored
<1>8. WiredOK'
  <2>1. ASSUME WellWired(flow)  PROVE from \in Reachable(flow, 1)
    BY <1>0, <1>m, <2>1, WellWiredFlow
  <2> QED
    BY <1>0, <1>1, <1>2, <2>1 DEF WiredOK
<1>9. EndsOnce' /\ ReadsAfterSource'
  BY DEF RunInv, EndsOnce, ReadsAfterSource
<1> QED
  BY <1>4, <1>5, <1>6, <1>7, <1>8, <1>9 DEF RunInv
-----------------------------------------------------------------------------
\* What makes a run fail: none of it happens to a flow that is well wired.
\* A visit comes by nodes that node 1 leads to, and those have functions.
LEMMA VisitsAreFunctions ==
  ASSUME RunInv, phase = "running", stack # << >>, WellWired(flow)
  PROVE  Top.node \in Functions(flow)
<1>1. FlowOK(flow) /\ WiredOK
  BY DEF RunInv, RunTyped
<1>2. Top.node \in Reachable(flow, 1)
  BY <1>1, Innermost DEF WiredOK
<1> QED
  BY <1>1, <1>2, WellWiredFlow

\* Between two calls of one function there are only calls of functions, each
\* for the value the one before reads.
LEMMA CallsOnly ==
  ASSUME RunInv, phase = "running", stack # << >>,
         NEW i \in 1..(Len(stack) - 1), stack[i].call = "fn"
  PROVE  \A j \in i..Len(stack) : stack[j].call = "fn"
<1> DEFINE L == Len(stack)
           others == {j \in i..L : stack[j].call # "fn"}
<1>1. /\ L \in Nat \ {0} /\ DOMAIN stack = 1..L /\ StackOK
      /\ \A j \in DOMAIN stack : stack[j] \in Frame
      /\ \A j \in 1..(L - 1) : stack[j].at # 0
  BY Innermost DEF RunInv
<1>2. SUFFICES ASSUME others # {}  PROVE FALSE
  OBVIOUS
<1>3. others \in SUBSET Nat
  BY <1>1
<1>4. PICK b : b = SmallestOf(others)
  OBVIOUS
<1>5. b \in others /\ \A j \in others : b <= j
  BY <1>2, <1>3, <1>4, Smallest
<1>6. b \in i..L /\ b # i
  BY <1>5
<1>7. b - 1 \in i..L /\ b - 1 \in 1..(L - 1) /\ ~(b <= b - 1) /\ (b - 1) + 1 = b /\ b - 1 # L
  BY <1>1, <1>6
<1>8. stack[b - 1].call = "fn"
  BY <1>5, <1>7
<1>9. stack[b - 1].at > 0 /\ b - 1 \in DOMAIN stack
  BY <1>1, <1>7 DEF Frame
<1>10. CallOf((b - 1) + 1, Source(flow, stack[b - 1].node))
  BY <1>1, <1>7, <1>8, <1>9 DEF StackOK, CallOK
<1> QED
  BY <1>5, <1>7, <1>10 DEF CallOf

LEMMA Between ==
  ASSUME NEW l \in Nat, NEW i \in 1..(l - 1), NEW j \in i..(l - 1)
  PROVE  j \in 1..(l - 1) /\ j \in i..l /\ j \in 1..l /\ j # l
OBVIOUS

\* A function that is called while its code runs reads, through the calls in
\* between, from itself.
LEMMA ItselfNotWired ==
  ASSUME RunInv, Running("fn"), CallsItself
  PROVE  ~WellWired(flow)
<1> DEFINE L == Len(stack)
<1>1. /\ L \in Nat \ {0} /\ DOMAIN stack = 1..L /\ StackOK /\ FlowOK(flow)
      /\ Top = stack[L] /\ phase = "running" /\ stack # << >>
      /\ \A j \in DOMAIN stack : stack[j] \in Frame
      /\ \A j \in 1..(L - 1) : stack[j].at # 0
  BY Innermost DEF RunInv, RunTyped, Running
<1>2. PICK i \in 1..(L - 1) : stack[i].call = "fn" /\ stack[i].node = Top.node
  BY DEF CallsItself
<1>3. \A j \in i..L : stack[j].call = "fn"
  BY <1>1, <1>2, CallsOnly
<1>a. \A j \in i..(L - 1) : j # L - 1 => j + 1 \in i..(L - 1)
  <2>1. \A k \in Nat : \A j \in i..k : j # k => j + 1 \in i..k
    BY <1>1, <1>2
  <2>2. L - 1 \in Nat
    BY <1>1
  <2> QED
    BY <2>1, <2>2
<1> DEFINE S == {stack[j].node : j \in i..(L - 1)}
<1>4. ASSUME NEW j \in i..(L - 1)
      PROVE  /\ stack[j].node \in NodesOf(flow) /\ Reads(stack[j].node)
             /\ Source(flow, stack[j].node) = stack[j + 1].node
  <2>0. L \in Nat /\ i \in 1..(L - 1) /\ DOMAIN stack = 1..L
    BY <1>1, <1>2
  <2>1. j \in 1..(L - 1) /\ j \in i..L /\ j \in DOMAIN stack /\ j # L
    BY <2>0, Between
  <2>2. stack[j].at > 0 /\ stack[j].call = "fn"
    BY <1>1, <1>3, <2>1 DEF Frame
  <2>3. CallOK(j)
    BY <1>1, <2>1, <2>2 DEF StackOK
  <2> QED
    BY <2>1, <2>2, <2>3, FunctionsAreNodes DEF CallOK, CallOf
<1>5. ASSUME NEW n \in S  PROVE Source(flow, n) \in S
  <2>1. PICK j \in i..(L - 1) : n = stack[j].node
    OBVIOUS
  <2>2. Source(flow, n) = stack[j + 1].node
    BY <1>4, <2>1
  <2>3. CASE j = L - 1
    <3>1. stack[j + 1] = Top /\ i \in i..(L - 1)
      BY <1>1, <1>2, <2>3
    <3> QED
      BY <1>2, <2>2, <3>1
  <2>4. CASE j # L - 1
    <3>1. j + 1 \in i..(L - 1)
      BY <1>a, <2>1, <2>4
    <3> QED
      BY <2>2, <3>1
  <2> QED
    BY <2>3, <2>4
<1>6. S \in SUBSET {n \in NodesOf(flow) : flow.nodes[n].type \in Reading}
  BY <1>4 DEF Reads
<1>7. S # {}
  <2>1. i \in i..(L - 1)
    BY <1>1, <1>2
  <2> QED
    BY <2>1
<1> HIDE DEF S
<1> QED
  BY <1>5, <1>6, <1>7 DEF WellWired, ReadsEnd

\* A node that reads from one without a function: nothing leads there.
LEMMA SourceNotWired ==
  ASSUME RunInv, Running("fn"), Reads(Top.node), Source(flow, Top.node) \notin Functions(flow)
  PROVE  ~WellWired(flow)
<1>1. /\ FlowOK(flow) /\ Top.node \in NodesOf(flow)
  BY Innermost, FunctionsAreNodes DEF RunInv, RunTyped, Running, StackOK, CallOK
<1> QED
  BY <1>1, WellWiredFlow DEF WellWired, Reads

\* A run that has come to its end.
LEMMA Completes ==
  ASSUME RunInv, Complete
  PROVE  RunInv'
<1>1. /\ flow' = flow /\ visited' = visited /\ done' = done /\ finished' = finished
      /\ phase' = "completed" /\ stack' = << >> /\ stack = << >> /\ phase = "running"
  BY DEF Complete
<1>2. RunTyped'
  BY <1>1 DEF RunInv, RunTyped
<1>3. VisitOK'
  <2>1. VisitOK
    BY DEF RunInv
  <2>2. \A n, from : Visiting(n, from)' <=> Visiting(n, from)
    BY <1>1 DEF Visiting
  <2>3. \A n : Explored(n)' <=> Explored(n)
    BY <1>1, <2>2 DEF Explored, Begun
  <2>4. Decided' <=> Decided
    BY <1>1 DEF Decided
  <2> QED
    BY <1>1, <2>1, <2>2, <2>3, <2>4 DEF VisitOK
<1>4. StackOK' /\ NotTwice' /\ WiredOK'
  BY <1>1 DEF StackOK, NotTwice, WiredOK
<1>5. EndsOnce' /\ ReadsAfterSource'
  BY <1>1 DEF RunInv, EndsOnce, ReadsAfterSource
<1> QED
  BY <1>2, <1>3, <1>4, <1>5 DEF RunInv
-----------------------------------------------------------------------------
\* A step of the program that runs.
LEMMA RunKeeps ==
  ASSUME RunInv, RunNext
  PROVE  RunInv'
<1>m. PICK m : m = Top.node
  OBVIOUS
<1>1. CASE VisitNode
  <2>1. phase = "running" /\ stack # << >> /\ Running("visit_node") /\ Top.at = 0
    BY <1>1 DEF VisitNode, Running
  <2>2. CASE /\ Top.node \in visited /\ Return
             /\ UNCHANGED <<flow, phase, visited, done, finished>>
    BY <2>1, <2>2, VisitedReturns
  <2>3. CASE /\ Top.node \notin visited /\ Top.node \in Functions(flow)
             /\ visited' = visited \cup {Top.node} /\ CallOn(Call(Top.node), 1)
             /\ UNCHANGED <<flow, phase, done, finished>>
    BY <2>1, <2>3, VisitBegins
  <2>4. CASE Top.node \notin visited \cup Functions(flow) /\ Fail
    BY <2>1, <2>4, VisitsAreFunctions, Fails
  <2> QED
    BY <1>1, <2>2, <2>3, <2>4 DEF VisitNode
<1>2. CASE FollowEdges
  <2>1. Running("visit_node") /\ Top.at > 0 /\ phase = "running" /\ stack # << >>
        /\ UNCHANGED <<flow, phase, visited, done, finished>> /\ FlowOK(flow)
    BY <1>2 DEF FollowEdges, Running, RunInv, RunTyped
  <2> DEFINE left == {k \in EdgesOf(flow, Top.node) : k >= Top.at}
  <2>2. CASE left = {}
    <3>1. Return /\ \A k \in EdgesOf(flow, Top.node) : ~(k >= Top.at)
      BY <1>2, <2>2 DEF FollowEdges
    <3> QED
      BY <2>1, <3>1, VisitEnds
  <2>3. CASE left # {}
    <3>1. PICK next : next = SmallestOf(left)
      OBVIOUS
    <3>2. left \in SUBSET Nat
      BY <2>1 DEF EdgesOf, FlowOK
    <3>3. next \in left /\ \A k \in left : next <= k
      BY <2>3, <3>1, <3>2, Smallest
    <3>4. \A k \in left : k >= next
      BY <3>2, <3>3
    <3>5. CallOn(Visit(LeadsTo(flow, next)), next + 1)
      BY <1>2, <2>3, <3>1 DEF FollowEdges
    <3> QED
      BY <2>1, <3>3, <3>4, <3>5, EdgeFollowed
  <2> QED
    BY <2>2, <2>3
<1>3. CASE CallNode
  <2>1. Running("fn") /\ Top.at = 0
    BY <1>3 DEF CallNode
  <2>2. CASE Top.node \in done /\ Return /\ UNCHANGED <<flow, phase, visited, done, finished>>
    BY <2>1, <2>2, OnceAnswers
  <2>3. CASE CallsItself /\ Fail
    BY <2>1, <2>3, ItselfNotWired, Fails
  <2>4. CASE /\ Top.node \notin done /\ ~CallsItself
             /\ flow.nodes[Top.node].type \notin Reading
             /\ Finish(Top.node) /\ UNCHANGED visited
    BY <2>1, <2>4, CodeEnds DEF Reads
  <2>5. CASE /\ Top.node \notin done /\ ~CallsItself
             /\ flow.nodes[Top.node].type \in Reading
             /\ Source(flow, Top.node) \in Functions(flow)
             /\ CallOn(Call(Source(flow, Top.node)), 1)
             /\ UNCHANGED <<flow, phase, visited, done, finished>>
    BY <2>1, <2>5, SourceCalled DEF Reads
  <2>6. CASE /\ flow.nodes[Top.node].type \in Reading
             /\ Source(flow, Top.node) \notin Functions(flow) /\ Fail
    BY <2>1, <2>6, SourceNotWired, Fails DEF Reads
  <2> QED
    BY <1>3, <2>2, <2>3, <2>4, <2>5, <2>6 DEF CallNode
<1>4. CASE UseSource
  <2>1. Running("fn") /\ Top.at > 0 /\ Finish(Top.node)
    BY <1>4 DEF UseSource
  <2>2. Top.node \notin done /\ Source(flow, Top.node) \in done /\ Top.at # 0
    <3>1. /\ Top = stack[Len(stack)] /\ DOMAIN stack = 1..Len(stack) /\ StackOK
          /\ Len(stack) \in DOMAIN stack /\ Len(stack) \in Nat \ {0} /\ Top \in Frame
          /\ Top.call = "fn"
      BY <2>1, Innermost DEF Running, RunInv
    <3>2. CallOK(Len(stack)) /\ ~(Len(stack) + 1 \in DOMAIN stack)
      BY <3>1 DEF StackOK
    <3> QED
      BY <2>1, <3>1, <3>2 DEF CallOK, CallOf
  <2>3. \/ visited' = visited
        \/ visited' = visited \cup {4} /\ flow.nodes[Top.node].type = "Decision"
    BY <1>4 DEF UseSource
  <2> QED
    BY <2>1, <2>2, <2>3, CodeEnds
<1>5. CASE Complete
  BY <1>5, Completes
<1> QED
  BY <1>1, <1>2, <1>3, <1>4, <1>5 DEF RunNext

LEMMA RunStutters ==
  ASSUME RunInv, UNCHANGED runVars
  PROVE  RunInv'
<1>1. \A n, from : Visiting(n, from)' <=> Visiting(n, from)
  BY DEF Visiting, runVars
<1>2. \A n : Explored(n)' <=> Explored(n)
  BY <1>1 DEF Explored, Begun, runVars
<1>3. VisitOK'
  BY <1>1, <1>2 DEF RunInv, VisitOK, Decided, runVars
<1>4. StackOK'
  <2>1. \A i \in DOMAIN stack : CallOK(i)' <=> CallOK(i)
    BY DEF CallOK, CallOf, Reads, runVars
  <2>2. \A i \in DOMAIN stack : VisitFrameOK(i)' <=> VisitFrameOK(i)
    BY DEF VisitFrameOK, CallOf, runVars
  <2> QED
    BY <2>1, <2>2 DEF RunInv, StackOK, runVars
<1>5. RunTyped' /\ NotTwice' /\ WiredOK' /\ EndsOnce' /\ ReadsAfterSource'
  BY DEF RunInv, RunTyped, NotTwice, WiredOK, EndsOnce, ReadsAfterSource, runVars
<1> QED
  BY <1>3, <1>4, <1>5 DEF RunInv
-----------------------------------------------------------------------------
\* The flow the editor posts is one the program can go by.
LEMMA PostedFlowOK ==
  ASSUME Typed
  PROVE  FlowOK(Graph)
<1>1. /\ Dense(nodes) /\ Dense(connections)
      /\ \A k \in DOMAIN connections : connections[k].inputNode \in DOMAIN nodes
  BY DEF Typed, GraphOK, Indexed, ConnectionsOK
<1>2. Graph.nodes = nodes /\ Graph.connections = connections
  BY DEF Graph
<1>3. \A k \in DOMAIN connections : LeadsTo(Graph, k) \in DOMAIN nodes
  BY <1>1, <1>2 DEF LeadsTo
<1>4. DOMAIN connections \subseteq Nat \ {0}
  BY <1>1 DEF Dense
<1>5. \E n \in Nat : NodesOf(Graph) = 1..n
  BY <1>1, <1>2 DEF Dense, NodesOf
<1> QED
  BY <1>2, <1>3, <1>4, <1>5 DEF FlowOK, NodesOf

LEMMA DrawKeeps ==
  ASSUME Typed, Draw
  PROVE  Typed'
<1>1. CASE Reduce
  BY <1>1, ReduceKeeps
<1>2. ASSUME NEW action \in Actions, Dispatch(action)  PROVE Typed'
  <2>1. UNCHANGED <<graph, current, alive, mouse, twoDrags>> /\ queue' \in Seq(Actions)
    BY <1>2 DEF Typed, QueueOK, Dispatch
  <2>2. /\ twoDrags' \in BOOLEAN /\ held' \in 0..Buttons /\ pressed' \subseteq DOMAIN nodes
        /\ pressedMenu' \subseteq MenuTypes
        /\ nodeDrags' \in Seq(Listener(DOMAIN nodes))
        /\ menuDrags' \in Seq(Listener(MenuTypes)) /\ portDrags' \in Seq(OutputPorts)
    BY <2>1 DEF Typed, MouseOK, mouse
  <2> QED
    BY <2>1, <2>2, MouseKeeps
<1>3. ASSUME NEW t \in MenuTypes, DrawNode(t)  PROVE Typed'
  BY <1>2, <1>3, DispatchedActions DEF DrawNode
<1>4. ASSUME NEW out \in OutputPorts, NEW in \in InputPorts, DrawConnection(out, in)
      PROVE  Typed'
  BY <1>2, <1>4, DispatchedActions DEF DrawConnection
<1>5. ASSUME NEW c \in DOMAIN controls, NEW v \in Texts, DrawText(c, v)  PROVE Typed'
  BY <1>2, <1>5, EditDispatches DEF DrawText
<1> QED
  BY <1>1, <1>3, <1>4, <1>5 DEF Draw

LEMMA FlowInvariant == FlowSpec => [](Typed /\ RunInv)
<1>1. FlowInit => Typed /\ RunInv
  BY NoRunYet, EmptyTyped DEF FlowInit, Init, EmptyGraph
<1>2. Typed /\ RunInv /\ [FlowNext]_flowVars => (Typed /\ RunInv)'
  <2> SUFFICES ASSUME Typed, RunInv, [FlowNext]_flowVars  PROVE (Typed /\ RunInv)'
    OBVIOUS
  <2>1. ASSUME UNCHANGED vars  PROVE Typed'
    <3>1. UNCHANGED <<graph, current, queue, alive, mouse, twoDrags>>
      BY <2>1 DEF vars
    <3> QED
      BY <3>1, MouseKeeps DEF Typed, MouseOK, QueueOK, mouse
  <2>2. CASE Draw
    BY <2>2, DrawKeeps, RunStutters DEF Draw
  <2>3. CASE Post
    BY <2>1, <2>3, PostedFlowOK, Launched DEF Post
  <2>4. CASE RunOn
    BY <2>1, <2>4, RunKeeps DEF RunOn
  <2>5. CASE UNCHANGED flowVars
    BY <2>1, <2>5, RunStutters DEF flowVars
  <2> QED
    BY <2>2, <2>3, <2>4, <2>5 DEF FlowNext
<1> QED
  BY <1>1, <1>2, PTL DEF FlowSpec
-----------------------------------------------------------------------------
\* The program calls and marks nodes of numbers, and what once holds and what
\* has ended are nodes of the flow it was made of.
THEOREM RunTypeCorrect == FlowSpec => []RunTypeOK
<1>1. RunInv => RunTypeOK
  <2> SUFFICES ASSUME RunTyped  PROVE RunTypeOK
    BY DEF RunInv
  <2>1. \A i \in DOMAIN finished : finished[i] \in NodesOf(flow)
    BY DEF RunTyped
  <2> QED
    BY <2>1 DEF RunTyped, RunTypeOK
<1> QED
  BY <1>1, FlowInvariant, PTL

\* std.once: the code of a node ends at most once, although a function is
\* called from its visit and by every node that reads it, and the result is
\* kept only when the code has ended.
THEOREM OnceKept == FlowSpec => []EndsOnce
<1>1. RunInv => EndsOnce
  BY DEF RunInv
<1> QED
  BY <1>1, FlowInvariant, PTL

\* A node that reads ends after the node it is wired to, in whatever order
\* visit_node comes by.
THEOREM SourcesFirst == FlowSpec => []ReadsAfterSource
<1>1. RunInv => ReadsAfterSource
  BY DEF RunInv
<1> QED
  BY <1>1, FlowInvariant, PTL

\* A run fails only if its flow is not well wired or does not load: no order of
\* visits and calls meets a node without a function or a node that waits for
\* itself.
THEOREM WellWiredRuns == FlowSpec => []WellWiredNeverFails
<1>1. RunInv => WellWiredNeverFails
  BY DEF RunInv, WiredOK, WellWiredNeverFails
<1> QED
  BY <1>1, FlowInvariant, PTL

\* No visit is left when a run completes: what was visited has run, and where it
\* leads to was visited, but for what is pruned.
LEMMA NothingLeft ==
  ASSUME RunInv, phase = "completed"
  PROVE  /\ 1 \in visited
         /\ \A n \in visited :
              \/ n = 4 /\ Decided
              \/ n \in done /\ \A k \in EdgesOf(flow, n) : LeadsTo(flow, k) \in visited
<1>1. DOMAIN stack = {}
  BY DEF RunInv, RunTyped
<1>2. \A n, from : ~Visiting(n, from)
  BY <1>1 DEF Visiting
<1>3. 1 \in visited /\ \A n \in visited : (n = 4 /\ Decided) \/ Explored(n)
  BY <1>2 DEF RunInv, VisitOK
<1>4. ASSUME NEW n \in visited, Explored(n)
      PROVE  n \in done /\ \A k \in EdgesOf(flow, n) : LeadsTo(flow, k) \in visited
  BY <1>2, <1>4 DEF Explored, Begun
<1> QED
  BY <1>3, <1>4

\* A run that completes has run every node its flow leads to from node 1 on a
\* way around what a Decision that ran has pruned: the visited nodes are a set
\* that holds node 1 and that nothing but a pruned node leads out of.
THEOREM AllRan == FlowSpec => []CompletedRanAll
<1>1. RunInv => CompletedRanAll
  <2> DEFINE pruned == IF Decided THEN {4} ELSE {}
  <2> SUFFICES ASSUME RunInv, phase = "completed", NEW n \in ReachableAround(flow, 1, pruned)
               PROVE  n \in done
    BY DEF CompletedRanAll, Decided
  <2> DEFINE S == visited \cap NodesOf(flow)
  <2>1. FlowOK(flow) /\ n \in NodesOf(flow) \ pruned
    BY DEF RunInv, RunTyped, ReachableAround
  <2>2. 1 \in NodesOf(flow)
    <3>1. PICK s \in Nat : NodesOf(flow) = 1..s
      BY <2>1 DEF FlowOK
    <3> QED
      BY <2>1, <3>1
  <2>3. /\ 1 \in visited
        /\ \A v \in visited \ pruned :
             v \in done /\ \A k \in EdgesOf(flow, v) : LeadsTo(flow, k) \in visited
    BY NothingLeft
  <2>4. ASSUME NEW k \in DOMAIN flow.connections, flow.connections[k].outputNode \in S \ pruned
        PROVE  LeadsTo(flow, k) \in S
    <3>1. LeadsTo(flow, k) \in NodesOf(flow)
      BY <2>1 DEF FlowOK
    <3>2. k \in EdgesOf(flow, flow.connections[k].outputNode)
      BY DEF EdgesOf
    <3> QED
      BY <2>3, <2>4, <3>1, <3>2
  <2>5. n \in S
    <3>1. 1 \in S /\ S \in SUBSET NodesOf(flow)
      BY <2>2, <2>3
    <3> HIDE DEF S, pruned
    <3> QED
      BY <2>4, <3>1 DEF ReachableAround
  <2> QED
    BY <2>1, <2>3, <2>5
<1> QED
  BY <1>1, FlowInvariant, PTL
=============================================================================
